--------------------------- MODULE OutboxMailProofs ---------------------------
(***************************************************************************)
(* How often, in which order and how completely Outbox lets Gmail have a   *)
(* text, for any number of texts, rows, workers and faults: never more     *)
(* often than is excused; and, unless tasks about the same draft were in   *)
(* hand side by side, a draft never goes back to an older text, and a mail *)
(* is whole.                                                               *)
(***************************************************************************)
EXTENDS OutboxProofs

USE OutboxAssumption DEF Texts, NoText, NoDraft, NoKey, Deleted, Earlier

-----------------------------------------------------------------------------
(* Nothing is mailed or stored more often than is excused.                 *)

\* A process has a text in hand; it is about to ask Gmail to mail or store it.
Handling(p) == job[p].step # "idle" /\ HasText(job[p].task)
Calling(p) == job[p].step = "call" /\ HasText(job[p].task)
Calls(p, t) == Calling(p) /\ Text(p) = t
Waits(t) == \E i \in 1 .. Len(queue) : HasText(queue[i]) /\ queue[i].text = t

\* The form gave a text one task, and it waits or is in one worker's hands.
OneWaits ==
    \A i, j \in 1 .. Len(queue) :
        (HasText(queue[i]) /\ HasText(queue[j]) /\ queue[i].text = queue[j].text) => i = j
WaitsOrHandled ==
    \A w \in Workers, i \in 1 .. Len(queue) :
        (Handling(w) /\ HasText(queue[i])) => Text(w) # queue[i].text
OneHandles ==
    \A v, w \in Workers : (Handling(v) /\ Handling(w) /\ Text(v) = Text(w)) => v = w
OneTask == OneWaits /\ WaitsOrHandled /\ OneHandles

\* Every call that may still come, by the form's task and by the command, is
\* one of those that are excused.
FormChance(t) == IF Waits(t) \/ \E w \in Workers : Calls(w, t) THEN 1 ELSE 0
CommandChance(t) == IF Calls(Command, t) THEN 1 ELSE 0
Chances(t) == FormChance(t) + CommandChance(t)
Counted(t) ==
    /\ mailed[t].times + Chances(t) <= 1 + Excused(t)
    /\ CopiesOf(t) + Chances(t) <= 1 + Excused(t)
TwiceInv == DeliveryInv /\ OneTask /\ \A t \in Texts : Counted(t)

LEMMA TextsKnown ==
    ASSUME TypeInv
    PROVE  /\ \A i \in 1 .. Len(queue) : HasText(queue[i]) =>
                 queue[i].text \in Texts /\ queue[i].text \in 1 .. Len(wanted)
           /\ \A p \in Processes : Handling(p) =>
                 Text(p) \in Texts /\ Text(p) \in 1 .. Len(wanted)
<1>1. \A task : Known(task) /\ HasText(task) =>
        task.text \in Texts /\ task.text \in 1 .. Len(wanted)
  BY TypedRows DEF Known, HasText
<1>2. \A i \in 1 .. Len(queue) : Known(queue[i])
  BY DEF TypeInv, TasksKnown
<1>3. \A p \in Processes : Handling(p) => Known(job[p].task)
  BY DEF TypeInv, JobsKnown, Handling
<1>4. QED
  BY <1>1, <1>2, <1>3 DEF Handling, Text

LEMMA CallsAreHandled == \A p \in Processes : Calling(p) => Handling(p)
BY DEF Calling, Handling

LEMMA CopiesTyped ==
    ASSUME TypeInv, NEW t
    PROVE  IsFiniteSet({d \in 1 .. Len(drafts) : drafts[d] = t}) /\ CopiesOf(t) \in Nat
<1>1. IsFiniteSet(1 .. Len(drafts))
  <2>1. 1 \in Int /\ Len(drafts) \in Int
    BY OrderTyped, SMT
  <2>2. QED
    BY <2>1, FS_Interval
<1>2. IsFiniteSet({d \in 1 .. Len(drafts) : drafts[d] = t})
  BY <1>1, FS_Subset
<1>3. QED
  BY <1>2, FS_CardinalityType DEF CopiesOf

LEMMA NotMoreCopies ==
    ASSUME TypeInv, NEW t,
           \A d \in 1 .. Len(drafts') :
              drafts'[d] = t => d \in 1 .. Len(drafts) /\ drafts[d] = t
    PROVE  CopiesOf(t)' \in Nat /\ CopiesOf(t)' <= CopiesOf(t)
<1> DEFINE old == {d \in 1 .. Len(drafts) : drafts[d] = t}
           now == {d \in 1 .. Len(drafts') : drafts'[d] = t}
<1>1. now \subseteq old
  OBVIOUS
<1>2. IsFiniteSet(old)
  BY CopiesTyped
<1>3. Cardinality(now) \in Nat /\ Cardinality(now) <= Cardinality(old)
  <2> HIDE DEF old, now
  <2> QED
    BY <1>1, <1>2, FS_Subset, FS_CardinalityType
<1>4. QED
  BY <1>3 DEF CopiesOf

LEMMA OneMoreCopy ==
    ASSUME TypeInv, NEW t, NEW x,
           \A d \in 1 .. Len(drafts') :
              drafts'[d] = t => d = x \/ (d \in 1 .. Len(drafts) /\ drafts[d] = t)
    PROVE  CopiesOf(t)' \in Nat /\ CopiesOf(t)' <= CopiesOf(t) + 1
<1> DEFINE old == {d \in 1 .. Len(drafts) : drafts[d] = t}
           now == {d \in 1 .. Len(drafts') : drafts'[d] = t}
<1>1. now \subseteq old \cup {x}
  OBVIOUS
<1>2. IsFiniteSet(old) /\ Cardinality(old) \in Nat
  BY CopiesTyped DEF CopiesOf
<1>3. Cardinality(now) \in Nat /\ Cardinality(now) <= Cardinality(old) + 1
  <2> HIDE DEF old, now
  <2>1. /\ IsFiniteSet(old \cup {x})
        /\ Cardinality(old \cup {x}) = IF x \in old THEN Cardinality(old)
                                                    ELSE Cardinality(old) + 1
    BY <1>2, FS_AddElement
  <2>2. Cardinality(now) <= Cardinality(old \cup {x}) /\ IsFiniteSet(now)
    BY <1>1, <2>1, FS_Subset
  <2>3. Cardinality(now) \in Nat
    BY <2>2, FS_CardinalityType
  <2>4. QED
    BY <1>2, <2>1, <2>2, <2>3, SMT
<1>4. QED
  BY <1>3 DEF CopiesOf

\* What the counts are made of.
LEMMA CountsTyped ==
    ASSUME TypeInv, NEW t \in Texts
    PROVE  /\ mailed[t].times \in Nat /\ CopiesOf(t) \in Nat
           /\ lost[t] \in Nat /\ resent[t] \in Nat /\ Excused(t) \in Nat
           /\ FormChance(t) \in {0, 1} /\ CommandChance(t) \in {0, 1}
<1>1. mailed[t].times \in Nat /\ lost[t] \in Nat /\ resent[t] \in Nat
  BY SMT DEF TypeInv, TypeOK
<1>2. FormChance(t) \in {0, 1} /\ CommandChance(t) \in {0, 1}
  BY DEF FormChance, CommandChance
<1>3. Excused(t) \in Nat
  BY <1>1, SMT DEF Excused
<1>4. QED
  BY <1>1, <1>2, <1>3, CopiesTyped

\* A step that gives a text neither another copy nor another chance.
LEMMA StaysCounted ==
    ASSUME TypeInv, TypeInv', NEW t \in Texts, Counted(t),
           mailed'[t].times = mailed[t].times,
           CopiesOf(t)' \in Nat, CopiesOf(t)' <= CopiesOf(t),
           FormChance(t)' <= FormChance(t), CommandChance(t)' <= CommandChance(t),
           lost'[t] >= lost[t], resent'[t] >= resent[t]
    PROVE  Counted(t)'
<1>1. PICK c \in Nat, f \in {0, 1}, m \in {0, 1} :
        c = CopiesOf(t)' /\ f = FormChance(t)' /\ m = CommandChance(t)'
  <2>1. FormChance(t)' \in {0, 1} /\ CommandChance(t)' \in {0, 1}
    BY DEF FormChance, CommandChance
  <2>2. QED
    BY <2>1
<1>2. PICK c0 \in Nat, f0 \in {0, 1}, m0 \in {0, 1} :
        c0 = CopiesOf(t) /\ f0 = FormChance(t) /\ m0 = CommandChance(t)
  BY CountsTyped
<1>3. /\ mailed[t].times \in Nat /\ lost[t] \in Nat /\ resent[t] \in Nat
      /\ lost'[t] \in Nat /\ resent'[t] \in Nat
  BY CountsTyped, SMT DEF TypeInv, TypeOK
<1>4. mailed[t].times + (f0 + m0) <= 1 + (lost[t] + resent[t])
      /\ c0 + (f0 + m0) <= 1 + (lost[t] + resent[t])
  BY <1>2 DEF Counted, Chances, Excused
<1>5. c <= c0 /\ f <= f0 /\ m <= m0
  BY <1>1, <1>2
<1>6. mailed'[t].times + (f + m) <= 1 + (lost'[t] + resent'[t])
      /\ c + (f + m) <= 1 + (lost'[t] + resent'[t])
  BY <1>3, <1>4, <1>5, SMT
<1>7. QED
  BY <1>1, <1>6 DEF Counted, Chances, Excused

\* Workers with no text in hand that they did not have before, and a queue that
\* got no text.
LEMMA SameTasks ==
    ASSUME OneTask,
           \A i \in 1 .. Len(queue') :
              (i \in 1 .. Len(queue) /\ queue'[i] = queue[i]) \/ ~HasText(queue'[i]),
           \A w \in Workers : /\ Handling(w)' => Handling(w) /\ Text(w)' = Text(w)
                              /\ Calling(w)' => Calling(w) /\ Text(w)' = Text(w)
    PROVE  OneTask' /\ \A t \in Texts : FormChance(t)' <= FormChance(t)
<1>1. OneWaits'
  BY DEF OneTask, OneWaits, HasText
<1>2. WaitsOrHandled'
  <2> SUFFICES ASSUME NEW w \in Workers, NEW i \in 1 .. Len(queue'),
                      Handling(w)', HasText(queue'[i])
               PROVE  Text(w)' # queue'[i].text
    BY DEF WaitsOrHandled, HasText
  <2>1. QED
    BY DEF OneTask, WaitsOrHandled
<1>3. OneHandles'
  BY DEF OneTask, OneHandles
<1>4. ASSUME NEW t \in Texts PROVE FormChance(t)' <= FormChance(t)
  <2>1. Waits(t)' => Waits(t)
    BY DEF Waits, HasText
  <2>2. \A w \in Workers : Calls(w, t)' => Calls(w, t)
    BY DEF Calls
  <2>3. 0 <= 1 /\ 0 <= 0 /\ 1 <= 1
    BY SMT
  <2>4. QED
    BY <2>1, <2>2, <2>3 DEF FormChance
<1>5. QED
  BY <1>1, <1>2, <1>3, <1>4 DEF OneTask

\* Jobs that go on ask for no other text.
LEMMA JobsCall ==
    JobsGoOn => \A p \in Processes : /\ Handling(p)' => Handling(p) /\ Text(p)' = Text(p)
                                     /\ Calling(p)' => Calling(p) /\ Text(p)' = Text(p)
BY DEF JobsGoOn, Handling, Calling, Text, HasText

LEMMA LessCommand ==
    ASSUME NEW t, Calls(Command, t)' => Calls(Command, t)
    PROVE  CommandChance(t)' <= CommandChance(t)
<1>1. 0 <= 1 /\ 0 <= 0 /\ 1 <= 1
  BY SMT
<1>2. QED
  BY <1>1 DEF CommandChance

LEMMA InitTwice == Init => TwiceInv
<1> SUFFICES ASSUME Init PROVE TwiceInv
  OBVIOUS
<1>0. DeliveryInv /\ TypeInv
  BY InitDelivery DEF DeliveryInv, SafeInv
<1>1. Len(queue) = 0
  BY DEF Init
<1>2. \A p \in Processes : ~Handling(p) /\ ~Calling(p)
  BY IdleIsJob, SMT DEF Init, Handling, Calling
<1>3. Workers \subseteq Processes /\ Command \in Processes
  BY DEF Processes
<1>4. OneTask
  BY <1>1, <1>2, <1>3, SMT DEF OneTask, OneWaits, WaitsOrHandled, OneHandles
<1>5. ASSUME NEW t \in Texts PROVE Counted(t)
  <2>1. FormChance(t) = 0 /\ CommandChance(t) = 0
    BY <1>1, <1>2, <1>3, SMT DEF FormChance, CommandChance, Waits, Calls
  <2>2. mailed[t].times = 0
    BY SMT DEF Init
  <2>3. CopiesOf(t) <= 1
    <3> DEFINE S == {d \in 1 .. Len(drafts) : drafts[d] = t}
    <3>1. Len(drafts) = 1
      BY DEF Init
    <3>2. S \subseteq {1}
      BY <3>1, SMT
    <3>3. IsFiniteSet({1}) /\ Cardinality({1}) = 1
      BY FS_Singleton
    <3>4. Cardinality(S) <= Cardinality({1})
      <4> HIDE DEF S
      <4> QED
        BY <3>2, <3>3, FS_Subset
    <3>5. QED
      BY <3>3, <3>4 DEF CopiesOf
  <2>4. PICK c \in Nat, e \in Nat : c = CopiesOf(t) /\ e = Excused(t)
    BY <1>0, CountsTyped
  <2>5. 0 + (0 + 0) <= 1 + e /\ c + (0 + 0) <= 1 + e
    BY <2>3, <2>4, SMT
  <2>6. QED
    BY <2>1, <2>2, <2>4, <2>5 DEF Counted, Chances
<1>6. QED
  BY <1>0, <1>4, <1>5 DEF TwiceInv

\* The new text has one task, and nothing was done for it yet.
LEMMA FormCounts ==
    ASSUME TwiceInv, TypeInv', FormSent
    PROVE  OneTask' /\ \A t \in Texts : Counted(t)'
<1> DEFINE new == Len(wanted) + 1
<1>0. TypeInv /\ Numbered /\ OneTask /\ Len(wanted) \in Nat
  BY OrderTyped DEF TwiceInv, DeliveryInv, SafeInv
<1>1. \A i \in 1 .. Len(queue') :
         \/ i \in 1 .. Len(queue) /\ queue'[i] = queue[i]
         \/ i = Len(queue) + 1 /\ (HasText(queue'[i]) => queue'[i].text = new)
         \/ ~HasText(queue'[i])
  BY <1>0, FormQueue
<1>2. UNCHANGED <<drafts, mailed, job, lost, resent>>
  BY DEF FormSent
<1>3. new \notin 1 .. Len(wanted)
  BY <1>0, SMT
<1>4. /\ \A i \in 1 .. Len(queue) : HasText(queue[i]) => queue[i].text # new
      /\ \A p \in Processes : Handling(p) => Text(p) # new
      /\ \A p \in Processes : Calling(p) => Text(p) # new
  BY <1>0, <1>3, TextsKnown, CallsAreHandled
<1>5. /\ \A p \in Processes : Handling(p)' <=> Handling(p)
      /\ \A p \in Processes : Calling(p)' <=> Calling(p)
      /\ \A p \in Processes : Text(p)' = Text(p)
      /\ Workers \subseteq Processes /\ Command \in Processes
  BY <1>2 DEF Handling, Calling, Text, HasText, Processes
<1> HIDE DEF new
<1>6. OneWaits'
  <2> SUFFICES ASSUME NEW i \in 1 .. Len(queue'), NEW j \in 1 .. Len(queue'),
                      HasText(queue'[i]), HasText(queue'[j]),
                      queue'[i].text = queue'[j].text
               PROVE  i = j
    BY DEF OneWaits, HasText
  <2>1. CASE queue'[i].text = new
    BY <1>1, <1>4, <2>1
  <2>2. CASE queue'[i].text # new
    BY <1>0, <1>1, <2>2 DEF OneTask, OneWaits
  <2>3. QED
    BY <2>1, <2>2
<1>7. WaitsOrHandled'
  <2> SUFFICES ASSUME NEW w \in Workers, NEW i \in 1 .. Len(queue'),
                      Handling(w), HasText(queue'[i])
               PROVE  Text(w) # queue'[i].text
    BY <1>5 DEF WaitsOrHandled, HasText
  <2>1. QED
    BY <1>0, <1>1, <1>4, <1>5 DEF OneTask, WaitsOrHandled
<1>8. OneHandles'
  BY <1>0, <1>5 DEF OneTask, OneHandles
<1>9. ASSUME NEW t \in Texts PROVE Counted(t)'
  <2>1. Calls(Command, t)' <=> Calls(Command, t)
    BY <1>5 DEF Calls
  <2>2. CommandChance(t)' <= CommandChance(t) /\ CommandChance(t)' = CommandChance(t)
    BY <2>1, LessCommand DEF CommandChance
  <2>3. \A d \in 1 .. Len(drafts') :
           drafts'[d] = t => d \in 1 .. Len(drafts) /\ drafts[d] = t
    BY <1>2
  <2>4. CopiesOf(t)' \in Nat /\ CopiesOf(t)' <= CopiesOf(t)
    BY <1>0, <2>3, NotMoreCopies
  <2>5. mailed'[t].times = mailed[t].times /\ lost'[t] >= lost[t] /\ resent'[t] >= resent[t]
    BY <1>0, <1>2, CountsTyped, SMT
  <2>6. CASE t # new
    <3>1. Waits(t)' => Waits(t)
      BY <1>1, <2>6 DEF Waits, HasText
    <3>2. \A w \in Workers : Calls(w, t)' <=> Calls(w, t)
      BY <1>5 DEF Calls
    <3>3. 0 <= 1 /\ 0 <= 0 /\ 1 <= 1
      BY SMT
    <3>4. FormChance(t)' <= FormChance(t)
      BY <3>1, <3>2, <3>3 DEF FormChance
    <3>5. QED
      BY <1>0, <2>2, <2>4, <2>5, <3>4, StaysCounted DEF TwiceInv
  <2>7. CASE t = new
    <3>1. ~Obtained(t)
      BY <1>0, <1>3, <2>7 DEF Numbered, ObtainedTexts, new
    <3>2. mailed[t].times = 0 /\ \A d \in 1 .. Len(drafts) : drafts[d] # t
      BY <1>0, <3>1, CountsTyped, SMT DEF Obtained, Drafted
    <3>3. {d \in 1 .. Len(drafts) : drafts[d] = t} = {}
      BY <3>2
    <3>4. CopiesOf(t) = 0
      BY <3>3, FS_EmptySet DEF CopiesOf
    <3>5. CommandChance(t)' = 0
      BY <1>4, <1>5, <2>2, <2>7 DEF CommandChance, Calls
    <3>6. PICK c \in Nat, f \in {0, 1}, e \in Nat :
            c = CopiesOf(t)' /\ f = FormChance(t)' /\ e = Excused(t)'
      <4>1. Excused(t)' \in Nat
        BY <1>0, <1>2, CountsTyped DEF Excused
      <4>2. FormChance(t)' \in {0, 1}
        BY DEF FormChance
      <4>3. QED
        BY <2>4, <4>1, <4>2
    <3>7. 0 + (f + 0) <= 1 + e /\ c + (f + 0) <= 1 + e
      BY <2>4, <3>4, <3>6, SMT
    <3>8. QED
      BY <2>5, <3>2, <3>5, <3>6, <3>7 DEF Counted, Chances
  <2>8. QED
    BY <2>6, <2>7
<1>10. QED
  BY <1>6, <1>7, <1>8, <1>9 DEF OneTask

\* The task that is taken up no longer waits.
LEMMA TakenCounts ==
    ASSUME TwiceInv, TypeInv', TaskTaken
    PROVE  OneTask' /\ \A t \in Texts : Counted(t)'
<1>0. TypeInv /\ OneTask
  BY DEF TwiceInv, DeliveryInv, SafeInv
<1>1. /\ \A i \in 1 .. Len(queue') : i + 1 \in 1 .. Len(queue) /\ queue'[i] = queue[i + 1]
      /\ Head(queue) = queue[1] /\ 1 \in 1 .. Len(queue)
      /\ \A i, j \in 1 .. Len(queue') : i + 1 = j + 1 => i = j
      /\ \A i \in 1 .. Len(queue') : 1 # i + 1
  <2>1. queue \in Seq(Task) /\ queue # <<>> /\ queue' = Tail(queue)
    BY <1>0, OrderTyped DEF TaskTaken
  <2>2. QED
    BY <2>1, SMT
<1>2. UNCHANGED <<drafts, mailed, lost, resent>>
  BY DEF TaskTaken
<1>3. /\ Workers \subseteq Processes /\ Command \in Processes
      /\ Command \notin Workers
  BY <1>0 DEF Processes, TypeInv, TypeOK
<1>4. \* Who has a text had it before, or has the task that waited first.
      \A p \in Processes :
         /\ Calling(p)' => Handling(p)'
         /\ Handling(p)' => \/ /\ Handling(p) /\ Text(p)' = Text(p)
                               /\ Calling(p)' => Calling(p)
                            \/ /\ p \in Workers
                               /\ HasText(queue[1]) /\ Text(p)' = queue[1].text
                               /\ \A q \in Processes : q # p => job'[q] = job[q]
  <2>1. CASE UNCHANGED job
    BY <2>1 DEF Handling, Calling, Text
  <2>2. CASE \E w \in Workers : Begin(w, Head(queue)) /\ Loads(Head(queue))
    <3>1. PICK w \in Workers : Begin(w, Head(queue)) /\ Loads(Head(queue))
      BY <2>2
    <3>2. Known(Head(queue)) /\ w \in Workers /\ w \in Processes
      BY <1>0, <1>1, <1>3 DEF TypeInv, TasksKnown
    <3>3. /\ \A q \in Processes : q # w => job'[q] = job[q]
          /\ job'[w].task = queue[1]
      BY <1>0, <1>1, <3>1, <3>2, BeginTyped
    <3>4. QED
      BY <3>2, <3>3 DEF Handling, Calling, Text, HasText
  <2>3. QED
    BY <2>1, <2>2 DEF TaskTaken
<1>5. OneWaits'
  <2> SUFFICES ASSUME NEW i \in 1 .. Len(queue'), NEW j \in 1 .. Len(queue'),
                      HasText(queue'[i]), HasText(queue'[j]),
                      queue'[i].text = queue'[j].text
               PROVE  i = j
    BY DEF OneWaits, HasText
  <2>1. i + 1 = j + 1
    BY <1>0, <1>1 DEF OneTask, OneWaits
  <2>2. QED
    BY <1>1, <2>1
<1>6. WaitsOrHandled'
  <2> SUFFICES ASSUME NEW w \in Workers, NEW i \in 1 .. Len(queue'),
                      Handling(w)', HasText(queue'[i])
               PROVE  Text(w)' # queue'[i].text
    BY DEF WaitsOrHandled, HasText
  <2>1. i + 1 \in 1 .. Len(queue) /\ queue'[i] = queue[i + 1] /\ 1 # i + 1
    BY <1>1
  <2>2. CASE Handling(w) /\ Text(w)' = Text(w)
    BY <1>0, <2>1, <2>2 DEF OneTask, WaitsOrHandled
  <2>3. CASE HasText(queue[1]) /\ Text(w)' = queue[1].text
    BY <1>0, <1>1, <2>1, <2>3 DEF OneTask, OneWaits
  <2>4. QED
    BY <1>3, <1>4, <2>2, <2>3
<1>7. OneHandles'
  <2> SUFFICES ASSUME NEW v \in Workers, NEW w \in Workers,
                      Handling(v)', Handling(w)', Text(v)' = Text(w)'
               PROVE  v = w
    BY DEF OneHandles
  <2>1. ASSUME NEW a \in Workers, NEW b \in Workers, a # b,
               Handling(a)', Handling(b)', Text(a)' = Text(b)',
               HasText(queue[1]), Text(a)' = queue[1].text,
               \A q \in Processes : q # a => job'[q] = job[q]
        PROVE  FALSE
    <3>1. job'[b] = job[b]
      BY <1>3, <2>1
    <3>2. Handling(b) /\ Text(b) = queue[1].text
      BY <2>1, <3>1 DEF Handling, Text
    <3>3. QED
      BY <1>0, <1>1, <2>1, <3>2 DEF OneTask, WaitsOrHandled
  <2>2. CASE Handling(v) /\ Text(v)' = Text(v) /\ Handling(w) /\ Text(w)' = Text(w)
    BY <1>0, <2>2 DEF OneTask, OneHandles
  <2>3. QED
    BY <1>3, <1>4, <2>1, <2>2
<1>8. ASSUME NEW t \in Texts PROVE Counted(t)'
  <2>1. CommandChance(t)' <= CommandChance(t)
    <3>1. Calls(Command, t)' => Calls(Command, t)
      BY <1>3, <1>4 DEF Calls
    <3>2. QED
      BY <3>1, LessCommand
  <2>2. FormChance(t)' <= FormChance(t)
    <3>1. Waits(t)' => Waits(t)
      BY <1>1 DEF Waits, HasText
    <3>2. ASSUME NEW w \in Workers, Calls(w, t)'
          PROVE  Waits(t) \/ Calls(w, t)
      BY <1>1, <1>3, <1>4, <3>2 DEF Waits, Calls
    <3>3. 0 <= 1 /\ 0 <= 0 /\ 1 <= 1
      BY SMT
    <3>4. QED
      BY <3>1, <3>2, <3>3 DEF FormChance
  <2>3. CopiesOf(t)' \in Nat /\ CopiesOf(t)' <= CopiesOf(t)
    BY <1>0, <1>2, NotMoreCopies
  <2>4. mailed'[t].times = mailed[t].times /\ lost'[t] >= lost[t] /\ resent'[t] >= resent[t]
    BY <1>0, <1>2, CountsTyped, SMT
  <2>5. QED
    BY <1>0, <2>1, <2>2, <2>3, <2>4, StaysCounted DEF TwiceInv
<1>9. QED
  BY <1>5, <1>6, <1>7, <1>8 DEF OneTask

\* A step for which a text got an excuse more than it got chances or copies.
LEMMA ExcusedAgain ==
    ASSUME TypeInv, TypeInv', NEW t \in Texts, Counted(t), NEW gain \in {0, 1},
           mailed'[t].times <= mailed[t].times + gain,
           CopiesOf(t)' \in Nat, CopiesOf(t)' <= CopiesOf(t) + gain,
           Chances(t)' + gain <= Chances(t) + Excused(t)' - Excused(t)
    PROVE  Counted(t)'
<1>1. PICK c \in Nat, f \in Nat, x \in Nat :
        c = CopiesOf(t)' /\ f = Chances(t)' /\ x = Excused(t)'
  <2>1. FormChance(t)' \in {0, 1} /\ CommandChance(t)' \in {0, 1}
    BY DEF FormChance, CommandChance
  <2>2. Chances(t)' \in Nat
    BY <2>1, SMT DEF Chances
  <2>3. lost'[t] \in Nat /\ resent'[t] \in Nat
    BY SMT DEF TypeInv, TypeOK
  <2>4. Excused(t)' \in Nat
    BY <2>3, SMT DEF Excused
  <2>5. QED
    BY <2>2, <2>4
<1>2. PICK c0 \in Nat, f0 \in Nat, x0 \in Nat :
        c0 = CopiesOf(t) /\ f0 = Chances(t) /\ x0 = Excused(t)
  <2>1. Chances(t) \in Nat
    <3>1. FormChance(t) \in {0, 1} /\ CommandChance(t) \in {0, 1}
      BY CountsTyped
    <3>2. QED
      BY <3>1, SMT DEF Chances
  <2>2. QED
    BY <2>1, CountsTyped
<1>3. mailed[t].times \in Nat /\ mailed'[t].times \in Nat
  BY SMT DEF TypeInv, TypeOK
<1>4. mailed[t].times + f0 <= 1 + x0 /\ c0 + f0 <= 1 + x0
  BY <1>2 DEF Counted
<1>5. c <= c0 + gain /\ f + gain <= f0 + x - x0
  BY <1>1, <1>2
<1>6. mailed'[t].times + f <= 1 + x /\ c + f <= 1 + x
  BY <1>3, <1>4, <1>5, SMT
<1>7. QED
  BY <1>1, <1>6 DEF Counted

\* The command's chance is what it is excused for.
LEMMA CommandCounts ==
    ASSUME TwiceInv, TypeInv', CommandRun
    PROVE  OneTask' /\ \A t \in Texts : Counted(t)'
<1>0. TypeInv /\ OneTask /\ Command \in Processes /\ Workers \subseteq Processes
      /\ Command \notin Workers
  BY DEF TwiceInv, DeliveryInv, SafeInv, Processes
<1>1. PICK u \in Texts : /\ Known(Send(u, NoKey)) /\ Loads(Send(u, NoKey))
                         /\ Begin(Command, Send(u, NoKey))
                         /\ resent' = [resent EXCEPT ![u] = @ + 1]
  BY DEF CommandRun
<1>2. /\ \A q \in Processes : q # Command => job'[q] = job[q]
      /\ job'[Command].task = Send(u, NoKey)
  BY <1>0, <1>1, BeginTyped
<1>3. UNCHANGED <<queue, drafts, mailed, lost>>
  BY DEF CommandRun
<1>4. OneTask' /\ \A t \in Texts : FormChance(t)' <= FormChance(t)
  <2>1. \A w \in Workers : /\ Handling(w)' => Handling(w) /\ Text(w)' = Text(w)
                           /\ Calling(w)' => Calling(w) /\ Text(w)' = Text(w)
    <3>1. \A w \in Workers : job'[w] = job[w]
      BY <1>0, <1>2
    <3>2. QED
      BY <3>1 DEF Handling, Calling, Text, HasText
  <2>2. QED
    BY <1>0, <1>3, <2>1, SameTasks
<1>5. ASSUME NEW t \in Texts PROVE Counted(t)'
  <2>1. CopiesOf(t)' \in Nat /\ CopiesOf(t)' <= CopiesOf(t)
    BY <1>0, <1>3, NotMoreCopies
  <2>2. CASE t # u
    <3>1. ~Calls(Command, t)'
      BY <1>2, <2>2 DEF Calls, Text, Send
    <3>2. resent'[t] = resent[t] /\ mailed'[t].times = mailed[t].times
          /\ lost'[t] >= lost[t] /\ resent'[t] >= resent[t]
      <4>1. resent \in [Texts -> Nat] /\ lost \in [Texts -> Nat]
        BY <1>0 DEF TypeInv, TypeOK
      <4>2. QED
        BY <1>1, <1>3, <2>2, <4>1, SMT
    <3>3. CommandChance(t)' <= CommandChance(t)
      BY <3>1, LessCommand
    <3>4. QED
      BY <1>0, <1>4, <2>1, <3>2, <3>3, StaysCounted DEF TwiceInv
  <2>3. CASE t = u
    <3>1. resent'[t] = resent[t] + 1 /\ lost'[t] = lost[t]
          /\ mailed'[t].times = mailed[t].times
      BY <1>0, <1>1, <1>3, <2>3 DEF TypeInv, TypeOK
    <3>2. PICK f \in {0, 1}, m \in {0, 1}, f0 \in {0, 1}, m0 \in {0, 1} :
            /\ f = FormChance(t)' /\ m = CommandChance(t)'
            /\ f0 = FormChance(t) /\ m0 = CommandChance(t)
      BY DEF FormChance, CommandChance
    <3>3. f <= f0
      BY <1>4, <3>2
    <3>4. lost[t] \in Nat /\ resent[t] \in Nat
      BY <1>0, CountsTyped
    <3>5. (f + m) + 0 <= (f0 + m0) + (lost'[t] + resent'[t]) - (lost[t] + resent[t])
      BY <3>1, <3>3, <3>4, SMT
    <3>6. Chances(t)' + 0 <= Chances(t) + Excused(t)' - Excused(t)
      BY <3>2, <3>5 DEF Chances, Excused
    <3>7. mailed'[t].times <= mailed[t].times + 0 /\ CopiesOf(t)' <= CopiesOf(t) + 0
      <4>1. PICK c \in Nat, c0 \in Nat : c = CopiesOf(t)' /\ c0 = CopiesOf(t)
        BY <1>0, <2>1, CountsTyped
      <4>2. c <= c0 /\ mailed[t].times \in Nat
        BY <1>0, <2>1, <4>1, CountsTyped
      <4>3. c <= c0 + 0 /\ mailed[t].times <= mailed[t].times + 0
        BY <4>2, SMT
      <4>4. QED
        BY <3>1, <4>1, <4>3
    <3>8. QED
      BY <1>0, <2>1, <3>6, <3>7, ExcusedAgain DEF TwiceInv
  <2>4. QED
    BY <2>2, <2>3
<1>6. QED
  BY <1>4, <1>5

\* A call mails a text once, or stores one copy of it, and no other text.
LEMMA CallGivesOnce ==
    ASSUME TypeInv, NEW p \in Processes, job[p].step = "call", Carried(p),
           NEW t \in Texts
    PROVE  /\ CopiesOf(t)' \in Nat
           /\ mailed'[t].times <= mailed[t].times + 1 /\ CopiesOf(t)' <= CopiesOf(t) + 1
           /\ ~Calls(p, t) => /\ mailed'[t].times = mailed[t].times
                              /\ CopiesOf(t)' <= CopiesOf(t)
<1>0. /\ mailed \in [Texts -> [times : Nat, complete : BOOLEAN]]
      /\ mailed[t].times \in Nat /\ t # Deleted
  <2>1. mailed \in [Texts -> [times : Nat, complete : BOOLEAN]] /\ mailed[t].times \in Nat
    BY CountsTyped DEF TypeInv, TypeOK
  <2>2. t # Deleted
    BY SMT
  <2>3. QED
    BY <2>1, <2>2
<1>1. /\ mailed'[t].times = mailed[t].times \/ mailed'[t].times = mailed[t].times + 1
      /\ ~Calls(p, t) => mailed'[t].times = mailed[t].times
  <2>1. CASE Kind(p) = "send" /\ Mail(Text(p))
    <3>1. t # Text(p) => mailed'[t] = mailed[t]
      BY <1>0, <2>1 DEF Mail
    <3>2. t = Text(p) => mailed'[t].times = mailed[t].times + 1 /\ Calls(p, t)
      BY <1>0, <2>1 DEF Mail, Calls, Calling, HasText, Kind
    <3>3. QED
      BY <3>1, <3>2
  <2>2. CASE UNCHANGED mailed
    BY <2>2
  <2>3. QED
    BY <2>1, <2>2 DEF Carried, NewDraft, ReplaceDraft, DeleteDraft
<1>2. ~Calls(p, t) => CopiesOf(t)' \in Nat /\ CopiesOf(t)' <= CopiesOf(t)
  <2> SUFFICES ASSUME ~Calls(p, t)
               PROVE  CopiesOf(t)' \in Nat /\ CopiesOf(t)' <= CopiesOf(t)
    OBVIOUS
  <2>1. ~(Saving(p) /\ Text(p) = t)
    BY DEF Calls, Calling, Saving, Saves, HasText
  <2>2. ASSUME NEW d \in 1 .. Len(drafts'), drafts'[d] = t
        PROVE  d \in 1 .. Len(drafts) /\ drafts[d] = t
    BY <1>0, <2>1, <2>2, DraftChanges
  <2>3. QED
    BY <2>2, NotMoreCopies
<1>3. PICK x : \A d \in 1 .. Len(drafts') :
         drafts'[d] = t => d = x \/ (d \in 1 .. Len(drafts) /\ drafts[d] = t)
  <2>1. CASE Kind(p) = "create" /\ NewDraft(Text(p))
    <3>1. drafts' = Append(drafts, Text(p)) /\ Text(p) \in Texts
      BY <2>1, TextsKnown DEF NewDraft, Handling, HasText, Kind
    <3>2. /\ Len(drafts') = Len(drafts) + 1
          /\ \A e \in 1 .. Len(drafts) : drafts'[e] = drafts[e]
      BY <3>1, OrderTyped, AppendProperties
    <3>3. \A d \in 1 .. Len(drafts') : d = Len(drafts) + 1 \/ d \in 1 .. Len(drafts)
      BY <3>2, OrderTyped, SMT
    <3>4. QED
      BY <3>2, <3>3
  <2>2. ASSUME NEW e, NEW u, drafts' = [drafts EXCEPT ![e] = u]
        PROVE  \A d \in 1 .. Len(drafts') :
                 drafts'[d] = t => d = e \/ (d \in 1 .. Len(drafts) /\ drafts[d] = t)
    <3>1. Len(drafts') = Len(drafts) /\ DOMAIN drafts = 1 .. Len(drafts)
      BY <2>2, OrderTyped, SMT
    <3>2. QED
      BY <2>2, <3>1
  <2>3. CASE UNCHANGED drafts
    BY <2>3
  <2>4. QED
    BY <2>1, <2>2, <2>3 DEF Carried, Mail, ReplaceDraft, DeleteDraft
<1>4. CopiesOf(t)' \in Nat /\ CopiesOf(t)' <= CopiesOf(t) + 1
  BY <1>3, OneMoreCopy
<1>5. mailed'[t].times <= mailed[t].times + 1
  BY <1>0, <1>1, SMT
<1>6. QED
  BY <1>1, <1>2, <1>4, <1>5

\* A call uses up the chance that it was, unless its answer is lost.
LEMMA GmailCounts ==
    ASSUME TwiceInv, TypeInv', GmailCalled
    PROVE  OneTask' /\ \A t \in Texts : Counted(t)'
<1>0. TypeInv /\ OneTask /\ Command \in Processes /\ Workers \subseteq Processes
      /\ Processes = Workers \cup {Command}
  BY DEF TwiceInv, DeliveryInv, SafeInv, Processes
<1>1. PICK p \in Processes :
         /\ job[p].step = "call" /\ Carried(p)
         /\ \/ UNCHANGED lost /\ job'[p].step # "call"
            \/ Kind(p) # "trash" /\ lost' = [lost EXCEPT ![Text(p)] = @ + 1]
  BY DEF GmailCalled
<1>2. UNCHANGED <<queue, resent>> /\ JobsGoOn
  BY DEF GmailCalled
<1>3. \A q \in Processes : /\ Handling(q)' => Handling(q) /\ Text(q)' = Text(q)
                           /\ Calling(q)' => Calling(q) /\ Text(q)' = Text(q)
  BY <1>2, JobsCall
<1>4. OneTask' /\ \A t \in Texts : FormChance(t)' <= FormChance(t)
  BY <1>0, <1>2, <1>3, SameTasks
<1>5. ASSUME NEW t \in Texts PROVE CommandChance(t)' <= CommandChance(t)
  <2>1. Calls(Command, t)' => Calls(Command, t)
    BY <1>0, <1>3 DEF Calls
  <2>2. QED
    BY <2>1, LessCommand
<1>6. \/ UNCHANGED lost /\ job'[p].step # "call"
      \/ /\ Kind(p) # "trash" /\ Text(p) \in Texts
         /\ \A t \in Texts : lost'[t] = IF t = Text(p) THEN lost[t] + 1 ELSE lost[t]
  <2>1. lost \in [Texts -> Nat]
    BY <1>0 DEF TypeInv, TypeOK
  <2>2. Kind(p) # "trash" => Text(p) \in Texts
    BY <1>0, <1>1, TextsKnown DEF Handling, HasText, Kind
  <2>3. QED
    BY <1>1, <2>1, <2>2
<1>7. ASSUME NEW t \in Texts PROVE Counted(t)'
  <2>0. Counted(t) /\ lost[t] \in Nat /\ resent[t] \in Nat
    BY <1>0, CountsTyped DEF TwiceInv
  <2>1. /\ CopiesOf(t)' \in Nat
        /\ mailed'[t].times <= mailed[t].times + 1 /\ CopiesOf(t)' <= CopiesOf(t) + 1
        /\ ~Calls(p, t) => /\ mailed'[t].times = mailed[t].times
                           /\ CopiesOf(t)' <= CopiesOf(t)
    BY <1>0, <1>1, CallGivesOnce
  <2>2. resent'[t] >= resent[t] /\ lost'[t] >= lost[t]
    BY <1>2, <1>6, <2>0, SMT
  <2>3. CASE ~Calls(p, t)
    BY <1>0, <1>4, <1>5, <2>0, <2>1, <2>2, <2>3, StaysCounted
  <2>4. CASE Calls(p, t)
    <3>1. PICK f \in {0, 1}, m \in {0, 1}, f0 \in {0, 1}, m0 \in {0, 1} :
            /\ f = FormChance(t)' /\ m = CommandChance(t)'
            /\ f0 = FormChance(t) /\ m0 = CommandChance(t)
      BY DEF FormChance, CommandChance
    <3>2. f <= f0 /\ m <= m0
      BY <1>4, <1>5, <3>1
    <3>3. (f + m) + 1 <= (f0 + m0) + (lost'[t] + resent'[t]) - (lost[t] + resent[t])
      <4>1. CASE lost'[t] = lost[t] + 1
        BY <1>2, <2>0, <3>2, <4>1, SMT
      <4>2. CASE UNCHANGED lost /\ job'[p].step # "call"
        <5>1. CASE p = Command
          <6>1. m = 0 /\ m0 = 1
            BY <2>4, <3>1, <4>2, <5>1 DEF CommandChance, Calls, Calling
          <6>2. QED
            BY <1>2, <2>0, <3>2, <4>2, <6>1, SMT
        <5>2. CASE p \in Workers
          <6>1. ~Waits(t)' /\ \A w \in Workers : ~Calls(w, t)'
            <7>1. ~Waits(t)
              BY <1>0, <2>4, <5>2, CallsAreHandled DEF OneTask, WaitsOrHandled, Waits, Calls
            <7>2. ASSUME NEW w \in Workers, Calls(w, t)' PROVE FALSE
              <8>1. Calls(w, t)
                BY <1>0, <1>3, <7>2 DEF Calls
              <8>2. w = p
                BY <1>0, <2>4, <5>2, <8>1, CallsAreHandled DEF OneTask, OneHandles, Calls
              <8>3. QED
                BY <4>2, <7>2, <8>2 DEF Calls, Calling
            <7>3. QED
              BY <1>2, <7>1, <7>2 DEF Waits, HasText
          <6>2. f = 0 /\ f0 = 1
            BY <2>4, <3>1, <5>2, <6>1 DEF FormChance
          <6>3. QED
            BY <1>2, <2>0, <3>2, <4>2, <6>2, SMT
        <5>3. QED
          BY <1>0, <5>1, <5>2
      <4>3. QED
        BY <1>6, <2>4, <4>1, <4>2 DEF Calls
    <3>4. Chances(t)' + 1 <= Chances(t) + Excused(t)' - Excused(t)
      BY <3>1, <3>3 DEF Chances, Excused
    <3>5. QED
      BY <1>0, <2>0, <2>1, <3>4, ExcusedAgain
  <2>5. QED
    BY <2>3, <2>4
<1>8. QED
  BY <1>4, <1>7

LEMMA ElseCounts ==
    ASSUME TwiceInv, TypeInv', AllElse
    PROVE  OneTask' /\ \A t \in Texts : Counted(t)'
<1>0. TypeInv /\ OneTask /\ Command \in Processes /\ Workers \subseteq Processes
  BY DEF TwiceInv, DeliveryInv, SafeInv, Processes
<1>1. UNCHANGED <<mailed, lost, resent>> /\ JobsGoOn
  BY DEF AllElse
<1>2. \A q \in Processes : /\ Handling(q)' => Handling(q) /\ Text(q)' = Text(q)
                           /\ Calling(q)' => Calling(q) /\ Text(q)' = Text(q)
  BY <1>1, JobsCall
<1>3. OneTask' /\ \A t \in Texts : FormChance(t)' <= FormChance(t)
  BY <1>0, <1>2, ElseQueue, SameTasks
<1>4. \A d \in 1 .. Len(drafts') :
         d \in 1 .. Len(drafts) /\ (drafts'[d] = drafts[d] \/ drafts'[d] = Deleted)
  BY <1>0, ElseDrafts
<1>5. ASSUME NEW t \in Texts PROVE Counted(t)'
  <2>1. CommandChance(t)' <= CommandChance(t)
    <3>1. Calls(Command, t)' => Calls(Command, t)
      BY <1>0, <1>2 DEF Calls
    <3>2. QED
      BY <3>1, LessCommand
  <2>2. t # Deleted
    BY SMT
  <2>3. CopiesOf(t)' \in Nat /\ CopiesOf(t)' <= CopiesOf(t)
    BY <1>0, <1>4, <2>2, NotMoreCopies
  <2>4. mailed'[t].times = mailed[t].times /\ lost'[t] >= lost[t] /\ resent'[t] >= resent[t]
    BY <1>0, <1>1, CountsTyped, SMT
  <2>5. QED
    BY <1>0, <1>3, <2>1, <2>3, <2>4, StaysCounted DEF TwiceInv
<1>6. QED
  BY <1>3, <1>5

LEMMA NextTwice == TwiceInv /\ [Next]_vars => TwiceInv'
<1> SUFFICES ASSUME TwiceInv, [Next]_vars PROVE TwiceInv'
  OBVIOUS
<1>1. DeliveryInv' /\ TypeInv' /\ TypeInv
  BY NextDelivery DEF TwiceInv, DeliveryInv, SafeInv
<1>2. OneTask' /\ \A t \in Texts : Counted(t)'
  BY <1>1, StepShape, FormCounts, TakenCounts, CommandCounts, GmailCounts, ElseCounts
<1>3. QED
  BY <1>1, <1>2 DEF TwiceInv

\* What may still be asked of Gmail is counted before it is asked: no failure,
\* no death of a worker and no overlap of workers mails a text, or stores it,
\* more often than its lost answers and the runs of the command account for.
THEOREM NothingIsSentTwice == Spec => []NothingTwice
<1>1. TwiceInv => NothingTwice
  <2> SUFFICES ASSUME TwiceInv, NEW t \in Texts
               PROVE  mailed[t].times <= 1 + Excused(t) /\ CopiesOf(t) <= 1 + Excused(t)
    BY DEF NothingTwice
  <2>1. TypeInv /\ Counted(t)
    BY DEF TwiceInv, DeliveryInv, SafeInv
  <2>2. PICK c \in Nat, x \in Nat, f \in {0, 1}, m \in {0, 1} :
          c = CopiesOf(t) /\ x = Excused(t) /\ f = FormChance(t) /\ m = CommandChance(t)
    BY <2>1, CountsTyped
  <2>3. mailed[t].times \in Nat
    BY <2>1, CountsTyped
  <2>4. mailed[t].times + (f + m) <= 1 + x /\ c + (f + m) <= 1 + x
    BY <2>1, <2>2 DEF Counted, Chances
  <2>5. mailed[t].times <= 1 + x /\ c <= 1 + x
    BY <2>3, <2>4, SMT
  <2>6. QED
    BY <2>2, <2>5
<1>2. QED
  BY <1>1, InitTwice, NextTwice, PTL DEF Spec

-----------------------------------------------------------------------------
(* What tasks, jobs and outbox rows refer to.                              *)

\* Rows are never reordered, and keep their draft and their text.
RowsGrow ==
    /\ Len(rows) \in Nat /\ Len(rows') \in Nat /\ Len(rows) <= Len(rows')
    /\ \A k \in 1 .. Len(rows) : /\ rows'[k].draft = rows[k].draft
                                 /\ rows'[k].text = rows[k].text

LEMMA RowsTyped ==
    ASSUME TypeInv
    PROVE  /\ rows \in Seq(MessageRow) /\ Len(rows) \in Nat
           /\ \A k \in 1 .. Len(rows) : /\ rows[k] \in MessageRow
                                        /\ rows[k].draft \in Nat
                                        /\ rows[k].text \in Texts \cup {NoText}
<1>1. rows \in Seq(MessageRow) /\ Len(rows) \in Nat
  BY DEF TypeInv, TypeOK
<1>2. \A k \in 1 .. Len(rows) : rows[k] \in MessageRow
  BY <1>1, SMT
<1>3. \A row \in MessageRow : row.draft \in Nat /\ row.text \in Texts \cup {NoText}
  BY SMT DEF MessageRow
<1>4. QED
  BY <1>1, <1>2, <1>3

LEMMA RowsSame == TypeInv /\ UNCHANGED rows => RowsGrow
BY RowsTyped, SMT DEF RowsGrow

\* A row is removed, and no other row changes.
LEMMA RowGone ==
    ASSUME TypeInv, NEW k, rows' = [rows EXCEPT ![k].there = FALSE]
    PROVE  RowsGrow /\ \A j \in 1 .. Len(rows) : j # k => rows'[j] = rows[j]
<1>1. \A row \in MessageRow : /\ [row EXCEPT !.there = FALSE].draft = row.draft
                              /\ [row EXCEPT !.there = FALSE].text = row.text
  BY SMT DEF MessageRow
<1>2. rows' = [rows EXCEPT ![k] = [rows[k] EXCEPT !.there = FALSE]]
  OBVIOUS
<1>3. Len(rows') = Len(rows) /\ DOMAIN rows = 1 .. Len(rows)
  BY <1>2, RowsTyped, SMT
<1>4. \A j \in 1 .. Len(rows) :
         rows'[j] = IF j = k THEN [rows[k] EXCEPT !.there = FALSE] ELSE rows[j]
  BY <1>2, <1>3
<1>5. QED
  BY <1>1, <1>3, <1>4, RowsTyped, SMT DEF RowsGrow

LEMMA RowAppended ==
    ASSUME TypeInv, NEW row \in MessageRow, rows' = Append(rows, row)
    PROVE  RowsGrow /\ \A j \in 1 .. Len(rows) : rows'[j] = rows[j]
<1>1. Len(rows') = Len(rows) + 1 /\ \A j \in 1 .. Len(rows) : rows'[j] = rows[j]
  BY RowsTyped, AppendProperties
<1>2. QED
  BY <1>1, RowsTyped, SMT DEF RowsGrow

LEMMA DraftRowTyped ==
    ASSUME NEW d \in Nat, NEW t \in Texts, NEW b \in BOOLEAN
    PROVE  DraftRow(d, t, b) \in MessageRow
BY SMT DEF DraftRow, MessageRow

LEMMA DraftStored ==
    ASSUME TypeInv, NEW d \in Nat, NEW t \in Texts, StoreDraft(d, t)
    PROVE  RowsGrow /\ \A j \in 1 .. Len(rows) : rows'[j].there = rows[j].there
<1>1. CASE RowOf(d, t) = {}
  <2>1. rows' = Append(rows, DraftRow(d, t, TRUE)) /\ DraftRow(d, t, TRUE) \in MessageRow
    BY <1>1, DraftRowTyped DEF StoreDraft
  <2>2. QED
    BY <2>1, RowAppended
<1>2. CASE RowOf(d, t) # {}
  <2>1. \A row \in MessageRow : /\ [row EXCEPT !.known = TRUE].draft = row.draft
                                /\ [row EXCEPT !.known = TRUE].text = row.text
                                /\ [row EXCEPT !.known = TRUE].there = row.there
    BY SMT DEF MessageRow
  <2>2. rows' = [k \in 1 .. Len(rows) |->
                   IF k \in RowOf(d, t) THEN [rows[k] EXCEPT !.known = TRUE] ELSE rows[k]]
    BY <1>2 DEF StoreDraft
  <2>3. /\ \A k \in 1 .. Len(rows) :
             rows'[k] = IF k \in RowOf(d, t) THEN [rows[k] EXCEPT !.known = TRUE]
                                             ELSE rows[k]
        /\ DOMAIN rows' = 1 .. Len(rows)
    BY <2>2
  <2>4. Len(rows') = Len(rows)
    BY <2>3, RowsTyped, LenProperties, SMT
  <2>5. \A k \in 1 .. Len(rows) : /\ rows'[k].draft = rows[k].draft
                                  /\ rows'[k].text = rows[k].text
                                  /\ rows'[k].there = rows[k].there
    BY <2>1, <2>3, RowsTyped
  <2>6. QED
    BY <2>4, <2>5, RowsTyped, SMT DEF RowsGrow
<1>3. QED
  BY <1>1, <1>2

\* What a step does to the rows: nothing, or a row more, or one of three things.
LEMMA NextRows ==
    ASSUME TypeInv, [Next]_vars
    PROVE  /\ RowsGrow
           /\ \A o \in 1 .. Len(rows) :
                \/ rows'[o].there = rows[o].there
                \/ \E p \in Processes : NotFound(p) /\ Kind(p) = "trash" /\ job[p].task.key = o
                \/ SyncRemoves(o)
                \/ DeletedElsewhere(o) /\ ~IsDraftRow(o)
<1> DEFINE Shape == /\ RowsGrow
                    /\ \A o \in 1 .. Len(rows) :
                         \/ rows'[o].there = rows[o].there
                         \/ \E p \in Processes : /\ NotFound(p) /\ Kind(p) = "trash"
                                                 /\ job[p].task.key = o
                         \/ SyncRemoves(o)
                         \/ DeletedElsewhere(o) /\ ~IsDraftRow(o)
<1> USE DEF gmail, history
<1>1. ASSUME UNCHANGED rows PROVE Shape
  BY <1>1, RowsSame
<1>2. ASSUME NEW k, SendNew \/ SaveNewDraft \/ SendDraft(k) \/ ReplyOrForward(k)
                    \/ SaveDraft(k) \/ TrashDraft(k)
      PROVE  Shape
  BY <1>1, <1>2 DEF SendNew, SaveNewDraft, SendDraft, ReplyOrForward, SaveDraft, TrashDraft,
                    Submit
<1>3. ASSUME NEW k \in 1 .. Len(rows), SyncRemoves(k) PROVE Shape
  BY <1>3, RowGone, ZenonT(60) DEF SyncRemoves
<1>4. ASSUME NEW k \in 1 .. Len(rows), DeletedElsewhere(k) PROVE Shape
  <2>1. CASE IsDraftRow(k)
    BY <1>1, <1>4, <2>1 DEF DeletedElsewhere
  <2>2. CASE ~IsDraftRow(k)
    BY <1>4, <2>2, RowGone DEF DeletedElsewhere
  <2>3. QED
    BY <2>1, <2>2
<1>5. ASSUME NEW d \in 1 .. Len(drafts), SyncDownloads(d) PROVE Shape
  <2>0. drafts \in Seq(Texts \cup {Deleted}) /\ drafts[d] # Deleted
    BY <1>5 DEF SyncDownloads, Held, TypeInv, TypeOK
  <2>1. drafts[d] \in Texts /\ d \in Nat
    BY <2>0, SMT
  <2>2. DraftRow(d, drafts[d], FALSE) \in MessageRow
    BY <2>1, DraftRowTyped
  <2>3. QED
    BY <1>5, <2>2, RowAppended DEF SyncDownloads
<1>6. ASSUME NEW w \in Workers, Start(w) PROVE Shape
  BY <1>1, <1>6 DEF Start
<1>7. ASSUME NEW t \in Texts, Resend(t) PROVE Shape
  BY <1>1, <1>7 DEF Resend
<1>8. ASSUME NEW p \in Processes, Step(p) PROVE Shape
  <2>1. CASE Answered(p) \/ AnswerLost(p) \/ CallFails(p) \/ DeleteRow(p) \/ Crash(p)
    BY <1>1, <2>1 DEF Answered, AnswerLost, CallFails, DeleteRow, Crash
  <2>2. CASE NotFound(p)
    <3>1. CASE Kind(p) = "trash"
      BY <2>2, <3>1, RowGone, ZenonT(60) DEF NotFound
    <3>2. CASE Kind(p) # "trash"
      BY <1>1, <2>2, <3>2 DEF NotFound
    <3>3. QED
      BY <3>1, <3>2
  <2>3. CASE Store(p)
    <3>1. CASE UNCHANGED rows
      BY <1>1, <3>1
    <3>2. CASE StoreDraft(job[p].draft, Text(p))
      <4>1. job[p].step = "store" /\ job[p] \in Job
        BY <2>3 DEF Store, TypeInv, TypeOK
      <4>2. Handling(p) /\ job[p].draft \in Nat
        BY <4>1, SMT DEF Handling, HasText, Job, TypeInv, JobsKnown
      <4>3. Text(p) \in Texts
        BY <4>2, TextsKnown
      <4>4. QED
        BY <3>2, <4>2, <4>3, DraftStored
    <3>3. QED
      BY <2>3, <3>1, <3>2 DEF Store
  <2>4. QED
    BY <1>8, <2>1, <2>2, <2>3 DEF Step
<1>9. CASE UNCHANGED vars
  BY <1>1, <1>9 DEF vars
<1>10. CASE Next
  BY <1>2, <1>3, <1>4, <1>5, <1>6, <1>7, <1>8, <1>10 DEF Next
<1>11. QED
  BY <1>9, <1>10

\* Tasks are about rows that were there, those that change a draft about the
\* row of one; a text that is to be mailed has no task that makes a draft of it.
ChangesDraft(task) == task.kind \in {"update", "trash"}
Filed(task) ==
    /\ task.key \in 0 .. Len(rows)
    /\ ChangesDraft(task) => IsDraftRow(task.key)
    /\ Saves(task) => wanted[task.text] = "draft"
TasksFiled == \A i \in 1 .. Len(queue) : Filed(queue[i])
JobsFiled ==
    \A p \in Processes : job[p].step # "idle" =>
        /\ Filed(job[p].task)
        /\ ChangesDraft(job[p].task) =>
              job[p].draft \in {NoDraft, rows[job[p].task.key].draft}
OriginsFiled ==
    \A t \in Texts : outbox[t] # NoRow =>
        /\ outbox[t].origin \in 0 .. Len(rows)
        /\ wanted[t] = "forward" => outbox[t].origin # NoKey

\* The command has only texts that are counted as sent again.
CommandExcused ==
    job[Command].step # "idle" => Kind(Command) = "send" /\ resent[Text(Command)] > 0
FreshSubmitted == fresh \subseteq 1 .. Len(wanted)
WholeUntilMailed == \A t \in Texts : mailed[t].times = 0 => mailed[t].complete
FiledInv ==
    /\ TasksFiled /\ JobsFiled /\ OriginsFiled
    /\ CommandExcused /\ FreshSubmitted /\ WholeUntilMailed

LEMMA InitFiled == Init => FiledInv
<1> SUFFICES ASSUME Init PROVE FiledInv
  OBVIOUS
<1>1. Len(queue) = 0 /\ \A p \in Processes : job[p].step = "idle"
  BY IdleIsJob, SMT DEF Init
<1>2. Workers \subseteq Processes /\ Command \in Processes
  BY DEF Processes
<1>3. \A t \in Texts : outbox[t] = NoRow /\ mailed[t].complete
  BY DEF Init
<1>4. fresh = {}
  BY DEF Init
<1>5. TasksFiled
  BY <1>1, SMT DEF TasksFiled
<1>6. QED
  BY <1>1, <1>2, <1>3, <1>4, <1>5
     DEF FiledInv, JobsFiled, OriginsFiled, CommandExcused,
         FreshSubmitted, WholeUntilMailed

WantedGrows ==
    /\ Len(wanted) \in Nat /\ Len(wanted') \in Nat /\ Len(wanted) <= Len(wanted')
    /\ \A t \in 1 .. Len(wanted) : wanted'[t] = wanted[t]

LEMMA WantedSame == TypeInv /\ UNCHANGED wanted => WantedGrows
BY OrderTyped, SMT DEF WantedGrows

LEMMA SubmitGrows ==
    ASSUME TypeInv, NEW want, NEW k, NEW tasks,
           want \in {"mail", "forward", "draft"}, Submit(want, k, tasks)
    PROVE  WantedGrows /\ wanted'[NextText] = want
<1>1. wanted' = Append(wanted, want) /\ wanted \in Seq({"mail", "forward", "draft"})
  BY DEF Submit, TypeInv, TypeOK
<1>2. /\ Len(wanted') = Len(wanted) + 1 /\ wanted'[Len(wanted) + 1] = want
      /\ \A t \in 1 .. Len(wanted) : wanted'[t] = wanted[t]
  BY <1>1, AppendProperties
<1>3. QED
  BY <1>2, OrderTyped, SMT DEF WantedGrows, NextText

\* What is filed stays filed.
LEMMA FiledStays ==
    ASSUME RowsGrow, WantedGrows, NEW task, Known(task), Filed(task)
    PROVE  Filed(task)' /\ (ChangesDraft(task) => rows'[task.key].draft = rows[task.key].draft)
<1>1. task.key \in 0 .. Len(rows')
  BY SMT DEF RowsGrow, Filed
<1>2. ASSUME ChangesDraft(task)
      PROVE  IsDraftRow(task.key)' /\ rows'[task.key].draft = rows[task.key].draft
  <2>1. task.key \in 1 .. Len(rows) /\ rows[task.key].draft # NoDraft
    BY <1>2 DEF Filed, IsDraftRow, Key
  <2>2. task.key \in 1 .. Len(rows')
    BY <2>1, SMT DEF RowsGrow
  <2>3. QED
    BY <2>1, <2>2 DEF RowsGrow, IsDraftRow, Key
<1>3. ASSUME Saves(task) PROVE wanted'[task.text] = "draft"
  <2>1. task.text \in 1 .. Len(wanted)
    BY <1>3 DEF Known, Saves
  <2>2. QED
    BY <1>3, <2>1 DEF WantedGrows, Filed
<1>4. QED
  BY <1>1, <1>2, <1>3 DEF Filed, ChangesDraft, Saves

\* Every job in hand was in hand before, or is a task that was filed and that is
\* begun now.
LEMMA JobsStayFiled ==
    ASSUME TypeInv, FiledInv, RowsGrow, WantedGrows,
           \A p \in Processes : job'[p].step # "idle" =>
              \/ /\ job[p].step # "idle" /\ job'[p].task = job[p].task
                 /\ ChangesDraft(job[p].task) => job'[p].draft = job[p].draft
              \/ /\ Known(job'[p].task) /\ Filed(job'[p].task)
                 /\ job'[p].draft = DraftIdOf(job'[p].task)
    PROVE  JobsFiled'
<1> SUFFICES ASSUME NEW p \in Processes, job'[p].step # "idle"
             PROVE  /\ Filed(job[p].task)'
                    /\ ChangesDraft(job'[p].task) =>
                          job'[p].draft \in {NoDraft, rows'[job'[p].task.key].draft}
  BY DEF JobsFiled, ChangesDraft
<1>1. PICK c : c = job'[p].task
  OBVIOUS
<1>2. CASE /\ job[p].step # "idle" /\ c = job[p].task
           /\ ChangesDraft(c) => job'[p].draft = job[p].draft
  <2>1. Known(c) /\ Filed(c)
    BY <1>2 DEF TypeInv, JobsKnown, FiledInv, JobsFiled
  <2>2. ChangesDraft(c) => job[p].draft \in {NoDraft, rows[c.key].draft}
    BY <1>2 DEF FiledInv, JobsFiled
  <2>3. Filed(c)' /\ (ChangesDraft(c) => rows'[c.key].draft = rows[c.key].draft)
    BY <2>1, FiledStays
  <2>4. Filed(job[p].task)'
    BY <1>1, <2>3 DEF Filed
  <2>5. QED
    BY <1>1, <1>2, <2>2, <2>3, <2>4
<1>3. CASE Known(c) /\ Filed(c) /\ job'[p].draft = DraftIdOf(c)
  <2>1. Filed(c)' /\ (ChangesDraft(c) => rows'[c.key].draft = rows[c.key].draft)
    BY <1>3, FiledStays
  <2>2. Filed(job[p].task)'
    BY <1>1, <2>1 DEF Filed
  <2>3. QED
    BY <1>1, <1>3, <2>1, <2>2 DEF DraftIdOf
<1>4. QED
  BY <1>1, <1>2, <1>3

LEMMA JobsGoOnFiled ==
    ASSUME TypeInv, FiledInv, RowsGrow, WantedGrows, JobsGoOn
    PROVE  JobsFiled'
<1>1. \A p \in Processes : ChangesDraft(job[p].task) => Kind(p) # "create"
  BY DEF ChangesDraft, Kind
<1>2. \A p \in Processes : job'[p].step # "idle" =>
        /\ job[p].step # "idle" /\ job'[p].task = job[p].task
        /\ ChangesDraft(job[p].task) => job'[p].draft = job[p].draft
  BY <1>1 DEF JobsGoOn
<1>3. QED
  BY <1>2, JobsStayFiled

\* Each row of the outbox is as it was, or gone, or has one attachment more.
LEMMA OriginsStayFiled ==
    ASSUME FiledInv, RowsGrow, WantedGrows, Numbered,
           \A t \in Texts : outbox'[t] # NoRow =>
              outbox[t] # NoRow /\ outbox'[t].origin = outbox[t].origin
    PROVE  OriginsFiled'
<1> SUFFICES ASSUME NEW t \in Texts, outbox'[t] # NoRow
             PROVE  /\ outbox'[t].origin \in 0 .. Len(rows')
                    /\ wanted'[t] = "forward" => outbox'[t].origin # NoKey
  BY DEF OriginsFiled
<1>1. /\ outbox[t] # NoRow /\ outbox'[t].origin = outbox[t].origin
      /\ outbox[t].origin \in 0 .. Len(rows)
      /\ wanted[t] = "forward" => outbox[t].origin # NoKey
  BY DEF FiledInv, OriginsFiled
<1>2. t \in 1 .. Len(wanted)
  BY <1>1 DEF Numbered, KeptTexts
<1>3. outbox'[t].origin \in 0 .. Len(rows')
  BY <1>1, SMT DEF RowsGrow
<1>4. QED
  BY <1>1, <1>2, <1>3 DEF WantedGrows

\* What a process does to the outbox when it begins with a task.
LEMMA BeginOutbox ==
    ASSUME TypeInv, NEW p \in Processes, NEW task, Known(task), Loads(task),
           Begin(p, task), NEW t \in Texts
    PROVE  /\ outbox'[t] # NoRow <=> outbox[t] # NoRow
           /\ outbox[t] # NoRow => outbox'[t].origin = outbox[t].origin
           /\ t # task.text \/ ~HasText(task) \/ wanted[t] # "forward" => outbox'[t] = outbox[t]
           /\ (task.kind = "send" /\ t = task.text /\ wanted[t] = "forward"
               /\ Stored(outbox[t].origin)) => outbox'[t].copied = outbox[t].copied + 1
<1>0. outbox \in [Texts -> OutboxRow \cup {NoRow}]
  BY DEF TypeInv, TypeOK
<1>1. CASE UNCHANGED outbox
           /\ ~(task.kind = "send" /\ wanted[task.text] = "forward"
                /\ Stored(outbox[task.text].origin))
  BY <1>1
<1>2. CASE /\ task.kind = "send" /\ wanted[task.text] = "forward"
           /\ outbox' = [outbox EXCEPT ![task.text].copied = @ + 1]
  <2>1. task.text \in Texts /\ outbox[task.text] \in OutboxRow
    BY <1>0, <1>2, TypedRows DEF Loads, Known
  <2>2. \A row \in OutboxRow : /\ [row EXCEPT !.copied = @ + 1] \in OutboxRow
                               /\ [row EXCEPT !.copied = @ + 1].copied = row.copied + 1
                               /\ [row EXCEPT !.copied = @ + 1].origin = row.origin
    BY SMT DEF OutboxRow
  <2>3. outbox'[t] = IF t = task.text THEN [outbox[t] EXCEPT !.copied = @ + 1]
                                      ELSE outbox[t]
    BY <1>0, <1>2, <2>1
  <2>4. CASE t = task.text
    <3>1. PICK row \in OutboxRow : row = outbox[t]
      BY <2>1, <2>4
    <3>2. outbox'[t] = [row EXCEPT !.copied = @ + 1]
      BY <2>3, <2>4, <3>1
    <3>3. QED
      BY <1>2, <2>2, <2>4, <3>1, <3>2, NoRowIsNoRow DEF HasText
  <2>5. CASE t # task.text
    BY <2>3, <2>5
  <2>6. QED
    BY <2>4, <2>5
<1>3. QED
  BY <1>1, <1>2 DEF Begin, CopyAttachments

LEMMA FormFiled ==
    ASSUME TypeInv, Numbered, FiledInv, FormSent
    PROVE  FiledInv' /\ RowsGrow /\ WantedGrows
<1>1. PICK want \in {"mail", "forward", "draft"}, key \in Nat, tasks \in Seq(Task) :
         Submit(want, key, tasks) /\ FormTasks(want, key, tasks)
  BY DEF FormSent
<1>2. UNCHANGED <<rows, mailed, job, resent>>
  BY <1>1 DEF FormSent, Submit
<1>3. /\ RowsGrow /\ WantedGrows /\ wanted'[NextText] = want
      /\ NextText = Len(wanted) + 1 /\ NextText \in Texts /\ Len(wanted') = Len(wanted) + 1
  <2>1. NextText = Len(wanted) + 1 /\ NextText \in Texts /\ wanted' = Append(wanted, want)
    BY <1>1 DEF Submit, NextText
  <2>2. Len(wanted') = Len(wanted) + 1
    BY <2>1, AppendProperties DEF TypeInv, TypeOK
  <2>3. QED
    BY <1>1, <1>2, <2>1, <2>2, RowsSame, SubmitGrows
<1>4. TasksFiled'
  <2>1. ASSUME NEW i \in 1 .. Len(queue') PROVE Filed(queue[i])'
    <3>1. /\ i \in 1 .. Len(queue) => queue'[i] = queue[i]
          /\ i \notin 1 .. Len(queue) =>
                i - Len(queue) \in 1 .. Len(tasks) /\ queue'[i] = tasks[i - Len(queue)]
      <4>1. \A j \in 1 .. Len(tasks) :
               /\ tasks[j].kind # "none"
               /\ tasks[j].kind # "trash" => tasks[j].text = NextText
               /\ tasks[j].kind \in {"update", "trash"} => tasks[j].key # NoKey
        BY <1>1 DEF FormTasks
      <4>2. Submit(want, key, tasks)
        BY <1>1
      <4>3. /\ \A j \in 1 .. Len(queue) : queue'[j] = queue[j]
            /\ \A j \in 1 .. Len(queue') : j > Len(queue) =>
                  j - Len(queue) \in 1 .. Len(tasks) /\ queue'[j] = tasks[j - Len(queue)]
        BY ONLY TypeInv, <4>1, <4>2, SubmitTyped, ZenonT(60)
      <4>4. i \notin 1 .. Len(queue) => i > Len(queue)
        BY OrderTyped, SMT
      <4>5. QED
        BY <4>3, <4>4
    <3>2. PICK c : c = queue'[i]
      OBVIOUS
    <3>3. CASE i \in 1 .. Len(queue)
      <4>1. Known(c) /\ Filed(c)
        BY <3>1, <3>2, <3>3 DEF TypeInv, TasksKnown, FiledInv, TasksFiled
      <4>2. Filed(c)'
        BY <1>3, <4>1, FiledStays
      <4>3. QED
        BY <3>2, <4>2 DEF Filed
    <3>4. CASE i \notin 1 .. Len(queue)
      <4>1. /\ c.key \in 0 .. Len(rows)
            /\ ChangesDraft(c) => IsDraftRow(c.key)
            /\ Saves(c) => want = "draft" /\ c.text = NextText
        BY <1>1, <3>1, <3>2, <3>4 DEF FormTasks, ChangesDraft, Saves
      <4>2. Filed(c)'
        BY <1>2, <1>3, <4>1 DEF Filed, ChangesDraft, Saves, IsDraftRow, Key
      <4>3. QED
        BY <3>2, <4>2 DEF Filed
    <3>5. QED
      BY <3>3, <3>4
  <2>2. QED
    BY <2>1 DEF TasksFiled
<1>5. JobsFiled'
  BY <1>2, <1>3, JobsStayFiled
<1>6. OriginsFiled'
  <2>1. ASSUME NEW t \in Texts, outbox'[t] # NoRow
        PROVE  /\ outbox'[t].origin \in 0 .. Len(rows')
               /\ wanted'[t] = "forward" => outbox'[t].origin # NoKey
    <3>1. outbox' = [outbox EXCEPT ![NextText] = [copied |-> 0, origin |-> key]]
      BY <1>1 DEF Submit, NextText
    <3>2. outbox \in [Texts -> OutboxRow \cup {NoRow}]
      BY DEF TypeInv, TypeOK
    <3>3. CASE t = NextText
      <4>1. outbox'[t].origin = key
        BY <3>1, <3>2, <3>3
      <4>2. QED
        BY <1>1, <1>2, <1>3, <3>3, <4>1 DEF FormTasks
    <3>4. CASE t # NextText
      <4>1. outbox'[t] = outbox[t]
        BY <3>1, <3>2, <3>4
      <4>2. t \in 1 .. Len(wanted)
        BY <2>1, <4>1 DEF Numbered, KeptTexts
      <4>3. wanted'[t] = wanted[t]
        BY <1>3, <4>2 DEF WantedGrows
      <4>4. QED
        BY <1>2, <2>1, <4>1, <4>3 DEF FiledInv, OriginsFiled
    <3>5. QED
      BY <3>3, <3>4
  <2>2. QED
    BY <2>1 DEF OriginsFiled
<1>7. CommandExcused' /\ WholeUntilMailed'
  BY <1>2 DEF FiledInv, CommandExcused, WholeUntilMailed, Kind, Text
<1>8. FreshSubmitted'
  <2>1. fresh' \subseteq fresh \cup {NextText}
    BY <1>1 DEF Submit, NextText
  <2>2. 1 .. Len(wanted) \cup {NextText} \subseteq 1 .. Len(wanted')
    BY <1>3, OrderTyped, SMT
  <2>3. QED
    BY <2>1, <2>2 DEF FiledInv, FreshSubmitted
<1>9. QED
  BY <1>3, <1>4, <1>5, <1>6, <1>7, <1>8 DEF FiledInv

LEMMA TailOf ==
    ASSUME TypeInv, queue # <<>>, queue' = Tail(queue)
    PROVE  /\ \A i \in 1 .. Len(queue') : i + 1 \in 1 .. Len(queue) /\ queue'[i] = queue[i + 1]
           /\ Head(queue) = queue[1] /\ 1 \in 1 .. Len(queue)
<1>1. queue \in Seq(Task)
  BY OrderTyped
<1>2. QED
  BY <1>1, SMT

LEMMA TakenFiled ==
    ASSUME TypeInv, Numbered, FiledInv, RowsGrow, TaskTaken
    PROVE  FiledInv' /\ WantedGrows
<1>0. /\ WantedGrows
      /\ UNCHANGED <<mailed, wanted, resent, fresh>>
      /\ Workers \subseteq Processes /\ Command \notin Workers
  BY WantedSame DEF TaskTaken, Processes
<1>1. /\ \A i \in 1 .. Len(queue') : i + 1 \in 1 .. Len(queue) /\ queue'[i] = queue[i + 1]
      /\ Head(queue) = queue[1] /\ 1 \in 1 .. Len(queue)
  BY TailOf DEF TaskTaken
<1>2. Known(queue[1]) /\ Filed(queue[1])
  BY <1>1 DEF TypeInv, TasksKnown, FiledInv, TasksFiled
<1>3. TasksFiled'
  <2>1. ASSUME NEW i \in 1 .. Len(queue') PROVE Filed(queue[i])'
    <3>1. PICK c : c = queue'[i]
      OBVIOUS
    <3>2. Known(c) /\ Filed(c)
      BY <1>1, <3>1 DEF TypeInv, TasksKnown, FiledInv, TasksFiled
    <3>3. Filed(c)'
      BY <1>0, <3>2, FiledStays
    <3>4. QED
      BY <3>1, <3>3 DEF Filed
  <2>2. QED
    BY <2>1 DEF TasksFiled
<1>4. CASE UNCHANGED <<job, outbox, raced>>
  <2>1. JobsFiled' /\ OriginsFiled'
    BY <1>0, <1>4, JobsStayFiled, OriginsStayFiled
  <2>2. QED
    BY <1>0, <1>3, <1>4, <2>1
       DEF FiledInv, CommandExcused, FreshSubmitted, WholeUntilMailed, Kind, Text
<1>5. CASE \E w \in Workers : /\ job[w].step = "idle"
                              /\ Begin(w, Head(queue)) /\ Loads(Head(queue))
  <2>1. PICK w \in Workers : Begin(w, Head(queue)) /\ Loads(Head(queue))
    BY <1>5
  <2>2. w \in Workers /\ w \in Processes /\ w # Command /\ Command \in Processes
    BY <1>0 DEF Processes
  <2>3. /\ \A q \in Processes : q # w => job'[q] = job[q]
        /\ job'[w].task = queue[1]
    BY <1>1, <1>2, <2>1, <2>2, BeginTyped
  <2>4. job'[w].draft = DraftIdOf(queue[1])
    BY <1>1, <2>1, <2>2 DEF Begin, Become, TypeInv, TypeOK
  <2>5. JobsFiled'
    BY <1>0, <1>2, <2>3, <2>4, JobsStayFiled
  <2>6. OriginsFiled'
    BY <1>0, <1>1, <1>2, <2>1, <2>2, BeginOutbox, OriginsStayFiled
  <2>7. CommandExcused'
    BY <1>0, <2>2, <2>3 DEF FiledInv, CommandExcused, Kind, Text
  <2>8. QED
    BY <1>0, <1>3, <2>5, <2>6, <2>7 DEF FiledInv, FreshSubmitted, WholeUntilMailed
<1>6. QED
  BY <1>0, <1>4, <1>5 DEF TaskTaken

LEMMA CommandFiled ==
    ASSUME TypeInv, Numbered, FiledInv, RowsGrow, CommandRun
    PROVE  FiledInv' /\ WantedGrows
<1>0. /\ WantedGrows
      /\ UNCHANGED <<queue, mailed, wanted, fresh>>
      /\ Command \in Processes /\ Workers \subseteq Processes /\ Command \notin Workers
  BY WantedSame DEF CommandRun, Processes
<1>1. PICK u \in Texts : /\ Known(Send(u, NoKey)) /\ Loads(Send(u, NoKey))
                         /\ Begin(Command, Send(u, NoKey))
                         /\ resent' = [resent EXCEPT ![u] = @ + 1]
  BY DEF CommandRun
<1>2. PICK c : c = Send(u, NoKey) /\ c.kind = "send" /\ c.key = NoKey /\ c.text = u
  <2>1. /\ Send(u, NoKey).kind = "send" /\ Send(u, NoKey).key = NoKey
        /\ Send(u, NoKey).text = u
    BY SMT DEF Send
  <2>2. QED
    BY <2>1
<1>3. Known(c) /\ Loads(c) /\ Begin(Command, c) /\ Filed(c)
  <2>1. 0 \in 0 .. Len(rows)
    BY RowsTyped, SMT
  <2>2. QED
    BY <1>1, <1>2, <2>1 DEF Filed, ChangesDraft, Saves
<1>4. /\ \A q \in Processes : q # Command => job'[q] = job[q]
      /\ job'[Command].task = c
  BY <1>0, <1>3, BeginTyped
<1>5. job'[Command].draft = DraftIdOf(c)
  BY <1>0, <1>3 DEF Begin, Become, TypeInv, TypeOK
<1>6. JobsFiled'
  BY <1>0, <1>3, <1>4, <1>5, JobsStayFiled
<1>7. OriginsFiled'
  BY <1>0, <1>3, BeginOutbox, OriginsStayFiled
<1>8. CommandExcused'
  <2>1. resent'[u] > 0
    <3>1. resent \in [Texts -> Nat]
      BY DEF TypeInv, TypeOK
    <3>2. QED
      BY <1>1, <3>1, SMT
  <2>2. QED
    BY <1>2, <1>4, <2>1 DEF CommandExcused, Kind, Text
<1>9. TasksFiled'
  <2>1. ASSUME NEW i \in 1 .. Len(queue) PROVE Filed(queue[i])'
    <3>1. PICK a : a = queue[i]
      OBVIOUS
    <3>2. Known(a) /\ Filed(a)
      BY <3>1 DEF TypeInv, TasksKnown, FiledInv, TasksFiled
    <3>3. Filed(a)'
      BY <1>0, <3>2, FiledStays
    <3>4. QED
      BY <1>0, <3>1, <3>3 DEF Filed
  <2>2. QED
    BY <1>0, <2>1 DEF TasksFiled
<1>10. QED
  BY <1>0, <1>6, <1>7, <1>8, <1>9 DEF FiledInv, FreshSubmitted, WholeUntilMailed

\* Who goes on with a job has nothing that was not excused, or in other hands.
LEMMA GoOnExcused ==
    ASSUME FiledInv, JobsGoOn, UNCHANGED <<resent>>
    PROVE  CommandExcused'
<1>1. Command \in Processes /\ Workers \subseteq Processes
  BY DEF Processes
<1>2. \A p \in Processes : job'[p].step # "idle" =>
         job[p].step # "idle" /\ job'[p].task = job[p].task
  BY DEF JobsGoOn
<1>3. QED
  BY <1>1, <1>2 DEF FiledInv, CommandExcused, Kind, Text

LEMMA GmailFiled ==
    ASSUME TypeInv, Numbered, FiledInv, RowsGrow, GmailCalled
    PROVE  FiledInv' /\ WantedGrows
<1>0. WantedGrows /\ JobsGoOn /\ UNCHANGED <<queue, outbox, wanted, fresh, resent>>
  BY WantedSame DEF GmailCalled
<1>1. JobsFiled' /\ OriginsFiled' /\ CommandExcused'
  BY <1>0, JobsGoOnFiled, OriginsStayFiled, GoOnExcused
<1>2. TasksFiled'
  <2>1. ASSUME NEW i \in 1 .. Len(queue) PROVE Filed(queue[i])'
    <3>1. PICK a : a = queue[i]
      OBVIOUS
    <3>2. Known(a) /\ Filed(a)
      BY <3>1 DEF TypeInv, TasksKnown, FiledInv, TasksFiled
    <3>3. Filed(a)'
      BY <1>0, <3>2, FiledStays
    <3>4. QED
      BY <1>0, <3>1, <3>3 DEF Filed
  <2>2. QED
    BY <1>0, <2>1 DEF TasksFiled
<1>3. WholeUntilMailed'
  <2> SUFFICES ASSUME NEW t \in Texts, mailed'[t].times = 0 PROVE mailed'[t].complete
    BY DEF WholeUntilMailed
  <2>1. PICK p \in Processes : job[p].step = "call" /\ Carried(p)
    BY DEF GmailCalled
  <2>2. mailed[t].times \in Nat /\ mailed \in [Texts -> [times : Nat, complete : BOOLEAN]]
    BY CountsTyped DEF TypeInv, TypeOK
  <2>3. CASE mailed'[t] = mailed[t]
    BY <2>3 DEF FiledInv, WholeUntilMailed
  <2>4. CASE Mail(t)
    <3>1. mailed'[t].times = mailed[t].times + 1
      BY <2>2, <2>4 DEF Mail
    <3>2. QED
      BY <2>2, <3>1, SMT
  <2>5. QED
    BY <2>1, <2>2, <2>3, <2>4 DEF Carried, Mail, NewDraft, ReplaceDraft, DeleteDraft
<1>4. QED
  BY <1>0, <1>1, <1>2, <1>3 DEF FiledInv, FreshSubmitted

LEMMA ElseFiled ==
    ASSUME TypeInv, Numbered, FiledInv, RowsGrow, AllElse
    PROVE  FiledInv' /\ WantedGrows
<1>0. WantedGrows /\ JobsGoOn /\ UNCHANGED <<mailed, wanted, resent>>
  BY WantedSame DEF AllElse
<1>1. JobsFiled' /\ CommandExcused'
  BY <1>0, JobsGoOnFiled, GoOnExcused
<1>2. OriginsFiled'
  <2>1. outbox \in [Texts -> OutboxRow \cup {NoRow}]
    BY DEF TypeInv, TypeOK
  <2>2. \A t \in Texts : outbox'[t] # NoRow => outbox'[t] = outbox[t]
    BY <2>1 DEF AllElse
  <2>3. QED
    BY <1>0, <2>2, OriginsStayFiled
<1>3. TasksFiled'
  <2>1. ASSUME NEW i \in 1 .. Len(queue') PROVE Filed(queue[i])'
    <3>1. PICK a : a = queue'[i]
      OBVIOUS
    <3>2. CASE i \in 1 .. Len(queue) /\ a = queue[i]
      <4>1. Known(a) /\ Filed(a)
        BY <3>2 DEF TypeInv, TasksKnown, FiledInv, TasksFiled
      <4>2. QED
        BY <1>0, <3>1, <4>1, FiledStays DEF Filed
    <3>3. CASE ~(i \in 1 .. Len(queue) /\ a = queue[i])
      <4>1. PICK task \in Task :
              /\ task.kind = "trash" /\ queue' = Append(queue, task)
              /\ \/ IsDraftRow(task.key)
                 \/ \E p \in Processes : job[p].step # "idle" /\ job[p].task = task
        BY <3>1, <3>3 DEF AllElse
      <4>2. a = task
        <5>1. /\ Len(queue') = Len(queue) + 1
              /\ \A j \in 1 .. Len(queue) : queue'[j] = queue[j]
              /\ queue'[Len(queue) + 1] = task
          BY <4>1, OrderTyped, AppendProperties
        <5>2. i \in 1 .. Len(queue) \/ i = Len(queue) + 1
          BY <5>1, OrderTyped, SMT
        <5>3. QED
          BY <3>1, <3>3, <5>1, <5>2
      <4>3. IsDraftRow(task.key)
        BY <4>1 DEF FiledInv, JobsFiled, Filed, ChangesDraft
      <4>4. IsDraftRow(a.key) /\ ~Saves(a)
        BY <4>1, <4>2, <4>3 DEF Saves
      <4>5. a.key \in 1 .. Len(rows) /\ a.key \in 0 .. Len(rows') /\ a.key \in 1 .. Len(rows')
        BY <4>4, SMT DEF IsDraftRow, Key, RowsGrow
      <4>6. IsDraftRow(a.key)'
        BY <4>4, <4>5 DEF IsDraftRow, Key, RowsGrow
      <4>7. QED
        BY <3>1, <4>4, <4>5, <4>6 DEF Filed, Saves, ChangesDraft, IsDraftRow, Key
    <3>4. QED
      BY <3>2, <3>3
  <2>2. QED
    BY <2>1 DEF TasksFiled
<1>4. QED
  BY <1>0, <1>1, <1>2, <1>3 DEF FiledInv, FreshSubmitted, WholeUntilMailed, AllElse

-----------------------------------------------------------------------------
(* A draft does not go back to an older text, unless tasks about it raced. *)

LEMMA RacedStays ==
    ASSUME TypeInv, [Next]_vars
    PROVE  raced \subseteq raced'
BY StepShape DEF FormSent, TaskTaken, CommandRun, GmailCalled, AllElse, Begin, Race

\* Who begins a task about a draft marks the texts of all who have a task about
\* it in hand, and its own.
LEMMA BeganBeside ==
    ASSUME NEW p \in Processes, NEW task, Begin(p, task), NEW q \in Processes, q # p,
           DraftOf(task) # NoDraft, DraftOf(job[q].task) = DraftOf(task)
    PROVE  /\ task.text \in Texts => task.text \in raced'
           /\ Text(q) \in Texts => Text(q) \in raced'
<1>1. q \in Beside(p, task)
  BY DEF Beside
<1>2. raced' = raced \cup (Texts \cap ({task.text} \cup {Text(r) : r \in Beside(p, task)}))
  BY <1>1 DEF Begin, Race
<1>3. QED
  BY <1>1, <1>2

\* Rows are of drafts that Gmail has had.
RowsOfDrafts == \A k \in 1 .. Len(rows) : rows[k].draft <= Len(drafts)

\* Two processes that are about to change the same draft have been noted; who is
\* not noted finds an older text.
Updates(p) == job[p].step = "call" /\ Kind(p) = "update"
RacesNoted ==
    \A p, q \in Processes :
        p # q /\ Updates(p) /\ Updates(q)
        /\ job[p].draft = job[q].draft /\ job[p].draft # NoDraft
            => Text(p) \in raced
NewestIsSaved ==
    \A p \in Processes :
        Updates(p) /\ Text(p) \notin raced /\ job[p].draft \in 1 .. Len(drafts)
            => drafts[job[p].draft] <= Text(p)
DraftInv ==
    DeliveryInv /\ FiledInv /\ OrderInv /\ RowsOfDrafts /\ RacesNoted /\ NewestIsSaved

LEMMA InitDraft == Init => DraftInv
<1> SUFFICES ASSUME Init PROVE DraftInv
  OBVIOUS
<1>1. \A p \in Processes : job[p].step = "idle"
  BY IdleIsJob, SMT DEF Init
<1>2. \A p \in Processes : ~Updates(p)
  BY <1>1 DEF Updates
<1>3. RowsOfDrafts
  BY SMT DEF Init, RowsOfDrafts, ReceivedMail, DraftRow
<1>4. QED
  BY <1>2, <1>3, InitDelivery, InitFiled, InitOrder DEF DraftInv, RacesNoted, NewestIsSaved

\* Gmail never has fewer drafts than it had.
LEMMA DraftsGrow ==
    ASSUME TypeInv, [Next]_vars
    PROVE  /\ Len(drafts) \in Nat /\ Len(drafts') \in Nat /\ Len(drafts) <= Len(drafts')
<1>1. Len(drafts) \in Nat /\ drafts' \in Seq(Texts \cup {Deleted}) /\ Len(drafts') \in Nat
  <2>1. drafts \in Seq(Texts \cup {Deleted}) /\ drafts' \in Seq(Texts \cup {Deleted})
    BY NextTyped DEF TypeInv, TypeOK
  <2>2. QED
    BY <2>1, SMT
<1>2. CASE UNCHANGED drafts
  BY <1>1, <1>2, SMT
<1>3. CASE GmailCalled
  BY <1>1, <1>3, CarriedTyped, SMT DEF GmailCalled
<1>4. CASE AllElse
  <2>1. ASSUME NEW d \in 1 .. Len(drafts), drafts' = [drafts EXCEPT ![d] = Deleted]
        PROVE  Len(drafts') = Len(drafts)
    BY <2>1, OrderTyped, SMT
  <2>2. QED
    BY <1>1, <1>2, <1>4, <2>1, SMT DEF AllElse
<1>5. QED
  BY <1>1, <1>2, <1>3, <1>4, StepShape DEF FormSent, TaskTaken, CommandRun

\* A new row is one of a draft that Gmail holds.
LEMMA NewRow ==
    ASSUME TypeInv, [Next]_vars, NEW k \in 1 .. Len(rows'), k \notin 1 .. Len(rows)
    PROVE  rows'[k].draft \in 1 .. Len(drafts)
<1> USE DEF gmail, history
<1>0. rows \in Seq(MessageRow) /\ Len(rows) \in Nat /\ Len(drafts) \in Nat
  BY RowsTyped, OrderTyped
<1>1. ASSUME NEW d \in 1 .. Len(drafts), NEW t, NEW b, rows' = Append(rows, DraftRow(d, t, b)),
             t \in Texts, b \in BOOLEAN
      PROVE  rows'[k].draft \in 1 .. Len(drafts)
  <2>1. DraftRow(d, t, b) \in MessageRow /\ DraftRow(d, t, b).draft = d
    <3>1. DraftRow(d, t, b).draft = d
      BY DEF DraftRow
    <3>2. d \in Nat
      BY <1>0, SMT
    <3>3. QED
      BY <1>1, <3>1, <3>2, DraftRowTyped
  <2>2. Len(rows') = Len(rows) + 1 /\ rows'[Len(rows) + 1] = DraftRow(d, t, b)
    BY <1>0, <1>1, <2>1, AppendProperties
  <2>3. k = Len(rows) + 1
    BY <1>0, <2>2, SMT
  <2>4. QED
    BY <2>1, <2>2, <2>3
<1>2. ASSUME UNCHANGED rows PROVE FALSE
  BY <1>2
<1>3. ASSUME NEW o, rows' = [rows EXCEPT ![o].there = FALSE] PROVE FALSE
  <2>1. Len(rows') = Len(rows)
    BY <1>0, <1>3, SMT
  <2>2. QED
    BY <2>1
<1>4. ASSUME NEW d \in 1 .. Len(drafts), SyncDownloads(d)
      PROVE  rows'[k].draft \in 1 .. Len(drafts)
  <2>1. drafts[d] \in Texts
    BY <1>4, OrderTyped, SMT DEF SyncDownloads, Held, TypeInv, TypeOK
  <2>2. QED
    BY <1>1, <1>4, <2>1 DEF SyncDownloads
<1>5. ASSUME NEW p \in Processes, Store(p) PROVE rows'[k].draft \in 1 .. Len(drafts)
  <2> DEFINE d == job[p].draft
             t == Text(p)
  <2>1. Held(d) /\ StoreDraft(d, t)
    BY <1>2, <1>5 DEF Store
  <2>2. d \in 1 .. Len(drafts)
    BY <2>1 DEF Held
  <2>3. t \in Texts
    BY <1>5, TextsKnown DEF Store, Handling, HasText, TypeInv, JobsKnown
  <2>4. CASE RowOf(d, t) = {}
    BY <1>1, <2>1, <2>2, <2>3, <2>4 DEF StoreDraft
  <2>5. CASE RowOf(d, t) # {}
    <3>1. DOMAIN rows' = 1 .. Len(rows)
      BY <2>1, <2>5 DEF StoreDraft
    <3>2. Len(rows') = Len(rows)
      BY <1>0, <3>1, LenProperties, NextTyped, RowsTyped, SMT DEF TypeInv, TypeOK
    <3>3. QED
      BY <3>2
  <2>6. QED
    BY <2>4, <2>5
<1>6. ASSUME NEW p \in Processes, Step(p) PROVE rows'[k].draft \in 1 .. Len(drafts)
  BY <1>2, <1>3, <1>5, <1>6
     DEF Step, Answered, AnswerLost, CallFails, DeleteRow, Crash, NotFound
<1>7. ASSUME NEW o, SendNew \/ SaveNewDraft \/ SendDraft(o) \/ ReplyOrForward(o)
                    \/ SaveDraft(o) \/ TrashDraft(o) \/ SyncRemoves(o) \/ DeletedElsewhere(o)
                    \/ Start(o) \/ Resend(o)
      PROVE  FALSE
  <2>1. UNCHANGED rows \/ rows' = [rows EXCEPT ![o].there = FALSE]
    BY <1>7 DEF SendNew, SaveNewDraft, SendDraft, ReplyOrForward, SaveDraft, TrashDraft,
                Submit, SyncRemoves, DeletedElsewhere, Start, Resend
  <2>2. QED
    BY <1>2, <1>3, <2>1
<1>8. CASE Next
  BY <1>4, <1>6, <1>7, <1>8 DEF Next
<1>9. QED
  BY <1>2, <1>8 DEF vars

LEMMA NextRowsOfDrafts ==
    ASSUME TypeInv, [Next]_vars, RowsOfDrafts
    PROVE  RowsOfDrafts'
<1>1. RowsGrow /\ Len(drafts) \in Nat /\ Len(drafts') \in Nat /\ Len(drafts) <= Len(drafts')
  BY NextRows, DraftsGrow
<1>2. ASSUME NEW k \in 1 .. Len(rows') PROVE rows'[k].draft <= Len(drafts')
  <2>1. rows'[k].draft \in Nat /\ rows'[k].draft <= Len(drafts)
    <3>1. CASE k \in 1 .. Len(rows)
      BY <1>1, <3>1, RowsTyped DEF RowsGrow, RowsOfDrafts
    <3>2. CASE k \notin 1 .. Len(rows)
      BY <1>1, <3>2, NewRow, SMT
    <3>3. QED
      BY <3>1, <3>2
  <2>2. QED
    BY <1>1, <2>1, SMT
<1>3. QED
  BY <1>2 DEF RowsOfDrafts

\* The draft of a process that is about to change it is the one its task is about.
LEMMA UpdatesItsDraft ==
    ASSUME DraftInv, NEW p \in Processes, Updates(p), job[p].draft # NoDraft
    PROVE  /\ DraftOf(job[p].task) = job[p].draft
           /\ job[p].draft \in 1 .. Len(drafts)
           /\ Text(p) \in Texts
<1>0. TypeInv
  BY DEF DraftInv, OrderInv
<1>1. /\ job[p].step # "idle" /\ job[p].task.kind = "update"
      /\ ChangesDraft(job[p].task) /\ HasText(job[p].task)
  BY DEF Updates, Kind, ChangesDraft, HasText
<1>2. IsDraftRow(job[p].task.key) /\ job[p].draft = rows[job[p].task.key].draft
  BY <1>1 DEF DraftInv, FiledInv, JobsFiled, Filed
<1>3. DraftOf(job[p].task) = job[p].draft
  BY <1>1, <1>2 DEF DraftOf, Original, IsDraftRow
<1>4. job[p].draft \in Nat /\ job[p].draft <= Len(drafts) /\ Len(drafts) \in Nat
  BY <1>0, <1>2, RowsTyped, OrderTyped DEF IsDraftRow, Key, DraftInv, RowsOfDrafts
<1>5. job[p].draft \in 1 .. Len(drafts)
  BY <1>4, SMT
<1>6. Text(p) \in Texts
  BY <1>0, <1>1, TextsKnown DEF Handling
<1>7. QED
  BY <1>3, <1>5, <1>6

\* Jobs that go on change no draft that they were not about to change.
LEMMA UpdatesGoOn ==
    JobsGoOn => \A p \in Processes : Updates(p)' => Updates(p) /\ job'[p] = job[p]
BY DEF JobsGoOn, Updates, Kind

\* What Gmail's answer can make of a draft that it had.
LEMMA DraftReplaced ==
    ASSUME TypeInv, NEW p \in Processes, job[p].step = "call", Carried(p),
           NEW d \in 1 .. Len(drafts)
    PROVE  \/ drafts'[d] = drafts[d] \/ drafts'[d] = Deleted
           \/ Updates(p) /\ job[p].draft = d /\ drafts'[d] = Text(p)
<1>0. drafts \in Seq(Texts \cup {Deleted}) /\ Len(drafts) \in Nat
  BY OrderTyped
<1>1. CASE Kind(p) = "send" /\ Mail(Text(p))
  BY <1>1 DEF Mail
<1>2. CASE Kind(p) = "create" /\ NewDraft(Text(p))
  <2>1. Text(p) \in Texts \cup {Deleted} /\ drafts' = Append(drafts, Text(p))
    BY <1>2, TextsKnown DEF NewDraft, Handling, HasText, Kind
  <2>2. QED
    BY <1>0, <2>1, AppendProperties
<1>3. CASE Kind(p) = "update" /\ ReplaceDraft(job[p].draft, Text(p))
  <2>1. drafts' = [drafts EXCEPT ![job[p].draft] = Text(p)] /\ Updates(p)
    BY <1>3 DEF ReplaceDraft, Updates
  <2>2. QED
    BY <1>0, <2>1
<1>4. CASE Kind(p) = "trash" /\ DeleteDraft(job[p].draft)
  <2>1. drafts' = [drafts EXCEPT ![job[p].draft] = Deleted]
    BY <1>4 DEF DeleteDraft
  <2>2. QED
    BY <1>0, <2>1
<1>5. QED
  BY <1>1, <1>2, <1>3, <1>4 DEF Carried

\* The steps on the two parts about races.
NotedInv == RacesNoted /\ NewestIsSaved

LEMMA CalmKeepsNoted ==
    ASSUME DraftInv, UNCHANGED <<drafts, job>>, raced \subseteq raced'
    PROVE  NotedInv'
BY DEF DraftInv, NotedInv, RacesNoted, NewestIsSaved, Updates, Kind, Text

LEMMA TakenKeepsNoted ==
    ASSUME DraftInv, [Next]_vars, TaskTaken
    PROVE  NotedInv'
<1>0. TypeInv /\ raced \subseteq raced' /\ UNCHANGED drafts
  BY RacedStays DEF DraftInv, OrderInv, TaskTaken
<1>1. Head(queue) = queue[1] /\ 1 \in 1 .. Len(queue)
  BY <1>0, TailOf DEF TaskTaken
<1>2. CASE UNCHANGED job
  BY <1>0, <1>2, CalmKeepsNoted
<1>3. ASSUME NEW w \in Workers, Begin(w, queue[1]), Loads(queue[1])
      PROVE  NotedInv'
  <2> DEFINE task == queue[1]
             d == DraftIdOf(task)
  <2>1. w \in Processes /\ Known(task)
    BY <1>0, <1>1 DEF Processes, TypeInv, TasksKnown
  <2>2. /\ \A q \in Processes : q # w => job'[q] = job[q]
        /\ job'[w].task = task
    BY <1>0, <1>3, <2>1, BeginTyped
  <2>3. job'[w].draft = d
    BY <1>0, <1>3, <2>1 DEF Begin, Become, TypeInv, TypeOK
  <2>4. ASSUME Updates(w)', d # NoDraft
        PROVE  DraftOf(task) = d /\ task.text \in Texts /\ Saves(task)
    <3>1. task.kind = "update"
      BY <2>2, <2>4 DEF Updates, Kind
    <3>2. d = rows[task.key].draft /\ Key(task.key)
      BY <1>3, <2>1, <2>4, <3>1 DEF DraftIdOf, Loads, Stored, Known
    <3>3. task.text \in Texts
      BY <1>0, <2>1, <3>1, SMT DEF Known, TypeInv, TypeOK
    <3>4. QED
      BY <3>1, <3>2, <3>3 DEF DraftOf, Original, Saves
  <2>5. ASSUME NEW q \in Processes, q # w, Updates(w)', Updates(q),
               job[q].draft = d, d # NoDraft
        PROVE  task.text \in raced' /\ Text(q) \in raced'
    <3>1. DraftOf(task) = d /\ task.text \in Texts
      BY <2>4, <2>5
    <3>2. DraftOf(job[q].task) = d /\ Text(q) \in Texts
      BY <2>5, UpdatesItsDraft
    <3>3. QED
      BY <1>3, <2>1, <2>5, <3>1, <3>2, BeganBeside
  <2>6. RacesNoted'
    <3> SUFFICES ASSUME NEW p \in Processes, NEW q \in Processes, p # q,
                        Updates(p)', Updates(q)', job'[p].draft = job'[q].draft,
                        job'[p].draft # NoDraft
                 PROVE  job'[p].task.text \in raced'
      BY DEF RacesNoted, Text
    <3>1. CASE p = w
      <4>1. Updates(q) /\ job[q].draft = d
        BY <2>2, <2>3, <3>1 DEF Updates, Kind
      <4>2. QED
        BY <2>2, <2>3, <2>5, <3>1, <4>1
    <3>2. CASE q = w
      <4>1. Updates(p) /\ job[p].draft = d /\ job'[p] = job[p]
        BY <2>2, <2>3, <3>2 DEF Updates, Kind
      <4>2. QED
        BY <2>3, <2>5, <3>2, <4>1 DEF Text
    <3>3. CASE p # w /\ q # w
      <4>1. Updates(p) /\ Updates(q) /\ job'[p] = job[p] /\ job'[q] = job[q]
        BY <2>2, <3>3 DEF Updates, Kind
      <4>2. QED
        BY <1>0, <4>1 DEF DraftInv, RacesNoted, Text
    <3>4. QED
      BY <3>1, <3>2, <3>3
  <2>7. NewestIsSaved'
    <3> SUFFICES ASSUME NEW p \in Processes, Updates(p)', job'[p].task.text \notin raced',
                        job'[p].draft \in 1 .. Len(drafts)
                 PROVE  drafts[job'[p].draft] <= job'[p].task.text
      BY <1>0 DEF NewestIsSaved, Text
    <3>1. CASE p = w
      <4>1. d \in 1 .. Len(drafts) /\ d # NoDraft
        BY <2>3, <3>1, SMT
      <4>2. Saves(task)
        BY <2>4, <3>1, <4>1
      <4>3. drafts[d] < task.text
        BY <1>1, <4>1, <4>2 DEF DraftInv, OrderInv, DraftsOlder
      <4>4. drafts[d] \in Nat /\ task.text \in Nat
        BY <1>0, <1>1, <4>1, <4>2, OrderTyped
      <4>5. drafts[d] <= task.text
        BY <4>3, <4>4, SMT
      <4>6. QED
        BY <2>2, <2>3, <3>1, <4>5
    <3>2. CASE p # w
      <4>1. Updates(p) /\ job'[p] = job[p] /\ Text(p) \notin raced
        BY <1>0, <2>2, <3>2 DEF Updates, Kind, Text
      <4>2. QED
        BY <4>1 DEF DraftInv, NewestIsSaved, Text
    <3>3. QED
      BY <3>1, <3>2
  <2>8. QED
    BY <2>6, <2>7 DEF NotedInv
<1>4. QED
  BY <1>1, <1>2, <1>3 DEF TaskTaken

LEMMA CommandKeepsNoted ==
    ASSUME DraftInv, [Next]_vars, CommandRun
    PROVE  NotedInv'
<1>0. TypeInv /\ raced \subseteq raced' /\ UNCHANGED drafts /\ Command \in Processes
  BY RacedStays DEF DraftInv, OrderInv, CommandRun, Processes
<1>1. PICK t \in Texts : /\ Known(Send(t, NoKey)) /\ Loads(Send(t, NoKey))
                         /\ Begin(Command, Send(t, NoKey))
  BY DEF CommandRun
<1>2. /\ \A q \in Processes : q # Command => job'[q] = job[q]
      /\ job'[Command].task.kind = "send"
  <2>1. Send(t, NoKey).kind = "send"
    BY DEF Send
  <2>2. QED
    BY <1>0, <1>1, <2>1, BeginTyped
<1>3. \A p \in Processes : Updates(p)' => Updates(p) /\ job'[p] = job[p]
  BY <1>2 DEF Updates, Kind
<1>4. QED
  BY <1>0, <1>3 DEF DraftInv, NotedInv, RacesNoted, NewestIsSaved, Text

LEMMA GmailKeepsNoted ==
    ASSUME DraftInv, [Next]_vars, GmailCalled
    PROVE  NotedInv'
<1>0. TypeInv /\ UNCHANGED raced /\ JobsGoOn
  BY DEF DraftInv, OrderInv, GmailCalled
<1>1. PICK p \in Processes : job[p].step = "call" /\ Carried(p)
  BY DEF GmailCalled
<1>2. \A q \in Processes : Updates(q)' => Updates(q) /\ job'[q] = job[q]
  BY <1>0, UpdatesGoOn
<1>3. RacesNoted'
  BY <1>0, <1>2 DEF DraftInv, RacesNoted, Text
<1>4. NewestIsSaved'
  <2> SUFFICES ASSUME NEW q \in Processes, Updates(q), job'[q] = job[q], Text(q) \notin raced,
                      job[q].draft \in 1 .. Len(drafts')
               PROVE  drafts'[job[q].draft] <= Text(q)
    BY <1>0, <1>2 DEF NewestIsSaved, Text
  <2>1. job[q].draft # NoDraft
    BY SMT
  <2>2. job[q].draft \in 1 .. Len(drafts) /\ Text(q) \in Texts
    BY <2>1, UpdatesItsDraft
  <2>3. CASE drafts'[job[q].draft] = drafts[job[q].draft]
    BY <2>2, <2>3 DEF DraftInv, NewestIsSaved
  <2>4. CASE drafts'[job[q].draft] = Deleted
    BY <2>2, <2>4, SMT
  <2>5. CASE Updates(p) /\ job[p].draft = job[q].draft /\ drafts'[job[q].draft] = Text(p)
    <3>1. p = q
      BY <2>1, <2>5 DEF DraftInv, RacesNoted
    <3>2. QED
      BY <2>2, <2>5, <3>1, SMT
  <2>6. QED
    BY <1>0, <1>1, <2>2, <2>3, <2>4, <2>5, DraftReplaced
<1>5. QED
  BY <1>3, <1>4 DEF NotedInv

LEMMA ElseKeepsNoted ==
    ASSUME DraftInv, [Next]_vars, AllElse
    PROVE  NotedInv'
<1>0. TypeInv /\ UNCHANGED raced /\ JobsGoOn
  BY DEF DraftInv, OrderInv, AllElse
<1>1. \A q \in Processes : Updates(q)' => Updates(q) /\ job'[q] = job[q]
  BY <1>0, UpdatesGoOn
<1>2. RacesNoted'
  BY <1>0, <1>1 DEF DraftInv, RacesNoted, Text
<1>3. NewestIsSaved'
  <2> SUFFICES ASSUME NEW q \in Processes, Updates(q), job'[q] = job[q], Text(q) \notin raced,
                      job[q].draft \in 1 .. Len(drafts')
               PROVE  drafts'[job[q].draft] <= Text(q)
    BY <1>0, <1>1 DEF NewestIsSaved, Text
  <2>1. job[q].draft # NoDraft
    BY SMT
  <2>2. job[q].draft \in 1 .. Len(drafts) /\ Text(q) \in Texts
    BY <2>1, UpdatesItsDraft
  <2>3. CASE drafts'[job[q].draft] = drafts[job[q].draft]
    BY <2>2, <2>3 DEF DraftInv, NewestIsSaved
  <2>4. CASE drafts'[job[q].draft] = Deleted
    BY <2>2, <2>4, SMT
  <2>5. QED
    BY <1>0, <2>3, <2>4, ElseDrafts
<1>4. QED
  BY <1>2, <1>3 DEF NotedInv

LEMMA NextDraft == DraftInv /\ [Next]_vars => DraftInv'
<1> SUFFICES ASSUME DraftInv, [Next]_vars PROVE DraftInv'
  OBVIOUS
<1>1. TypeInv /\ Numbered /\ FiledInv /\ RowsGrow /\ DeliveryInv' /\ OrderInv'
  BY NextRows, NextDelivery, NextOrder DEF DraftInv, DeliveryInv, SafeInv
<1>2. FormSent \/ TaskTaken \/ CommandRun \/ GmailCalled \/ AllElse
  BY <1>1, StepShape
<1>3. FiledInv'
  BY <1>1, <1>2, FormFiled, TakenFiled, CommandFiled, GmailFiled, ElseFiled
<1>4. RowsOfDrafts'
  BY <1>1, NextRowsOfDrafts DEF DraftInv
<1>5. NotedInv'
  <2>1. CASE FormSent
    BY <1>1, <2>1, RacedStays, CalmKeepsNoted DEF FormSent
  <2>2. QED
    BY <1>2, <2>1, TakenKeepsNoted, CommandKeepsNoted, GmailKeepsNoted, ElseKeepsNoted
<1>6. QED
  BY <1>1, <1>3, <1>4, <1>5 DEF DraftInv, NotedInv

LEMMA DraftsGoForward ==
    ASSUME DraftInv, [Next]_vars, NEW d \in 1 .. Len(drafts),
           drafts'[d] # Deleted, drafts'[d] < drafts[d]
    PROVE  drafts'[d] \in raced'
<1>0. TypeInv /\ drafts[d] \in Nat /\ raced \subseteq raced'
  BY OrderTyped, RacedStays DEF DraftInv, OrderInv
<1>1. drafts'[d] # drafts[d]
  BY <1>0, SMT
<1>2. CASE GmailCalled
  <2>1. PICK p \in Processes : job[p].step = "call" /\ Carried(p)
    BY <1>2 DEF GmailCalled
  <2>2. Updates(p) /\ job[p].draft = d /\ drafts'[d] = Text(p)
    BY <1>0, <1>1, <2>1, DraftReplaced
  <2>3. d # NoDraft
    BY SMT
  <2>4. Text(p) \in Texts
    BY <2>2, <2>3, UpdatesItsDraft
  <2>5. ~(drafts[d] <= Text(p))
    BY <1>0, <2>2, <2>4, SMT
  <2>6. Text(p) \in raced
    BY <2>2, <2>5 DEF DraftInv, NewestIsSaved
  <2>7. QED
    BY <1>0, <2>2, <2>6
<1>3. CASE FormSent \/ TaskTaken \/ CommandRun
  BY <1>1, <1>3 DEF FormSent, TaskTaken, CommandRun
<1>4. CASE AllElse
  BY <1>0, <1>1, <1>4, OrderTyped DEF AllElse
<1>5. QED
  BY <1>0, <1>2, <1>3, <1>4, StepShape

\* However many workers there are, and whatever fails, a draft goes back to a text
\* that was submitted earlier only when the task of that text was in hand beside
\* another task about the same draft.
THEOREM DraftsInOrder == Spec => NoOldDraftRestored
<1>1. DraftInv /\ [Next]_vars =>
         [\A d \in 1 .. Len(drafts) :
            drafts'[d] # Deleted /\ drafts'[d] < drafts[d] => drafts'[d] \in raced']_vars
  BY DraftsGoForward
<1>2. QED
  BY <1>1, InitDraft, NextDraft, PTL DEF Spec, NoOldDraftRestored

-----------------------------------------------------------------------------
(* A mail whose original nobody else changes is whole.                     *)

\* The row, if there is one, is there, and if it is a draft's it is what Gmail
\* has, and no process has in hand a task that changes that draft.
About(key, o) == Key(key) /\ rows[key].draft = rows[o].draft
Changes(p) == job[p].step # "idle" /\ ChangesDraft(job[p].task)
RowSafe(o) ==
    o # NoKey =>
        /\ Stored(o)
        /\ IsDraftRow(o) =>
             /\ Current(o)
             /\ \A p \in Processes : Changes(p) => ~About(job[p].task.key, o)

\* While the text waits its original is safe, now and when the tasks before it
\* have been done, and has not been copied; while it is mailed it was copied once.
Due(t) == t \in fresh \ raced /\ wanted[t] # "draft" /\ resent[t] = 0
WaitsWhole(t) ==
    \A i \in 1 .. Len(queue) : HasText(queue[i]) /\ queue[i].text = t =>
        /\ outbox[t] # NoRow /\ outbox[t].copied = 0
        /\ RowSafe(outbox[t].origin)
        /\ IsDraftRow(outbox[t].origin) =>
             \A j \in 1 .. Len(queue) : j < i => ~About(queue[j].key, outbox[t].origin)
CalledWhole(t) ==
    \A w \in Workers : Calls(w, t) =>
        /\ outbox[t] # NoRow /\ (wanted[t] = "forward" => outbox[t].copied = 1)
        /\ RowSafe(outbox[t].origin)
Whole(t) == mailed[t].complete /\ WaitsWhole(t) /\ CalledWhole(t)
WholeInv == TwiceInv /\ FiledInv /\ \A t \in Texts : Due(t) => Whole(t)

\* What a key is about does not change.
LEMMA AboutStays ==
    ASSUME RowsGrow, NEW o \in 1 .. Len(rows), NEW k \in 0 .. Len(rows)
    PROVE  /\ About(k, o)' <=> About(k, o)
           /\ IsDraftRow(o)' <=> IsDraftRow(o)
<1>1. /\ k \in 1 .. Len(rows') <=> k \in 1 .. Len(rows)
      /\ o \in 1 .. Len(rows')
  BY SMT DEF RowsGrow
<1>2. rows'[o].draft = rows[o].draft
  BY DEF RowsGrow
<1>3. k \in 1 .. Len(rows) => rows'[k].draft = rows[k].draft
  BY DEF RowsGrow
<1>4. QED
  BY <1>1, <1>2, <1>3 DEF About, Key, IsDraftRow

\* A draft that no task in hand changes stays what it is when Gmail is called.
LEMMA DraftStays ==
    ASSUME TypeInv, FiledInv, NEW p \in Processes, job[p].step = "call", Carried(p),
           NEW o \in 1 .. Len(rows), Held(rows[o].draft),
           Changes(p) => ~About(job[p].task.key, o)
    PROVE  /\ Len(drafts') \in Nat /\ Len(drafts) <= Len(drafts')
           /\ drafts'[rows[o].draft] = drafts[rows[o].draft]
<1>0. /\ drafts \in Seq(Texts \cup {Deleted}) /\ Len(drafts) \in Nat
      /\ rows[o].draft \in 1 .. Len(drafts) /\ rows[o].draft # NoDraft
  BY OrderTyped, SMT DEF Held
<1>1. CASE Kind(p) = "send" /\ Mail(Text(p))
  BY <1>0, <1>1, SMT DEF Mail
<1>2. CASE Kind(p) = "create" /\ NewDraft(Text(p))
  <2>1. Text(p) \in Texts \cup {Deleted} /\ drafts' = Append(drafts, Text(p))
    BY <1>2, TextsKnown DEF NewDraft, Handling, HasText, Kind
  <2>2. /\ Len(drafts') = Len(drafts) + 1
        /\ \A d \in 1 .. Len(drafts) : drafts'[d] = drafts[d]
    BY <1>0, <2>1, AppendProperties
  <2>3. QED
    BY <1>0, <2>2, SMT
<1>3. ASSUME NEW x, Held(job[p].draft), ChangesDraft(job[p].task),
             drafts' = [drafts EXCEPT ![job[p].draft] = x]
      PROVE  /\ Len(drafts') \in Nat /\ Len(drafts) <= Len(drafts')
             /\ drafts'[rows[o].draft] = drafts[rows[o].draft]
  <2>1. job[p].draft \in {NoDraft, rows[job[p].task.key].draft} /\ Changes(p)
    BY <1>3 DEF FiledInv, JobsFiled, Changes
  <2>2. job[p].draft # NoDraft
    BY <1>3, SMT DEF Held
  <2>3. Key(job[p].task.key)
    BY <1>3 DEF FiledInv, JobsFiled, Filed, IsDraftRow
  <2>4. job[p].draft # rows[o].draft
    BY <2>1, <2>2, <2>3 DEF About
  <2>5. Len(drafts') = Len(drafts)
    BY <1>0, <1>3, SMT
  <2>6. drafts'[rows[o].draft] = drafts[rows[o].draft]
    BY <1>0, <1>3, <2>4
  <2>7. QED
    BY <1>0, <2>5, <2>6, SMT
<1>4. CASE Kind(p) = "update" /\ ReplaceDraft(job[p].draft, Text(p))
  BY <1>3, <1>4 DEF ReplaceDraft, ChangesDraft, Kind
<1>5. CASE Kind(p) = "trash" /\ DeleteDraft(job[p].draft)
  BY <1>3, <1>5 DEF DeleteDraft, ChangesDraft, Kind
<1>6. QED
  BY <1>1, <1>2, <1>4, <1>5 DEF Carried

\* The same for every step, as long as nobody disturbs the original elsewhere.
LEMMA DraftLeftAlone ==
    ASSUME TypeInv, FiledInv, [Next]_vars, NEW t \in Texts, t \in fresh',
           outbox[t] # NoRow, NEW o \in 1 .. Len(rows), outbox[t].origin = o,
           RowSafe(o), IsDraftRow(o)
    PROVE  /\ Len(drafts') \in Nat /\ Len(drafts) <= Len(drafts')
           /\ drafts'[rows[o].draft] = drafts[rows[o].draft]
<1> DEFINE Alone == /\ Len(drafts') \in Nat /\ Len(drafts) <= Len(drafts')
                    /\ drafts'[rows[o].draft] = drafts[rows[o].draft]
<1> USE DEF gmail, history
<1>0. /\ Len(drafts) \in Nat /\ o # NoKey /\ rows[o].draft \in 1 .. Len(drafts)
      /\ Held(rows[o].draft)
      /\ \A p \in Processes : Changes(p) => ~About(job[p].task.key, o)
  <2>1. o # NoKey
    BY SMT
  <2>2. QED
    BY <2>1, OrderTyped DEF RowSafe, Current, Held
<1>1. ASSUME UNCHANGED drafts PROVE Alone
  BY <1>0, <1>1, SMT
<1>2. ASSUME NEW k, SendNew \/ SaveNewDraft \/ SendDraft(k) \/ ReplyOrForward(k)
                    \/ SaveDraft(k) \/ TrashDraft(k) \/ SyncRemoves(k) \/ SyncDownloads(k)
      PROVE  Alone
  BY <1>1, <1>2 DEF SendNew, SaveNewDraft, SendDraft, ReplyOrForward, SaveDraft, TrashDraft,
                    Submit, SyncRemoves, SyncDownloads
<1>3. ASSUME NEW k \in 1 .. Len(rows), DeletedElsewhere(k) PROVE Alone
  <2>1. CASE IsDraftRow(k)
    <3>1. rows[o].draft # rows[k].draft
      BY <1>0, <1>3 DEF DeletedElsewhere, Disturb
    <3>2. drafts' = [drafts EXCEPT ![rows[k].draft] = Deleted]
      BY <1>3, <2>1 DEF DeletedElsewhere, DeleteDraft
    <3>3. Len(drafts') = Len(drafts)
      BY <3>2, OrderTyped, SMT
    <3>4. drafts'[rows[o].draft] = drafts[rows[o].draft]
      BY <1>0, <3>1, <3>2, OrderTyped
    <3>5. QED
      BY <1>0, <3>3, <3>4, SMT
  <2>2. CASE ~IsDraftRow(k)
    BY <1>1, <1>3, <2>2 DEF DeletedElsewhere
  <2>3. QED
    BY <2>1, <2>2
<1>4. ASSUME NEW w \in Workers, Start(w) PROVE Alone
  BY <1>1, <1>4 DEF Start
<1>5. ASSUME NEW u \in Texts, Resend(u) PROVE Alone
  BY <1>1, <1>5 DEF Resend
<1>6. ASSUME NEW p \in Processes, Step(p) PROVE Alone
  <2>1. CASE Answered(p) \/ AnswerLost(p)
    <3>1. job[p].step = "call" /\ Carried(p)
      BY <2>1 DEF Answered, AnswerLost
    <3>2. QED
      BY <1>0, <3>1, DraftStays
  <2>2. CASE NotFound(p) \/ CallFails(p) \/ Store(p) \/ DeleteRow(p) \/ Crash(p)
    BY <1>1, <2>2 DEF NotFound, CallFails, Store, DeleteRow, Crash
  <2>3. QED
    BY <1>6, <2>1, <2>2 DEF Step
<1>7. CASE UNCHANGED vars
  BY <1>1, <1>7 DEF vars
<1>8. CASE Next
  BY <1>2, <1>3, <1>4, <1>5, <1>6, <1>8 DEF Next
<1>9. QED
  BY <1>7, <1>8

\* An original that is safe stays safe, unless a task about it is taken up.
LEMMA RowStaysSafe ==
    ASSUME TypeInv, FiledInv, FiledInv', [Next]_vars, NEW t \in Texts, t \in fresh',
           outbox[t] # NoRow, NEW o, outbox[t].origin = o, RowSafe(o),
           \A p \in Processes : Changes(p)' =>
              \/ Changes(p) /\ job'[p].task = job[p].task
              \/ job'[p].task.key \in 0 .. Len(rows) /\ (IsDraftRow(o) => ~About(job'[p].task.key, o))
    PROVE  RowSafe(o)' /\ (o # NoKey => (IsDraftRow(o)' <=> IsDraftRow(o)))
<1> SUFFICES ASSUME o # NoKey
             PROVE  RowSafe(o)' /\ (IsDraftRow(o)' <=> IsDraftRow(o))
  BY DEF RowSafe
<1>0. /\ RowsGrow /\ Stored(o) /\ o \in 1 .. Len(rows) /\ o \in 0 .. Len(rows)
      /\ Len(rows) \in Nat
  BY NextRows, RowsTyped, SMT DEF RowSafe, Stored, Key
<1>1. IsDraftRow(o)' <=> IsDraftRow(o)
  BY <1>0, AboutStays
<1>2. rows'[o].there = rows[o].there
  <2>1. ASSUME NEW p \in Processes, NotFound(p), Kind(p) = "trash", job[p].task.key = o
        PROVE  FALSE
    <3>1. job[p].step # "idle" /\ ChangesDraft(job[p].task)
      BY <2>1 DEF NotFound, ChangesDraft, Kind
    <3>2. IsDraftRow(o) /\ Changes(p)
      BY <2>1, <3>1 DEF FiledInv, JobsFiled, Filed, Changes
    <3>3. About(job[p].task.key, o)
      BY <1>0, <2>1 DEF About, Key
    <3>4. QED
      BY <3>2, <3>3 DEF RowSafe
  <2>2. ~SyncRemoves(o)
    BY DEF SyncRemoves, RowSafe
  <2>3. ~(DeletedElsewhere(o) /\ ~IsDraftRow(o))
    BY DEF DeletedElsewhere, Disturb
  <2>4. QED
    BY <1>0, <2>1, <2>2, <2>3, NextRows
<1>3. Stored(o)'
  <2>1. o \in 1 .. Len(rows')
    BY <1>0, SMT DEF RowsGrow
  <2>2. QED
    BY <1>0, <1>2, <2>1 DEF Stored, Key
<1>4. ASSUME IsDraftRow(o) PROVE Current(o)'
  <2>1. /\ Len(drafts') \in Nat /\ Len(drafts) <= Len(drafts')
        /\ drafts'[rows[o].draft] = drafts[rows[o].draft]
    BY <1>0, <1>4, DraftLeftAlone
  <2>2. Current(o)
    BY <1>4 DEF RowSafe
  <2>3. /\ rows[o].draft \in 1 .. Len(drafts) /\ drafts[rows[o].draft] # Deleted
        /\ drafts[rows[o].draft] = rows[o].text
    BY <2>2 DEF Current, Held
  <2>4. rows[o].draft \in 1 .. Len(drafts')
    BY <2>1, <2>3, OrderTyped, SMT
  <2>5. rows'[o].draft = rows[o].draft /\ rows'[o].text = rows[o].text
    BY <1>0 DEF RowsGrow
  <2>6. QED
    BY <2>1, <2>3, <2>4, <2>5 DEF Current, Held
<1>5. ASSUME IsDraftRow(o), NEW p \in Processes, Changes(p)'
      PROVE  ~About(job[p].task.key, o)'
  <2>1. PICK k : k = job'[p].task.key
    OBVIOUS
  <2>2. k \in 0 .. Len(rows) /\ ~About(k, o)
    <3>1. CASE Changes(p) /\ job'[p].task = job[p].task
      BY <1>5, <2>1, <3>1 DEF RowSafe, FiledInv, JobsFiled, Filed, Changes
    <3>2. CASE job'[p].task.key \in 0 .. Len(rows) /\ ~About(job'[p].task.key, o)
      BY <2>1, <3>2
    <3>3. QED
      BY <1>5, <3>1, <3>2
  <2>3. ~About(k, o)'
    BY <1>0, <2>2, AboutStays
  <2>4. QED
    BY <2>1, <2>3 DEF About
<1>6. QED
  BY <1>1, <1>3, <1>4, <1>5 DEF RowSafe

\* A text that waited is still one whose original is safe.
LEMMA StillWaits ==
    ASSUME WholeInv, TypeInv', FiledInv', [Next]_vars, NEW t \in Texts, Due(t), t \in fresh',
           NEW shift \in {0, 1}, NEW i \in 1 .. Len(queue'),
           HasText(queue'[i]), queue'[i].text = t,
           i + shift \in 1 .. Len(queue), queue'[i] = queue[i + shift],
           \A j \in 1 .. Len(queue') : j < i =>
              /\ j + shift \in 1 .. Len(queue) /\ j + shift < i + shift
              /\ queue'[j] = queue[j + shift],
           outbox'[t] = outbox[t],
           \A p \in Processes : Changes(p)' =>
              \/ Changes(p) /\ job'[p].task = job[p].task
              \/ /\ job'[p].task.key \in 0 .. Len(rows)
                 /\ IsDraftRow(outbox[t].origin) =>
                       ~About(job'[p].task.key, outbox[t].origin)
    PROVE  /\ outbox'[t] # NoRow /\ outbox'[t].copied = 0
           /\ RowSafe(outbox[t].origin)'
           /\ IsDraftRow(outbox[t].origin)' =>
                \A j \in 1 .. Len(queue') : j < i => ~About(queue[j].key, outbox[t].origin)'
<1>0. TypeInv /\ FiledInv /\ Whole(t) /\ RowsGrow
  BY NextRows DEF WholeInv, TwiceInv, DeliveryInv, SafeInv
<1>1. PICK o : o = outbox[t].origin
  OBVIOUS
<1>2. /\ outbox[t] # NoRow /\ outbox[t].copied = 0 /\ RowSafe(o)
      /\ IsDraftRow(o) =>
            \A j \in 1 .. Len(queue) : j < i + shift => ~About(queue[j].key, o)
  BY <1>0, <1>1 DEF Whole, WaitsWhole
<1>3. RowSafe(o)' /\ (o # NoKey => (IsDraftRow(o)' <=> IsDraftRow(o)))
  BY <1>0, <1>1, <1>2, RowStaysSafe
<1>4. ~IsDraftRow(NoKey)'
  BY SMT DEF IsDraftRow, Key
<1>5. ASSUME IsDraftRow(o)', NEW j \in 1 .. Len(queue'), j < i
      PROVE  ~About(queue[j].key, o)'
  <2>1. IsDraftRow(o) /\ o \in 1 .. Len(rows)
    BY <1>3, <1>4, <1>5 DEF IsDraftRow, Key
  <2>2. PICK k : k = queue'[j].key
    OBVIOUS
  <2>3. k \in 0 .. Len(rows) /\ ~About(k, o)
    BY <1>0, <1>2, <1>5, <2>1, <2>2 DEF FiledInv, TasksFiled, Filed
  <2>4. ~About(k, o)'
    BY <1>0, <2>1, <2>3, AboutStays
  <2>5. QED
    BY <2>2, <2>4 DEF About
<1>6. QED
  BY <1>1, <1>2, <1>3, <1>5 DEF RowSafe, IsDraftRow, About, Stored, Current, Key, Held

\* A text that was being mailed is still one whose original is safe.
LEMMA StillCalled ==
    ASSUME WholeInv, FiledInv', [Next]_vars, NEW t \in Texts, Due(t), t \in fresh',
           NEW w \in Workers, Calls(w, t), outbox'[t] = outbox[t],
           \A p \in Processes : Changes(p)' =>
              \/ Changes(p) /\ job'[p].task = job[p].task
              \/ /\ job'[p].task.key \in 0 .. Len(rows)
                 /\ IsDraftRow(outbox[t].origin) =>
                       ~About(job'[p].task.key, outbox[t].origin)
    PROVE  /\ outbox'[t] # NoRow /\ (wanted[t] = "forward" => outbox'[t].copied = 1)
           /\ RowSafe(outbox[t].origin)'
<1>0. TypeInv /\ FiledInv /\ Whole(t)
  BY DEF WholeInv, TwiceInv, DeliveryInv, SafeInv
<1>1. PICK o : o = outbox[t].origin
  OBVIOUS
<1>2. /\ outbox[t] # NoRow /\ (wanted[t] = "forward" => outbox[t].copied = 1)
      /\ RowSafe(o)
  BY <1>0, <1>1 DEF Whole, CalledWhole
<1>3. RowSafe(o)'
  BY <1>0, <1>1, <1>2, RowStaysSafe
<1>4. QED
  BY <1>1, <1>2, <1>3 DEF RowSafe, IsDraftRow, About, Stored, Current, Key, Held

\* A queue that lost nothing before a task that was there.
LEMMA QueueStays ==
    ASSUME TypeInv, NEW i \in 1 .. Len(queue'), i \in 1 .. Len(queue),
           \A j \in 1 .. Len(queue') : j \in 1 .. Len(queue) => queue'[j] = queue[j]
    PROVE  /\ i + 0 \in 1 .. Len(queue) /\ queue'[i] = queue[i + 0]
           /\ \A j \in 1 .. Len(queue') : j < i =>
                /\ j + 0 \in 1 .. Len(queue) /\ j + 0 < i + 0
                /\ queue'[j] = queue[j + 0]
<1>1. \A j \in 1 .. Len(queue') : j < i => j \in 1 .. Len(queue)
  BY OrderTyped, SMT
<1>2. \A j \in 1 .. Len(queue') : j + 0 = j
  BY SMT
<1>3. QED
  BY <1>1, <1>2

\* A new form gives its text a task and a row; older texts wait as they did.
LEMMA FormWhole ==
    ASSUME WholeInv, TypeInv', FiledInv', [Next]_vars, FormSent, NEW t \in Texts, Due(t)'
    PROVE  Whole(t)'
<1>0. TypeInv /\ Numbered /\ FiledInv /\ OneTask /\ Len(wanted) \in Nat
  BY OrderTyped DEF WholeInv, TwiceInv, DeliveryInv, SafeInv
<1>1. PICK want \in {"mail", "forward", "draft"}, key \in Nat, tasks \in Seq(Task) :
         Submit(want, key, tasks) /\ FormTasks(want, key, tasks)
  BY DEF FormSent
<1>2. /\ UNCHANGED <<rows, drafts, mailed, job, resent, raced>>
      /\ NextText = Len(wanted) + 1 /\ NextText \in Texts
      /\ outbox' = [outbox EXCEPT ![NextText] = [copied |-> 0, origin |-> key]]
      /\ fresh' = IF Undisturbed(key) THEN fresh \cup {NextText} ELSE fresh
  BY <1>1 DEF FormSent, Submit, NextText
<1>3. WantedGrows
  BY <1>0, FormFiled
<1>4. \A i \in 1 .. Len(queue') :
         \/ i \in 1 .. Len(queue) /\ queue'[i] = queue[i]
         \/ /\ i = Len(queue) + 1
            /\ HasText(queue'[i]) => queue'[i].text = NextText
         \/ ~HasText(queue'[i])
  BY <1>0, <1>2, FormQueue
<1>5. \A i \in 1 .. Len(queue) : queue'[i] = queue[i]
  <2>1. \A j \in 1 .. Len(tasks) :
           /\ tasks[j].kind # "none"
           /\ tasks[j].kind # "trash" => tasks[j].text = NextText
           /\ tasks[j].kind \in {"update", "trash"} => tasks[j].key # NoKey
    BY <1>1 DEF FormTasks
  <2>2. QED
    BY ONLY <1>0, <1>1, <2>1, SubmitTyped, ZenonT(60)
<1>6. outbox \in [Texts -> OutboxRow \cup {NoRow}] /\ Workers \subseteq Processes
  BY <1>0 DEF TypeInv, TypeOK, Processes
<1>7. CASE t # NextText
  <2>1. t \in fresh /\ t \in 1 .. Len(wanted) /\ t \in fresh'
    BY <1>0, <1>2, <1>7 DEF Due, FiledInv, FreshSubmitted
  <2>2. Due(t) /\ wanted'[t] = wanted[t]
    BY <1>2, <1>3, <2>1 DEF Due, WantedGrows
  <2>3. Whole(t) /\ outbox'[t] = outbox[t]
    BY <1>2, <1>6, <1>7, <2>2 DEF WholeInv
  <2>4. mailed'[t].complete
    BY <1>2, <2>3 DEF Whole
  <2>5. WaitsWhole(t)'
    <3> SUFFICES ASSUME NEW i \in 1 .. Len(queue'), HasText(queue'[i]), queue'[i].text = t
                 PROVE  /\ outbox'[t] # NoRow /\ outbox'[t].copied = 0
                        /\ RowSafe(outbox[t].origin)'
                        /\ IsDraftRow(outbox[t].origin)' =>
                             \A j \in 1 .. Len(queue') :
                                j < i => ~About(queue[j].key, outbox[t].origin)'
      BY DEF WaitsWhole, HasText
    <3>1. i \in 1 .. Len(queue)
      BY <1>4, <1>7
    <3>2. /\ i + 0 \in 1 .. Len(queue) /\ queue'[i] = queue[i + 0]
          /\ \A j \in 1 .. Len(queue') : j < i =>
               /\ j + 0 \in 1 .. Len(queue) /\ j + 0 < i + 0
               /\ queue'[j] = queue[j + 0]
      BY <1>0, <1>5, <3>1, QueueStays
    <3>3. \A p \in Processes : Changes(p)' => Changes(p) /\ job'[p].task = job[p].task
      BY <1>2 DEF Changes, ChangesDraft
    <3>4. QED
      BY <2>1, <2>2, <2>3, <3>2, <3>3, StillWaits
  <2>6. CalledWhole(t)'
    <3> SUFFICES ASSUME NEW w \in Workers, Calls(w, t)'
                 PROVE  /\ outbox'[t] # NoRow
                        /\ wanted'[t] = "forward" => outbox'[t].copied = 1
                        /\ RowSafe(outbox[t].origin)'
      BY DEF CalledWhole
    <3>1. Calls(w, t)
      BY <1>2 DEF Calls, Calling, Text, HasText
    <3>2. \A p \in Processes : Changes(p)' => Changes(p) /\ job'[p].task = job[p].task
      BY <1>2 DEF Changes, ChangesDraft
    <3>3. QED
      BY <2>1, <2>2, <2>3, <3>1, <3>2, StillCalled
  <2>7. QED
    BY <2>4, <2>5, <2>6 DEF Whole
<1>8. CASE t = NextText
  <2>1. t \notin 1 .. Len(wanted)
    BY <1>0, <1>2, <1>8, SMT
  <2>2. Undisturbed(key)
    BY <1>0, <1>2, <1>8, <2>1 DEF Due, FiledInv, FreshSubmitted
  <2>3. mailed'[t].complete
    <3>1. ~Obtained(t)
      BY <1>0, <2>1 DEF Numbered, ObtainedTexts
    <3>2. mailed[t].times = 0
      BY <1>0, <3>1, CountsTyped, SMT DEF Obtained
    <3>3. QED
      BY <1>0, <1>2, <3>2 DEF FiledInv, WholeUntilMailed
  <2>4. outbox'[t] = [copied |-> 0, origin |-> key] /\ outbox'[t].copied = 0
        /\ outbox'[t].origin = key /\ outbox'[t] # NoRow
    <3>1. outbox'[t] = [copied |-> 0, origin |-> key]
      BY <1>2, <1>6, <1>8
    <3>2. [copied |-> 0, origin |-> key] \in OutboxRow
      BY SMT DEF OutboxRow
    <3>3. QED
      BY <3>1, <3>2, NoRowIsNoRow
  <2>5. RowSafe(key)'
    <3>1. \A p \in Processes : key # NoKey /\ IsDraftRow(key) => ~About(job[p].task.key, key)
      BY <2>2 DEF Undisturbed, Busy, About
    <3>2. RowSafe(key)
      BY <2>2, <3>1 DEF Undisturbed, RowSafe
    <3>3. QED
      BY <1>2, <3>2 DEF RowSafe, Stored, IsDraftRow, Current, Held, About, Changes,
                        ChangesDraft, Key
  <2>6. WaitsWhole(t)'
    <3> SUFFICES ASSUME NEW i \in 1 .. Len(queue'), HasText(queue'[i]), queue'[i].text = t,
                        IsDraftRow(key)', NEW j \in 1 .. Len(queue'), j < i
                 PROVE  ~About(queue[j].key, key)'
      BY <2>4, <2>5 DEF WaitsWhole, HasText, RowSafe, IsDraftRow, About, Stored, Current,
                        Key, Held
    <3>1. i \notin 1 .. Len(queue)
      BY <1>0, <1>5, <2>1, TextsKnown
    <3>2. i = Len(queue) + 1
      BY <1>4, <3>1
    <3>3. j \in 1 .. Len(queue)
      BY <1>0, <3>2, OrderTyped, SMT
    <3>4. key # NoKey /\ IsDraftRow(key)
      BY <1>2, SMT DEF IsDraftRow, Key
    <3>5. ~About(queue[j].key, key)
      BY <2>2, <3>3, <3>4 DEF Undisturbed, Busy, About
    <3>6. queue'[j] = queue[j]
      BY <1>5, <3>3
    <3>7. QED
      BY <1>2, <3>5, <3>6 DEF About, Key
  <2>7. CalledWhole(t)'
    <3>1. \A w \in Workers : ~Calls(w, t)'
      BY <1>0, <1>2, <1>6, <2>1, TextsKnown, CallsAreHandled
         DEF Calls, Calling, Text, HasText
    <3>2. QED
      BY <3>1 DEF CalledWhole
  <2>8. QED
    BY <2>3, <2>6, <2>7 DEF Whole
<1>9. QED
  BY <1>7, <1>8

\* A text that is due was due before, when no form was sent.
LEMMA WasDue ==
    ASSUME TypeInv, TypeInv', UNCHANGED wanted, fresh' \subseteq fresh, raced \subseteq raced',
           NEW t \in Texts, Due(t)', resent'[t] >= resent[t]
    PROVE  Due(t) /\ t \in fresh'
<1>1. resent'[t] = 0 /\ resent[t] \in Nat
  BY CountsTyped DEF Due
<1>2. resent[t] = 0
  BY <1>1, SMT
<1>3. QED
  BY <1>2 DEF Due

\* A task about a text that is to be mailed mails it.
LEMMA DueIsSent ==
    ASSUME NEW task, Known(task), Filed(task), HasText(task), wanted[task.text] # "draft"
    PROVE  task.kind = "send"
BY SMT DEF Known, Filed, HasText, Saves, Task

\* A worker takes up the text itself, and copies what its original has; or a task
\* that waited before it, which is not about its original; or another one beside it,
\* which is not about its original either, or the text would be among the raced.
LEMMA TakenWhole ==
    ASSUME WholeInv, TypeInv', FiledInv', [Next]_vars, TaskTaken, NEW t \in Texts, Due(t)'
    PROVE  Whole(t)'
<1>0. TypeInv /\ FiledInv /\ OneTask /\ Workers \subseteq Processes
  BY DEF WholeInv, TwiceInv, DeliveryInv, SafeInv, Processes
<1>1. /\ \A i \in 1 .. Len(queue') : i + 1 \in 1 .. Len(queue) /\ queue'[i] = queue[i + 1]
      /\ Head(queue) = queue[1] /\ 1 \in 1 .. Len(queue)
  BY <1>0, TailOf DEF TaskTaken
<1>2. UNCHANGED <<wanted, fresh, mailed, resent>>
  BY DEF TaskTaken
<1>3. Due(t) /\ t \in fresh' /\ Whole(t)
  <2>1. resent'[t] >= resent[t]
    BY <1>0, <1>2, CountsTyped, SMT
  <2>2. QED
    BY <1>0, <1>2, <2>1, RacedStays, WasDue DEF WholeInv
<1>4. mailed'[t].complete
  BY <1>2, <1>3 DEF Whole
<1>5. Known(queue[1]) /\ Filed(queue[1])
  BY <1>0, <1>1 DEF TypeInv, TasksKnown, FiledInv, TasksFiled
<1>6. \A i \in 1 .. Len(queue') : \A j \in 1 .. Len(queue') : j < i =>
         /\ j + 1 \in 1 .. Len(queue) /\ j + 1 < i + 1
         /\ queue'[j] = queue[j + 1]
  BY <1>1, SMT
<1>7. CASE UNCHANGED <<job, outbox, raced>>
  <2>1. \A p \in Processes : Changes(p)' => Changes(p) /\ job'[p].task = job[p].task
    BY <1>7 DEF Changes, ChangesDraft
  <2>2. WaitsWhole(t)'
    <3> SUFFICES ASSUME NEW i \in 1 .. Len(queue'), HasText(queue'[i]), queue'[i].text = t
                 PROVE  /\ outbox'[t] # NoRow /\ outbox'[t].copied = 0
                        /\ RowSafe(outbox[t].origin)'
                        /\ IsDraftRow(outbox[t].origin)' =>
                             \A j \in 1 .. Len(queue') :
                                j < i => ~About(queue[j].key, outbox[t].origin)'
      BY DEF WaitsWhole, HasText
    <3>1. outbox'[t] = outbox[t]
      BY <1>7
    <3>2. QED
      BY <1>1, <1>3, <1>6, <2>1, <3>1, StillWaits
  <2>3. CalledWhole(t)'
    <3> SUFFICES ASSUME NEW w \in Workers, Calls(w, t)'
                 PROVE  /\ outbox'[t] # NoRow
                        /\ wanted'[t] = "forward" => outbox'[t].copied = 1
                        /\ RowSafe(outbox[t].origin)'
      BY DEF CalledWhole
    <3>1. Calls(w, t) /\ outbox'[t] = outbox[t]
      BY <1>7 DEF Calls, Calling, Text, HasText
    <3>2. QED
      BY <1>2, <1>3, <2>1, <3>1, StillCalled
  <2>4. QED
    BY <1>4, <2>2, <2>3 DEF Whole
<1>8. CASE \E w \in Workers : /\ job[w].step = "idle"
                              /\ Begin(w, Head(queue)) /\ Loads(Head(queue))
  <2>1. PICK w \in Workers : /\ job[w].step = "idle"
                             /\ Begin(w, queue[1]) /\ Loads(queue[1])
    BY <1>1, <1>8
  <2>2. w \in Workers /\ w \in Processes
    BY <1>0 DEF TypeInv, TypeOK
  <2>3. /\ \A q \in Processes : q # w => job'[q] = job[q]
        /\ job'[w].task = queue[1]
    BY <1>0, <1>5, <2>1, <2>2, BeginTyped
  <2>4. WaitsWhole(t)'
    <3> SUFFICES ASSUME NEW i \in 1 .. Len(queue'), HasText(queue'[i]), queue'[i].text = t
                 PROVE  /\ outbox'[t] # NoRow /\ outbox'[t].copied = 0
                        /\ RowSafe(outbox[t].origin)'
                        /\ IsDraftRow(outbox[t].origin)' =>
                             \A j \in 1 .. Len(queue') :
                                j < i => ~About(queue[j].key, outbox[t].origin)'
      BY DEF WaitsWhole, HasText
    <3>1. /\ i + 1 \in 1 .. Len(queue) /\ queue'[i] = queue[i + 1]
          /\ 1 # i + 1 /\ 1 < i + 1
      BY <1>1, SMT
    <3>2. outbox'[t] = outbox[t]
      <4>1. t # queue[1].text \/ ~HasText(queue[1])
        BY <1>0, <1>1, <3>1 DEF OneTask, OneWaits
      <4>2. QED
        BY <1>0, <1>5, <2>1, <2>2, <4>1, BeginOutbox
    <3>3. \A p \in Processes : Changes(p)' =>
             \/ Changes(p) /\ job'[p].task = job[p].task
             \/ /\ job'[p].task.key \in 0 .. Len(rows)
                /\ IsDraftRow(outbox[t].origin) =>
                      ~About(job'[p].task.key, outbox[t].origin)
      <4> TAKE p \in Processes
      <4>1. CASE p = w
        <5>1. queue[1].key \in 0 .. Len(rows)
          BY <1>5 DEF Filed
        <5>2. IsDraftRow(outbox[t].origin) => ~About(queue[1].key, outbox[t].origin)
          BY <1>1, <1>3, <3>1 DEF Whole, WaitsWhole
        <5>3. QED
          BY <2>3, <4>1, <5>1, <5>2
      <4>2. CASE p # w
        BY <2>3, <4>2 DEF Changes, ChangesDraft
      <4>3. QED
        BY <4>1, <4>2
    <3>4. QED
      BY <1>1, <1>3, <1>6, <3>1, <3>2, <3>3, StillWaits
  <2>5. CalledWhole(t)'
    <3> SUFFICES ASSUME NEW v \in Workers, Calls(v, t)'
                 PROVE  /\ outbox'[t] # NoRow
                        /\ wanted'[t] = "forward" => outbox'[t].copied = 1
                        /\ RowSafe(outbox[t].origin)'
      BY DEF CalledWhole
    <3>1. CASE v # w
      <4>1. Calls(v, t) /\ v \in Processes
        BY <1>0, <2>3, <3>1 DEF Calls, Calling, Text, HasText
      <4>2. outbox'[t] = outbox[t]
        <5>1. t # queue[1].text \/ ~HasText(queue[1])
          BY <1>0, <1>1, <4>1, CallsAreHandled DEF OneTask, WaitsOrHandled, Calls
        <5>2. QED
          BY <1>0, <1>5, <2>1, <2>2, <5>1, BeginOutbox
      <4>3. PICK o : o = outbox[t].origin
        OBVIOUS
      <4>4. ASSUME ChangesDraft(queue[1]), IsDraftRow(o), About(queue[1].key, o)
            PROVE  FALSE
        <5>1. DraftOf(queue[1]) = rows[o].draft /\ rows[o].draft # NoDraft
          BY <4>4 DEF DraftOf, Original, ChangesDraft, About, IsDraftRow
        <5>2. /\ outbox[t] # NoRow /\ job[v].task.text = t /\ job[v].task.kind = "send"
          BY <1>0, <1>3, <4>1, DueIsSent
             DEF Whole, CalledWhole, Calls, Calling, Text, Due, FiledInv, JobsFiled,
                 TypeInv, JobsKnown
        <5>3. DraftOf(job[v].task) = rows[o].draft
          BY <4>3, <4>4, <5>2 DEF DraftOf, Original, IsDraftRow
        <5>4. t \in raced'
          BY <2>1, <2>2, <3>1, <4>1, <5>1, <5>2, <5>3, BeganBeside DEF Text
        <5>5. QED
          BY <5>4 DEF Due
      <4>5. \A p \in Processes : Changes(p)' =>
               \/ Changes(p) /\ job'[p].task = job[p].task
               \/ /\ job'[p].task.key \in 0 .. Len(rows)
                  /\ IsDraftRow(outbox[t].origin) =>
                        ~About(job'[p].task.key, outbox[t].origin)
        <5> TAKE p \in Processes
        <5>1. CASE p = w
          <6>1. Changes(w)' => ChangesDraft(queue[1])
            BY <2>3 DEF Changes, ChangesDraft
          <6>2. queue[1].key \in 0 .. Len(rows)
            BY <1>5 DEF Filed
          <6>3. QED
            BY <2>3, <4>3, <4>4, <5>1, <6>1, <6>2
        <5>2. CASE p # w
          BY <2>3, <5>2 DEF Changes, ChangesDraft
        <5>3. QED
          BY <5>1, <5>2
      <4>6. QED
        BY <1>2, <1>3, <4>1, <4>2, <4>5, StillCalled
    <3>2. CASE v = w
      <4>1. HasText(queue[1]) /\ queue[1].text = t
        BY <2>3, <3>2 DEF Calls, Calling, Text, HasText
      <4>2. /\ outbox[t] # NoRow /\ outbox[t].copied = 0
            /\ RowSafe(outbox[t].origin)
        BY <1>1, <1>3, <4>1 DEF Whole, WaitsWhole
      <4>3. queue[1].kind = "send"
        BY <1>3, <1>5, <4>1, DueIsSent DEF Due
      <4>4. PICK o : o = outbox[t].origin
        OBVIOUS
      <4>5. \A p \in Processes : Changes(p)' => Changes(p) /\ job'[p].task = job[p].task
        <5> TAKE p \in Processes
        <5>1. CASE p = w
          BY <2>3, <4>3, <5>1 DEF Changes, ChangesDraft
        <5>2. CASE p # w
          BY <2>3, <5>2 DEF Changes, ChangesDraft
        <5>3. QED
          BY <5>1, <5>2
      <4>6. RowSafe(o)'
        BY <1>0, <1>3, <4>2, <4>4, <4>5, RowStaysSafe
      <4>7. /\ outbox'[t] # NoRow /\ outbox'[t].origin = o
            /\ wanted[t] = "forward" => outbox'[t].copied = 1
        <5>1. /\ outbox'[t] # NoRow /\ outbox'[t].origin = o
              /\ (wanted[t] = "forward" /\ Stored(o)) => outbox'[t].copied = outbox[t].copied + 1
          BY <1>0, <1>5, <2>1, <2>2, <4>1, <4>2, <4>3, <4>4, BeginOutbox
        <5>2. wanted[t] = "forward" => Stored(o)
          BY <1>0, <4>2, <4>4 DEF FiledInv, OriginsFiled, RowSafe
        <5>3. 0 + 1 = 1
          BY SMT
        <5>4. QED
          BY <4>2, <5>1, <5>2, <5>3
      <4>8. QED
        BY <1>2, <4>6, <4>7
           DEF RowSafe, IsDraftRow, About, Stored, Current, Key, Held
    <3>3. QED
      BY <3>1, <3>2
  <2>6. QED
    BY <1>4, <2>4, <2>5 DEF Whole
<1>9. QED
  BY <1>7, <1>8 DEF TaskTaken

\* A queue that got at most the removal of a draft.
LEMMA NothingNewWaits ==
    ASSUME WholeInv, TypeInv', FiledInv', [Next]_vars, NEW t \in Texts, Due(t), t \in fresh',
           UNCHANGED <<wanted>>,
           \A j \in 1 .. Len(queue) : j \in 1 .. Len(queue') => queue'[j] = queue[j],
           \A j \in 1 .. Len(queue') :
              (j \in 1 .. Len(queue) /\ queue'[j] = queue[j]) \/ ~HasText(queue'[j]),
           \A p \in Processes : Changes(p)' => Changes(p) /\ job'[p].task = job[p].task,
           Waits(t) \/ (\E w \in Workers : Calls(w, t)) => outbox'[t] = outbox[t],
           \A w \in Workers : Calls(w, t)' => Calls(w, t)
    PROVE  WaitsWhole(t)' /\ CalledWhole(t)'
<1>0. TypeInv
  BY DEF WholeInv, TwiceInv, DeliveryInv, SafeInv
<1>1. WaitsWhole(t)'
  <2> SUFFICES ASSUME NEW i \in 1 .. Len(queue'), HasText(queue'[i]), queue'[i].text = t
               PROVE  /\ outbox'[t] # NoRow /\ outbox'[t].copied = 0
                      /\ RowSafe(outbox[t].origin)'
                      /\ IsDraftRow(outbox[t].origin)' =>
                           \A j \in 1 .. Len(queue') :
                              j < i => ~About(queue[j].key, outbox[t].origin)'
    BY DEF WaitsWhole, HasText
  <2>1. i \in 1 .. Len(queue) /\ Waits(t)
    BY DEF Waits
  <2>2. /\ i + 0 \in 1 .. Len(queue) /\ queue'[i] = queue[i + 0]
        /\ \A j \in 1 .. Len(queue') : j < i =>
             /\ j + 0 \in 1 .. Len(queue) /\ j + 0 < i + 0
             /\ queue'[j] = queue[j + 0]
    BY <1>0, <2>1, QueueStays
  <2>3. QED
    BY <2>1, <2>2, StillWaits
<1>2. CalledWhole(t)'
  <2> SUFFICES ASSUME NEW w \in Workers, Calls(w, t)'
               PROVE  /\ outbox'[t] # NoRow
                      /\ wanted'[t] = "forward" => outbox'[t].copied = 1
                      /\ RowSafe(outbox[t].origin)'
    BY DEF CalledWhole
  <2>1. Calls(w, t) /\ outbox'[t] = outbox[t]
    OBVIOUS
  <2>2. QED
    BY <2>1, StillCalled
<1>3. QED
  BY <1>1, <1>2

LEMMA CommandWhole ==
    ASSUME WholeInv, TypeInv', FiledInv', [Next]_vars, CommandRun, NEW t \in Texts, Due(t)'
    PROVE  Whole(t)'
<1>0. TypeInv /\ Command \in Processes /\ Workers \subseteq Processes /\ Command \notin Workers
  BY DEF WholeInv, TwiceInv, DeliveryInv, SafeInv, Processes
<1>1. PICK u \in Texts : /\ Known(Send(u, NoKey)) /\ Loads(Send(u, NoKey))
                         /\ Begin(Command, Send(u, NoKey))
                         /\ resent' = [resent EXCEPT ![u] = @ + 1]
  BY DEF CommandRun
<1>2. UNCHANGED <<queue, wanted, fresh, mailed>>
  BY DEF CommandRun
<1>3. resent'[t] >= resent[t] /\ t # u
  <2>1. resent \in [Texts -> Nat]
    BY <1>0 DEF TypeInv, TypeOK
  <2>2. resent'[t] = 0
    BY DEF Due
  <2>3. QED
    BY <1>1, <2>1, <2>2, SMT
<1>4. Due(t) /\ t \in fresh' /\ Whole(t)
  BY <1>0, <1>2, <1>3, RacedStays, WasDue DEF WholeInv
<1>5. PICK c : c = Send(u, NoKey) /\ c.kind = "send" /\ c.text = u
  <2>1. Send(u, NoKey).kind = "send" /\ Send(u, NoKey).text = u
    BY SMT DEF Send
  <2>2. QED
    BY <2>1
<1>6. /\ \A q \in Processes : q # Command => job'[q] = job[q]
      /\ job'[Command].task = c
  BY <1>0, <1>1, <1>5, BeginTyped
<1>7. outbox'[t] = outbox[t]
  BY <1>0, <1>1, <1>3, <1>5, BeginOutbox
<1>8. \A p \in Processes : Changes(p)' => Changes(p) /\ job'[p].task = job[p].task
  BY <1>5, <1>6 DEF Changes, ChangesDraft
<1>9. \A w \in Workers : Calls(w, t)' => Calls(w, t)
  <2>1. \A w \in Workers : job'[w] = job[w]
    BY <1>0, <1>6
  <2>2. QED
    BY <2>1 DEF Calls, Calling, Text, HasText
<1>10. WaitsWhole(t)' /\ CalledWhole(t)'
  BY <1>2, <1>4, <1>7, <1>8, <1>9, NothingNewWaits
<1>11. QED
  BY <1>2, <1>4, <1>10 DEF Whole

\* Jobs that go on change no draft that they did not change before.
LEMMA JobsChange ==
    JobsGoOn => \A p \in Processes : Changes(p)' => Changes(p) /\ job'[p].task = job[p].task
BY DEF JobsGoOn, Changes, ChangesDraft

\* Gmail gets a text that is due with its pictures and its attachments.
LEMMA GmailWhole ==
    ASSUME WholeInv, TypeInv', FiledInv', [Next]_vars, GmailCalled, NEW t \in Texts, Due(t)'
    PROVE  Whole(t)'
<1>0. TypeInv /\ FiledInv /\ Workers \subseteq Processes /\ Processes = Workers \cup {Command}
  BY DEF WholeInv, TwiceInv, DeliveryInv, SafeInv, Processes
<1>1. JobsGoOn /\ UNCHANGED <<queue, outbox, wanted, fresh, resent>>
  BY DEF GmailCalled
<1>2. Due(t) /\ t \in fresh' /\ Whole(t)
  <2>1. resent'[t] >= resent[t]
    BY <1>0, <1>1, CountsTyped, SMT
  <2>2. QED
    BY <1>0, <1>1, <2>1, RacedStays, WasDue DEF WholeInv
<1>3. WaitsWhole(t)' /\ CalledWhole(t)'
  <2>1. \A w \in Workers : Calls(w, t)' => Calls(w, t)
    BY <1>0, <1>1, JobsCall DEF Calls
  <2>2. QED
    BY <1>1, <1>2, <2>1, JobsChange, NothingNewWaits
<1>4. mailed'[t].complete
  <2>1. PICK p \in Processes : job[p].step = "call" /\ Carried(p)
    BY DEF GmailCalled
  <2>2. mailed \in [Texts -> [times : Nat, complete : BOOLEAN]]
    BY <1>0 DEF TypeInv, TypeOK
  <2>3. CASE Kind(p) = "send" /\ Mail(Text(p)) /\ Text(p) = t
    <3>1. p # Command
      <4>1. job[Command].step # "idle" => resent[Text(Command)] > 0
        BY <1>0 DEF FiledInv, CommandExcused
      <4>2. resent[t] = 0
        BY <1>2 DEF Due
      <4>3. ~(0 > 0)
        BY SMT
      <4>4. QED
        BY <2>1, <2>3, <4>1, <4>2, <4>3
    <3>2. p \in Workers /\ Calls(p, t)
      BY <1>0, <2>1, <2>3, <3>1 DEF Calls, Calling, HasText, Kind
    <3>3. /\ outbox[t] # NoRow /\ (wanted[t] = "forward" => outbox[t].copied = 1)
          /\ RowSafe(outbox[t].origin)
      BY <1>2, <3>2 DEF Whole, CalledWhole
    <3>4. Complete(t)
      BY <3>3 DEF Complete, Picture, Copied, RowSafe
    <3>5. mailed'[t].complete = (mailed[t].complete /\ Complete(t))
      BY <2>2, <2>3 DEF Mail
    <3>6. QED
      BY <1>2, <3>4, <3>5 DEF Whole
  <2>4. CASE mailed'[t] = mailed[t]
    BY <1>2, <2>4 DEF Whole
  <2>5. QED
    BY <2>1, <2>2, <2>3, <2>4 DEF Carried, Mail, NewDraft, ReplaceDraft, DeleteDraft
<1>5. QED
  BY <1>3, <1>4 DEF Whole

LEMMA ElseWhole ==
    ASSUME WholeInv, TypeInv', FiledInv', [Next]_vars, AllElse, NEW t \in Texts, Due(t)'
    PROVE  Whole(t)'
<1>0. /\ TypeInv /\ FiledInv /\ OneTask
      /\ Workers \subseteq Processes /\ Processes = Workers \cup {Command}
  BY DEF WholeInv, TwiceInv, DeliveryInv, SafeInv, Processes
<1>1. JobsGoOn /\ UNCHANGED <<mailed, wanted, resent>> /\ fresh' \subseteq fresh
  BY DEF AllElse
<1>2. Due(t) /\ t \in fresh' /\ Whole(t)
  <2>1. resent'[t] >= resent[t]
    BY <1>0, <1>1, CountsTyped, SMT
  <2>2. QED
    BY <1>0, <1>1, <2>1, RacedStays, WasDue DEF WholeInv
<1>3. ASSUME Waits(t) \/ \E w \in Workers : Calls(w, t) PROVE outbox'[t] = outbox[t]
  <2>1. outbox \in [Texts -> OutboxRow \cup {NoRow}]
    BY <1>0 DEF TypeInv, TypeOK
  <2>2. ASSUME NEW p \in Processes, job[p].step = "delete", Text(p) = t PROVE FALSE
    <3>1. Handling(p) /\ ~Calling(p)
      BY <1>0, <2>2 DEF Handling, Calling, HasText, TypeInv, JobsKnown
    <3>2. CASE p = Command
      <4>1. resent[t] > 0 /\ resent[t] = 0
        BY <1>0, <1>2, <2>2, <3>2 DEF FiledInv, CommandExcused, Due
      <4>2. QED
        BY <4>1, SMT
    <3>3. CASE p \in Workers
      <4>1. ~Waits(t)
        BY <1>0, <2>2, <3>1, <3>3 DEF OneTask, WaitsOrHandled, Waits
      <4>2. ASSUME NEW w \in Workers, Calls(w, t) PROVE FALSE
        BY <1>0, <2>2, <3>1, <3>3, <4>2, CallsAreHandled DEF OneTask, OneHandles, Calls
      <4>3. QED
        BY <1>3, <4>1, <4>2
    <3>4. QED
      BY <1>0, <3>2, <3>3
  <2>3. QED
    BY <2>1, <2>2 DEF AllElse
<1>4. WaitsWhole(t)' /\ CalledWhole(t)'
  <2>1. \A w \in Workers : Calls(w, t)' => Calls(w, t)
    BY <1>0, <1>1, JobsCall DEF Calls
  <2>2. \A j \in 1 .. Len(queue') :
           (j \in 1 .. Len(queue) /\ queue'[j] = queue[j]) \/ ~HasText(queue'[j])
    BY <1>0, ElseQueue
  <2>3. \A j \in 1 .. Len(queue) : j \in 1 .. Len(queue') => queue'[j] = queue[j]
    <3>1. ASSUME NEW task \in Task, queue' = Append(queue, task), NEW j \in 1 .. Len(queue)
          PROVE  queue'[j] = queue[j]
      BY <1>0, <3>1, OrderTyped, AppendProperties
    <3>2. QED
      BY <3>1 DEF AllElse
  <2>4. QED
    BY <1>1, <1>2, <1>3, <2>1, <2>2, <2>3, JobsChange, NothingNewWaits
<1>5. QED
  BY <1>1, <1>2, <1>4 DEF Whole

LEMMA InitWhole == Init => WholeInv
<1>1. Init => \A t \in Texts : ~Due(t)
  BY DEF Init, Due
<1>2. QED
  BY <1>1, InitTwice, InitFiled DEF WholeInv

LEMMA NextWhole == WholeInv /\ [Next]_vars => WholeInv'
<1> SUFFICES ASSUME WholeInv, [Next]_vars PROVE WholeInv'
  OBVIOUS
<1>1. TwiceInv' /\ TypeInv' /\ TypeInv /\ Numbered /\ FiledInv /\ RowsGrow
  BY NextTwice, NextRows DEF WholeInv, TwiceInv, DeliveryInv, SafeInv
<1>2. FormSent \/ TaskTaken \/ CommandRun \/ GmailCalled \/ AllElse
  BY <1>1, StepShape
<1>3. FiledInv'
  BY <1>1, <1>2, FormFiled, TakenFiled, CommandFiled, GmailFiled, ElseFiled
<1>4. \A t \in Texts : Due(t)' => Whole(t)'
  BY <1>1, <1>2, <1>3, FormWhole, TakenWhole, CommandWhole, GmailWhole, ElseWhole
<1>5. QED
  BY <1>1, <1>3, <1>4 DEF WholeInv

\* Whatever is called, crashes or is lost, a mail whose original nobody changes
\* elsewhere, that no operator sends again, and that was not in hand beside another
\* task about the same draft, goes out with its pictures and, once, its attachments:
\* the tasks that could take the original away wait behind it.
THEOREM MailsAreWhole == Spec => []MailIsComplete
<1>1. WholeInv => MailIsComplete
  <2> SUFFICES ASSUME WholeInv, NEW t \in fresh \ raced, wanted[t] # "draft", resent[t] = 0
               PROVE  mailed[t].complete
    BY DEF MailIsComplete
  <2>1. t \in Texts
    BY DEF WholeInv, TwiceInv, DeliveryInv, SafeInv, TypeInv, TypeOK
  <2>2. QED
    BY <2>1 DEF WholeInv, Due, Whole
<1>2. QED
  BY <1>1, InitWhole, NextWhole, PTL DEF Spec
=============================================================================
