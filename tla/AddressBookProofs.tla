-------------------------- MODULE AddressBookProofs --------------------------
(***************************************************************************)
(* What holds of AddressBook for any processes, rows, names, formats and   *)
(* scenarios.                                                              *)
(***************************************************************************)
EXTENDS AddressBook, TLAPS

-----------------------------------------------------------------------------
(* Types.  PhoneNumber rows stay, so what a request mentions and what is   *)
(* to be formatted exists; an import is at a row of its file.              *)

Stored == {ph \in Phones : number[ph] # NoNumber}

JobFits(j, stored) ==
    /\ j \in Job
    /\ j.next # 0
    /\ j.request.kind = "numbers" /\ j.at \in {"lock", "commit"} =>
           \A i \in DOMAIN j.request.items :
               j.request.items[i].id # New => j.request.items[i].id \in stored
    /\ j.todo \subseteq stored
    /\ \A ph \in j.todo : j.numbers[ph] # NoNumber
    /\ j.at # "format" => j.todo = {}
    /\ j.request.kind = "numbers" /\ j.at = "commit" => j.seen \subseteq stored
    /\ j.request.kind = "import" /\ j.at \in {"create", "link"} =>
           j.next <= Len(j.request.items)
    /\ j.at = "link" => j.account # New

TypeInv == TypeOK /\ \A p \in Processes : JobFits(job[p], Stored)

\* What other processes may do to a job: set its flags.
Noticed(j, k) ==
    /\ k \in Job
    /\ k.request = j.request /\ k.at = j.at /\ k.seen = j.seen
    /\ k.rows = j.rows /\ k.numbers = j.numbers /\ k.todo = j.todo
    /\ k.next = j.next /\ k.account = j.account
    /\ k.erased = j.erased /\ (j.stale => k.stale) /\ j.old \subseteq k.old

\* The job of p becomes j, and those of others stay but for their flags.
JobStep(p, j) ==
    /\ job' = [q \in Processes |-> job'[q]]
    /\ job'[p] = j
    /\ \A q \in Processes \ {p} : Noticed(job[q], job'[q])

LEMMA SetFlags ==
    ASSUME NEW j \in Job, NEW s \in BOOLEAN, NEW g \in BOOLEAN, NEW o \in SUBSET Phones
    PROVE  /\ Noticed(j, j)
           /\ (j.stale => s) => Noticed(j, [j EXCEPT !.stale = s, !.gone = g])
           /\ j.old \subseteq o => Noticed(j, [j EXCEPT !.old = o])
<1>1. Noticed(j, j)
  BY Zenon DEF Noticed
<1>2. (j.stale => s) => Noticed(j, [[j EXCEPT !.stale = s] EXCEPT !.gone = g])
  <2>1. (j.stale => s) => Noticed(j, [j EXCEPT !.stale = s])
    BY SMT DEF Job, Noticed
  <2>2. \A k \in Job : Noticed(k, [k EXCEPT !.gone = g])
    BY SMT DEF Job, Noticed
  <2>3. QED
    BY <2>1, <2>2, Zenon DEF Noticed
<1>3. j.old \subseteq o => Noticed(j, [j EXCEPT !.old = o])
  BY SMT DEF Job, Noticed
<1>4. QED
  BY <1>1, <1>2, <1>3 DEF Noticed

LEMMA JobSteps ==
    ASSUME job \in [Processes -> Job], NEW p \in Processes, NEW j
    PROVE  /\ Become(p, j) => JobStep(p, j)
           /\ \A w, r : Overtake(p, j, w, r) => JobStep(p, j)
           /\ \A w \in SUBSET Phones :
                  job' = [q \in Processes |-> IF q = p THEN j ELSE
                             [job[q] EXCEPT !.old = @ \cup (job[q].todo \cap w)]]
                  => JobStep(p, j)
<1>1. \A q \in Processes : job[q] \in Job
  OBVIOUS
<1>2. \A q \in Processes : /\ job[q].stale \in BOOLEAN /\ job[q].gone \in BOOLEAN
                           /\ job[q].old \in SUBSET Phones
                           /\ job[q].todo \in SUBSET Phones
  BY <1>1 DEF Job
<1>3. ASSUME Become(p, j) PROVE JobStep(p, j)
  <2>1. \A q \in Processes : job'[q] = IF q = p THEN j ELSE job[q]
    BY <1>3 DEF Become
  <2>2. job' = [q \in Processes |-> job'[q]]
    BY <1>3 DEF Become
  <2>3. \A q \in Processes : Noticed(job[q], job[q])
    BY <1>1, <1>2, SetFlags
  <2>4. QED
    BY <2>1, <2>2, <2>3 DEF JobStep
<1>4. ASSUME NEW w, NEW r, Overtake(p, j, w, r) PROVE JobStep(p, j)
  <2> DEFINE s(q) == job[q].stale \/ (w # {} /\ ChangesAccounts(q))
  <2> DEFINE g(q) == job[q].gone \/ (At(q, "toggle", "write") /\ Subject(q) \in r)
  <2>1. \A q \in Processes : job'[q] =
            IF q = p THEN j ELSE [job[q] EXCEPT !.stale = s(q), !.gone = g(q)]
    BY <1>4 DEF Overtake
  <2>2. job' = [q \in Processes |-> job'[q]]
    BY <1>4 DEF Overtake
  <2>3. \A q \in Processes : s(q) \in BOOLEAN /\ g(q) \in BOOLEAN /\ (job[q].stale => s(q))
    OBVIOUS
  <2> HIDE DEF s, g
  <2>4. \A q \in Processes : Noticed(job[q], [job[q] EXCEPT !.stale = s(q), !.gone = g(q)])
    BY <1>1, <2>3, SetFlags
  <2>5. QED
    BY <2>1, <2>2, <2>4 DEF JobStep
<1>5. ASSUME NEW w \in SUBSET Phones,
             job' = [q \in Processes |-> IF q = p THEN j ELSE
                        [job[q] EXCEPT !.old = @ \cup (job[q].todo \cap w)]]
      PROVE  JobStep(p, j)
  <2> DEFINE o(q) == job[q].old \cup (job[q].todo \cap w)
  <2>1. \A q \in Processes : job'[q] = IF q = p THEN j ELSE [job[q] EXCEPT !.old = o(q)]
    BY <1>5
  <2>2. job' = [q \in Processes |-> job'[q]]
    BY <1>5
  <2>3. \A q \in Processes : o(q) \in SUBSET Phones /\ job[q].old \subseteq o(q)
    BY <1>2
  <2> HIDE DEF o
  <2>4. \A q \in Processes : Noticed(job[q], [job[q] EXCEPT !.old = o(q)])
    BY <1>1, <2>3, SetFlags
  <2>5. QED
    BY <2>1, <2>2, <2>4 DEF JobStep
<1>6. QED
  BY <1>3, <1>4, <1>5

\* The jobs after a step of p.
LEMMA JobTypes ==
    ASSUME TypeInv, NEW p \in Processes, NEW j, NEW stored,
           JobStep(p, j), JobFits(j, stored), Stored \subseteq stored
    PROVE  /\ job' \in [Processes -> Job]
           /\ \A q \in Processes : JobFits(job'[q], stored)
<1>1. ASSUME NEW q \in Processes \ {p} PROVE JobFits(job'[q], stored)
  <2>1. JobFits(job[q], Stored) /\ Noticed(job[q], job'[q])
    BY DEF TypeInv, JobStep
  <2>2. JobFits(job[q], stored)
    BY <2>1, Zenon DEF JobFits
  <2>3. QED
    BY <2>1, <2>2, Zenon DEF JobFits, Noticed
<1>2. \A q \in Processes : JobFits(job'[q], stored)
  BY <1>1 DEF JobStep
<1>3. job' = [q \in Processes |-> job'[q]]
  BY DEF JobStep
<1>4. QED
  BY <1>2, <1>3 DEF JobFits

LEMMA IdleFits == \A stored : JobFits(Idle, stored)
<1>1. NoRows \in [Accounts -> Row]
  BY DEF NoRows, NoRow, Row
<1>2. NoNumbers \in [Phones -> Numbers \cup {NoNumber}]
  BY DEF NoNumbers
<1>3. Idle \in Job
  BY <1>1, <1>2, SMT DEF Idle, Job
<1>4. /\ Idle.next # 0 /\ Idle.at = "idle" /\ Idle.todo = {}
  BY DEF Idle
<1>5. QED
  BY <1>3, <1>4, Zenon DEF JobFits

\* Setting one field of a job.
LEMMA JobField ==
    ASSUME NEW j \in Job
    PROVE  /\ \A r \in Requests : [j EXCEPT !.request = r] \in Job
           /\ \A s \in Steps : [j EXCEPT !.at = s] \in Job
           /\ \A x \in SUBSET (Phones \cup Accounts) : [j EXCEPT !.seen = x] \in Job
           /\ \A x \in [Accounts -> Row] : [j EXCEPT !.rows = x] \in Job
           /\ \A x \in [Phones -> Numbers \cup {NoNumber}] : [j EXCEPT !.numbers = x] \in Job
           /\ \A x \in SUBSET Phones : /\ [j EXCEPT !.todo = x] \in Job
                                      /\ [j EXCEPT !.old = x] \in Job
           /\ \A n \in Nat : [j EXCEPT !.next = n] \in Job
           /\ \A a \in Accounts \cup {New} : [j EXCEPT !.account = a] \in Job
           /\ \A b \in BOOLEAN : [j EXCEPT !.stale = b] \in Job /\ [j EXCEPT !.erased = b] \in Job
BY SMT DEF Job

LEMMA JobParts ==
    ASSUME NEW j \in Job
    PROVE  /\ j.request \in Requests \cup {NoRequest} /\ j.at \in Steps \cup {"idle"}
           /\ j.seen \subseteq Phones \cup Accounts /\ j.rows \in [Accounts -> Row]
           /\ j.numbers \in [Phones -> Numbers \cup {NoNumber}] /\ j.todo \subseteq Phones
           /\ j.next \in Nat /\ j.account \in Accounts \cup {New}
           /\ j.erased \in BOOLEAN /\ j.stale \in BOOLEAN /\ j.gone \in BOOLEAN
           /\ j.old \subseteq Phones
BY DEF Job

\* What a job reads matters to JobFits only while it formats.
LEMMA SameFits ==
    ASSUME NEW j, NEW k, NEW stored, JobFits(j, stored), k \in Job,
           k.request = j.request, k.at = j.at, k.next = j.next,
           k.numbers = j.numbers \/ j.at # "format", k.todo = j.todo,
           k.account = j.account, k.seen = j.seen \/ j.at # "commit"
    PROVE  JobFits(k, stored)
BY Zenon DEF JobFits

LEMMA GoFits ==
    ASSUME NEW j, NEW stored, JobFits(j, stored), j.at # "format", NEW s \in Steps,
           s # "commit",
           j.request.kind = "numbers" /\ s = "lock" =>
               \A i \in DOMAIN j.request.items :
                   j.request.items[i].id # New => j.request.items[i].id \in stored,
           j.request.kind = "import" /\ s \in {"create", "link"} =>
               j.next <= Len(j.request.items),
           s = "link" => j.account # New
    PROVE  JobFits([j EXCEPT !.at = s], stored)
<1> DEFINE k == [j EXCEPT !.at = s]
<1>1. j \in Job
  BY DEF JobFits
<1>2. k \in Job
  BY <1>1, JobField
<1>3. /\ k.request = j.request /\ k.at = s /\ k.next = j.next
      /\ k.numbers = j.numbers /\ k.todo = j.todo /\ k.account = j.account
  BY <1>1 DEF Job
<1> HIDE DEF k
<1>4. JobFits(k, stored)
  BY <1>2, <1>3, Zenon DEF JobFits
<1>5. QED
  BY <1>4 DEF k

-----------------------------------------------------------------------------
(* Requests.                                                               *)

LEMMA RequestTypes ==
    ASSUME NEW j \in Job, NEW i \in DOMAIN j.request.items
    PROVE  /\ j.request.items \in Seq(Item)
           /\ j.request.items[i] \in Item
           /\ j.request.kind = "numbers" =>
                  /\ j.request.items[i].id \in Phones \cup {New}
                  /\ j.request.items[i].value \in Numbers \cup {Keep}
                  /\ j.request.items[i].id = New => j.request.items[i].value # Keep
           /\ j.request.kind = "works" =>
                  /\ j.request.items[i].id \in Accounts \cup {New}
                  /\ j.request.items[i].value \in Names \cup {Keep}
                  /\ j.request.items[i].id = New => j.request.items[i].value # Keep
           /\ j.request.kind = "import" => j.request.items[i].value \in Names
<1>1. j.request \in Requests \cup {NoRequest}
  BY JobParts
<1>2. NoRequest.items = <<>>
  BY DEF NoRequest
<1>3. j.request \in Requests
  BY <1>1, <1>2
<1>4. j.request \in Request /\ WellFormed(j.request)
  BY <1>3 DEF Requests
<1>5. j.request.items \in Seq(Item)
  BY <1>4 DEF Request
<1>6. QED
  BY <1>4, <1>5 DEF WellFormed, ItemsFit

\* A request about one account.
LEMMA SubjectType ==
    ASSUME NEW j \in Job, j.request.kind \in {"toggle", "account"}
    PROVE  /\ j.request.items[1].id \in Accounts
           /\ j.request.items[1].value \in Names \cup {Keep}
           /\ j.request.kind = "account" /\ ~j.request.items[1].remove =>
                  j.request.items[1].value \in Names
           /\ 1 \in DOMAIN j.request.items /\ Len(j.request.items) = 1
<1>1. j.request \in Requests \cup {NoRequest}
  BY JobParts
<1>2. NoRequest.kind = "idle"
  BY DEF NoRequest
<1>3. j.request \in Request /\ WellFormed(j.request)
  BY <1>1, <1>2 DEF Requests
<1>4. j.request.items \in Seq(Item) /\ Len(j.request.items) = 1
  BY <1>3 DEF Request, WellFormed
<1>5. 1 \in DOMAIN j.request.items
  BY <1>4
<1>6. QED
  BY <1>3, <1>4, <1>5 DEF WellFormed, ItemsFit

-----------------------------------------------------------------------------
(* Every step keeps the types.                                             *)

\* The parts of TypeOK that are not about jobs.
StateType ==
    /\ scenario \in Scenarios
    /\ deleted \in BOOLEAN
    /\ lock \in Processes \cup {Nobody}
    /\ number \in [Phones -> Numbers \cup {NoNumber}]
    /\ linked \subseteq Stored
    /\ accounts \in [Accounts -> Row]
    /\ apart \in [Accounts -> SUBSET Details]
    /\ functions \subseteq Accounts
    /\ begun \in Nat
    /\ asked \subseteq Accounts /\ revived \subseteq Accounts
    /\ want \in [Phones -> Numbers \cup {NoNumber}]
    /\ mixed \subseteq Phones
    /\ raced \in BOOLEAN /\ listed \in BOOLEAN /\ died \in BOOLEAN

LEMMA TypeParts ==
    /\ TypeOK <=> StateType /\ job \in [Processes -> Job]
    /\ TypeInv <=> TypeOK /\ \A p \in Processes : JobFits(job[p], Stored)
    /\ (TypeOK <=> StateType /\ job \in [Processes -> Job])'
    /\ (TypeInv <=> TypeOK /\ \A p \in Processes : JobFits(job[p], Stored))'
BY DEF TypeOK, StateType, TypeInv, Stored

LEMMA StepType ==
    ASSUME TypeInv, NEW p \in Processes, NEW j, JobStep(p, j),
           StateType', Stored \subseteq Stored', JobFits(j, Stored')
    PROVE  TypeInv'
<1>1. job' \in [Processes -> Job] /\ \A q \in Processes : JobFits(job'[q], Stored')
  BY JobTypes
<1>2. (\A q \in Processes : JobFits(job[q], Stored))'
  BY <1>1 DEF JobFits, Job, Row, Requests, Request, WellFormed, ItemsFit, Item
<1>3. (job \in [Processes -> Job])'
  BY <1>1 DEF Job, Row, Requests, Request, WellFormed, ItemsFit, Item
<1>4. QED
  BY <1>2, <1>3, TypeParts

\* A step that is only about the job of p.
LEMMA AloneType ==
    ASSUME TypeInv, NEW p \in Processes, NEW j, JobFits(j, Stored), Become(p, j),
           UNCHANGED allButJob
    PROVE  TypeInv'
<1>1. StateType /\ job \in [Processes -> Job]
  BY TypeParts
<1>2. StateType' /\ Stored' = Stored
  BY <1>1 DEF StateType, Stored, allButJob, phones, book, history
<1>3. JobStep(p, j)
  BY <1>1, JobSteps
<1>4. QED
  BY <1>2, <1>3, StepType

LEMMA FinishType ==
    ASSUME TypeInv, NEW p \in Processes, Finish(p), UNCHANGED allButJob
    PROVE  TypeInv'
BY IdleFits, AloneType DEF Finish

LEMMA GoType ==
    ASSUME TypeInv, NEW p \in Processes, NEW s \in Steps, Goto(p, s), UNCHANGED allButJob,
           job[p].at # "format", s # "commit",
           Kind(p) = "numbers" /\ s = "lock" => Mentioned(p) \subseteq Stored,
           Kind(p) = "import" /\ s \in {"create", "link"} =>
               job[p].next <= Len(Items(p)),
           s = "link" => job[p].account # New
    PROVE  TypeInv'
<1>1. JobFits(job[p], Stored)
  BY DEF TypeInv
<1>2. Kind(p) = "numbers" /\ s = "lock" =>
          \A i \in DOMAIN Items(p) : Items(p)[i].id # New => Items(p)[i].id \in Stored
  BY DEF Mentioned
<1>3. JobFits([job[p] EXCEPT !.at = s], Stored)
  BY <1>1, <1>2, GoFits DEF Kind, Items
<1>4. QED
  BY <1>3, AloneType DEF Goto

LEMMA InitType == ASSUME Init PROVE TypeInv
<1>1. PICK s \in Scenarios : scenario = s
  BY DEF Init
<1>2. /\ s.linked \in [Phones -> Numbers \cup {NoNumber}]
      /\ s.named \in [Accounts -> Names \cup {NoName}] /\ s.works \subseteq Accounts
  BY AddressBookAssumption
<1>3. StateType
  <2>1. accounts \in [Accounts -> Row]
    BY <1>1, <1>2 DEF Init, Row
  <2>2. QED
    BY <1>1, <1>2, <2>1 DEF Init, StateType, Stored
<1>4. job \in [Processes -> Job] /\ \A p \in Processes : JobFits(job[p], Stored)
  BY IdleFits DEF Init, JobFits
<1>5. QED
  BY <1>3, <1>4, TypeParts

LEMMA BeginType == ASSUME TypeInv, NEW p \in Processes, Begin(p) PROVE TypeInv'
<1>1. PICK r \in scenario.requests :
          Become(p, [Idle EXCEPT !.request = r, !.at =
                         IF r.kind = "import" THEN "look" ELSE "load"])
  BY DEF Begin
<1>2. StateType /\ job \in [Processes -> Job]
  BY TypeParts
<1>3. r \in Requests
  BY <1>2, AddressBookAssumption DEF StateType
<1> DEFINE s == IF r.kind = "import" THEN "look" ELSE "load"
<1> DEFINE i == [Idle EXCEPT !.request = r]
<1> DEFINE j == [i EXCEPT !.at = s]
<1>4. Idle \in Job /\ Idle.next # 0 /\ Idle.todo = {} /\ Idle.at = "idle"
  BY IdleFits DEF JobFits, Idle
<1>5. i \in Job
  BY <1>3, <1>4, JobField
<1>6. j \in Job
  BY <1>5, JobField DEF Steps
<1>7. j.next # 0 /\ j.todo = {} /\ j.at \in {"look", "load"}
  BY DEF Idle
<1> HIDE DEF j
<1>8. JobFits(j, Stored)
  BY <1>6, <1>7, Zenon DEF JobFits
<1>9. StateType' /\ Stored' = Stored
  BY <1>2 DEF Begin, StateType, Stored, phones, book, history
<1>10. JobStep(p, j)
  BY <1>1, <1>2, JobSteps DEF j
<1>11. QED
  BY <1>8, <1>9, <1>10, StepType

LEMMA RequestLength ==
    ASSUME NEW j \in Job
    PROVE  j.request.items \in Seq(Item) /\ Len(j.request.items) \in Nat
<1>1. j.request \in Requests \cup {NoRequest}
  BY JobParts
<1>2. \A r \in Requests : r.items \in Seq(Item)
  BY DEF Requests, Request
<1>3. NoRequest.items \in Seq(Item)
  BY DEF NoRequest
<1>4. QED
  BY <1>1, <1>2, <1>3

LEMMA NextRowFits ==
    ASSUME NEW p, NEW stored, JobFits(job[p], stored), job[p].at # "format"
    PROVE  JobFits(NextRow(p), stored)
<1> DEFINE n == job[p].next + 1
<1> DEFINE a == [job[p] EXCEPT !.next = n]
<1> DEFINE b == [a EXCEPT !.at = "look"]
<1> DEFINE c == [b EXCEPT !.account = New]
<1> DEFINE j == [c EXCEPT !.stale = FALSE]
<1>1. job[p] \in Job /\ job[p].next \in Nat
  BY JobParts DEF JobFits
<1>2. a \in Job
  <2>1. n \in Nat
    BY <1>1
  <2> HIDE DEF n
  <2>2. QED
    BY <1>1, <2>1, JobField
<1>3. b \in Job
  BY <1>2, JobField DEF Steps
<1>4. c \in Job
  BY <1>3, JobField
<1>5. j \in Job
  BY <1>4, JobField
<1>6. /\ j.request = job[p].request /\ j.at = "look" /\ j.next = job[p].next + 1
      /\ j.numbers = job[p].numbers /\ j.todo = job[p].todo
  BY <1>1, SMT DEF Job
<1>7. j.next # 0
  BY <1>1, <1>6
<1>8. j = NextRow(p)
  BY DEF NextRow
<1> HIDE DEF j
<1>9. JobFits(j, stored)
  BY <1>5, <1>6, <1>7 DEF JobFits
<1>10. QED
  BY <1>8, <1>9

\* The steps that read.
LEMMA ReadType ==
    ASSUME TypeInv, NEW p \in Processes,
           \/ LoadContact(p) \/ CheckNumbers(p) \/ CheckAccounts(p) \/ LoadNumbers(p)
           \/ EndSave(p) \/ LoadFunction(p) \/ LoadAccount(p) \/ CheckName(p)
           \/ LookUp(p) \/ CreateFails(p) \/ LinkFails(p)
    PROVE  TypeInv'
<1>1. StateType /\ job \in [Processes -> Job] /\ JobFits(job[p], Stored)
  BY TypeParts
<1>2. job[p] \in Job /\ job[p].next \in Nat \ {0}
  BY <1>1, JobParts DEF JobFits
<1>3. CASE LoadContact(p)
  <2> DEFINE s == IF Saving(p) THEN "check" ELSE "write"
  <2> DEFINE a == [job[p] EXCEPT !.erased = deleted]
  <2> DEFINE j == [a EXCEPT !.at = s]
  <2>1. a \in Job
    BY <1>1, <1>2, JobField DEF StateType
  <2>2. /\ a.request = job[p].request /\ a.at = job[p].at /\ a.next = job[p].next
        /\ a.numbers = job[p].numbers /\ a.todo = job[p].todo /\ a.account = job[p].account
        /\ a.seen = job[p].seen
    BY <1>2 DEF Job
  <2>3. JobFits(a, Stored) /\ a.at # "format"
    BY <1>1, <1>3, <2>1, <2>2, SameFits DEF LoadContact
  <2>4. s \in Steps /\ s \notin {"lock", "commit", "create", "link"}
    BY DEF Steps
  <2> HIDE DEF a, s
  <2>5. JobFits(j, Stored)
    BY <2>3, <2>4, GoFits
  <2>6. Finish(p) \/ Become(p, j)
    BY <1>3 DEF LoadContact, a, s
  <2>7. UNCHANGED allButJob
    BY <1>3 DEF LoadContact
  <2>8. QED
    BY <2>5, <2>6, <2>7, FinishType, AloneType
<1>4. CASE CheckNumbers(p)
  <2>1. linked \subseteq Stored
    BY <1>1 DEF StateType
  <2>2. Kind(p) # "import" /\ job[p].at # "format"
    BY <1>4 DEF CheckNumbers, At
  <2>3. QED
    BY <1>4, <2>1, <2>2, FinishType, GoType DEF CheckNumbers, Steps
<1>5. CASE CheckAccounts(p)
  <2> DEFINE a == [job[p] EXCEPT !.at = "lock"]
  <2> DEFINE j == [a EXCEPT !.stale = FALSE]
  <2>1. Kind(p) = "works" /\ job[p].at # "format"
    BY <1>5 DEF CheckAccounts, At
  <2>2. JobFits(a, Stored)
    BY <1>1, <2>1, GoFits DEF Kind, Steps
  <2>3. j \in Job
    BY <2>2, JobField DEF JobFits
  <2>4. /\ j.request = a.request /\ j.at = a.at /\ j.next = a.next
        /\ j.numbers = a.numbers /\ j.todo = a.todo /\ j.account = a.account
        /\ j.seen = a.seen
    BY <2>2 DEF JobFits, Job
  <2>5. JobFits(j, Stored)
    BY <2>2, <2>3, <2>4, SameFits
  <2>6. Finish(p) \/ Become(p, j)
    BY <1>5 DEF CheckAccounts
  <2>7. UNCHANGED allButJob
    BY <1>5 DEF CheckAccounts
  <2>8. QED
    BY <2>5, <2>6, <2>7, FinishType, AloneType
<1>6. CASE LoadNumbers(p)
  <2> DEFINE n == LinkedNumbers
  <2> DEFINE a == [job[p] EXCEPT !.at = "format"]
  <2> DEFINE b == [a EXCEPT !.todo = linked]
  <2> DEFINE c == [b EXCEPT !.old = {}]
  <2> DEFINE j == [c EXCEPT !.numbers = n]
  <2>1. n \in [Phones -> Numbers \cup {NoNumber}] /\ linked \in SUBSET Phones
    BY <1>1 DEF StateType, Stored, LinkedNumbers
  <2>2. \A ph \in linked : n[ph] # NoNumber
    BY <1>1 DEF StateType, Stored, LinkedNumbers
  <2> HIDE DEF n
  <2>3. a \in Job
    BY <1>2, JobField DEF Steps
  <2>4. b \in Job
    BY <2>1, <2>3, JobField
  <2>5. c \in Job
    BY <2>4, JobField
  <2>6. j \in Job
    BY <2>1, <2>5, JobField
  <2>7. /\ j.request = job[p].request /\ j.at = "format" /\ j.next = job[p].next
        /\ j.numbers = n /\ j.todo = linked
    BY <1>2, SMT DEF Job
  <2>8. (Become(p, j) \/ Finish(p)) /\ UNCHANGED allButJob
    BY <1>6 DEF LoadNumbers, n
  <2> HIDE DEF j
  <2>9. JobFits(j, Stored)
    BY <1>1, <1>2, <2>2, <2>6, <2>7 DEF JobFits, StateType
  <2>10. QED
    BY <2>8, <2>9, AloneType, FinishType
<1>7. CASE EndSave(p) \/ LoadFunction(p) \/ CheckName(p) \/ LinkFails(p)
  <2>1. \/ Finish(p)
        \/ Goto(p, "write") /\ Kind(p) \in {"toggle", "account"} /\ job[p].at # "format"
    BY <1>7 DEF EndSave, LoadFunction, CheckName, LinkFails, At
  <2>2. UNCHANGED allButJob
    BY <1>7 DEF EndSave, LoadFunction, CheckName, LinkFails
  <2>3. QED
    BY <2>1, <2>2, FinishType, GoType DEF Steps
<1>8. CASE LoadAccount(p)
  <2> DEFINE s == IF Items(p)[1].remove THEN "write" ELSE "check"
  <2> DEFINE a == [job[p] EXCEPT !.rows = accounts]
  <2> DEFINE j == [a EXCEPT !.at = s]
  <2>1. a \in Job
    BY <1>1, <1>2, JobField DEF StateType
  <2>2. /\ a.request = job[p].request /\ a.at = job[p].at /\ a.next = job[p].next
        /\ a.numbers = job[p].numbers /\ a.todo = job[p].todo /\ a.account = job[p].account
        /\ a.seen = job[p].seen
    BY <1>2 DEF Job
  <2>3. JobFits(a, Stored)
    BY <1>1, <2>1, <2>2, SameFits
  <2>4. /\ s \in Steps /\ s \notin {"lock", "commit", "create", "link"}
        /\ a.at # "format"
    BY <1>8, <2>2 DEF Steps, LoadAccount, At
  <2> HIDE DEF a, s
  <2>5. JobFits(j, Stored)
    BY <2>3, <2>4, GoFits
  <2>6. Finish(p) \/ Become(p, j)
    BY <1>8 DEF LoadAccount, a, s
  <2>7. UNCHANGED allButJob
    BY <1>8 DEF LoadAccount
  <2>8. QED
    BY <2>5, <2>6, <2>7, FinishType, AloneType
<1>9. CASE LookUp(p) \/ CreateFails(p)
  <2>1. \/ Finish(p)
        \/ Become(p, NextRow(p))
        \/ Goto(p, "create") /\ job[p].next <= Len(Items(p))
    <3>1. Kind(p) = "import"
      BY <1>9 DEF LookUp, CreateFails, At
    <3>2. CASE job[p].next > Len(Items(p))
      <4>1. job[p].at # "create"
        BY <1>1, <1>2, <3>1, <3>2, RequestLength DEF JobFits, Kind, Items
      <4>2. QED
        BY <1>9, <3>2, <4>1 DEF LookUp, CreateFails, At
    <3>3. CASE ~(job[p].next > Len(Items(p)))
      <4>1. job[p].next <= Len(Items(p))
        BY <1>2, <3>3, RequestLength DEF Items
      <4>2. QED
        BY <1>9, <3>3, <4>1 DEF LookUp, CreateFails
    <3>4. QED
      BY <3>2, <3>3
  <2>2. UNCHANGED allButJob /\ Kind(p) = "import" /\ job[p].at # "format"
    BY <1>9 DEF LookUp, CreateFails, At
  <2>3. JobFits(NextRow(p), Stored)
    BY <1>1, <2>2, NextRowFits
  <2>4. QED
    BY <2>1, <2>2, <2>3, FinishType, AloneType, GoType DEF Steps
<1>10. QED
  BY <1>3, <1>4, <1>5, <1>6, <1>7, <1>8, <1>9

LEMMA LockType == ASSUME TypeInv, NEW p \in Processes, Lock(p) PROVE TypeInv'
<1> DEFINE x == IF Kind(p) = "numbers" THEN linked ELSE functions
<1> DEFINE n == IF Kind(p) = "numbers" THEN LinkedNumbers ELSE NoNumbers
<1> DEFINE y == IF Kind(p) = "numbers" THEN NoRows ELSE accounts
<1> DEFINE a == [job[p] EXCEPT !.at = "commit"]
<1> DEFINE b == [a EXCEPT !.seen = x]
<1> DEFINE c == [b EXCEPT !.numbers = n]
<1> DEFINE j == [c EXCEPT !.rows = y]
<1>1. StateType /\ job \in [Processes -> Job] /\ JobFits(job[p], Stored) /\ job[p].at = "lock"
  BY TypeParts DEF Lock
<1>2. NoRows \in [Accounts -> Row]
  BY DEF NoRows, NoRow, Row
<1>3. /\ x \in SUBSET (Phones \cup Accounts) /\ y \in [Accounts -> Row]
      /\ n \in [Phones -> Numbers \cup {NoNumber}]
  BY <1>1, <1>2 DEF StateType, Stored, LinkedNumbers, NoNumbers
<1>4. job[p] \in Job /\ a \in Job
  <2>1. job[p] \in Job
    BY <1>1 DEF JobFits
  <2>2. QED
    BY <2>1, JobField DEF Steps
<1>5. Become(p, j) /\ UNCHANGED <<scenario, deleted, phones, book, functions, begun, history>>
      /\ lock' = p /\ (Kind(p) = "numbers" => x \subseteq Stored)
  BY <1>1 DEF Lock, StateType
<1> HIDE DEF x, y, n
<1>6. b \in Job
  BY <1>3, <1>4, JobField
<1>7. c \in Job /\ j \in Job
  <2>1. c \in Job
    BY <1>3, <1>6, JobField
  <2>2. QED
    BY <1>3, <2>1, JobField
<1>8. /\ j.request = job[p].request /\ j.at = "commit" /\ j.next = job[p].next
      /\ j.todo = job[p].todo /\ j.account = job[p].account /\ j.seen = x
  BY <1>4, SMT DEF Job
<1> HIDE DEF j
<1>9. JobFits(j, Stored)
  BY <1>1, <1>5, <1>7, <1>8 DEF JobFits, Kind
<1>10. StateType' /\ Stored' = Stored
  BY <1>1, <1>5 DEF StateType, Stored, phones, book, history
<1>11. QED
  BY <1>1, <1>5, <1>9, <1>10, JobSteps, StepType

\* What a list stands for.
LEMMA ListTypes ==
    ASSUME NEW p, job[p] \in Job, NEW fresh
    PROVE  /\ Kind(p) = "numbers" /\ fresh \in Phones \cup {New} =>
                  /\ Rows(p, fresh) \subseteq Phones \cup {fresh}
                  /\ \A x : Valued(p, fresh, x) # {} => ValueFor(p, fresh, x) \in Numbers
           /\ Kind(p) = "works" /\ fresh \in Accounts \cup {New} =>
                  Rows(p, fresh) \subseteq Accounts \cup {fresh}
<1>1. CASE Kind(p) = "numbers" /\ fresh \in Phones \cup {New}
  <2>1. \A i \in DOMAIN Items(p) : /\ Items(p)[i].id \in Phones \cup {New}
                                 /\ Items(p)[i].value \in Numbers \cup {Keep}
    BY <1>1, RequestTypes DEF Kind, Items
  <2>2. Rows(p, fresh) \subseteq Phones \cup {fresh}
    BY <1>1, <2>1 DEF Rows, RowOf
  <2>3. ASSUME NEW x, Valued(p, fresh, x) # {} PROVE ValueFor(p, fresh, x) \in Numbers
    <3> DEFINE i == CHOOSE i \in DOMAIN Items(p) : i \in Valued(p, fresh, x)
    <3>1. i \in DOMAIN Items(p) /\ i \in Valued(p, fresh, x)
      BY <2>3, Zenon DEF Valued
    <3>2. Items(p)[i].value # Keep
      BY <3>1 DEF Valued
    <3>3. QED
      BY <2>1, <3>1, <3>2 DEF ValueFor
  <2>4. QED
    BY <1>1, <2>2, <2>3
<1>2. CASE Kind(p) = "works" /\ fresh \in Accounts \cup {New}
  <2>1. \A i \in DOMAIN Items(p) : Items(p)[i].id \in Accounts \cup {New}
    BY <1>2, RequestTypes DEF Kind, Items
  <2>2. Rows(p, fresh) \subseteq Accounts \cup {fresh}
    BY <1>2, <2>1 DEF Rows, RowOf
  <2>3. QED
    BY <1>2, <2>2
<1>3. QED
  BY <1>1, <1>2

\* The row of a new item, if there is one.
LEMMA FreshRow ==
    ASSUME NEW p, NEW unused, NEW fresh \in Fresh(p, unused)
    PROVE  /\ fresh \in unused \cup {New}
           /\ New \notin unused /\ fresh = New =>
                  \A i \in DOMAIN Items(p) : Items(p)[i].id # New
           /\ fresh \in unused \/ New \notin Rows(p, fresh)
BY DEF Fresh, Rows, RowOf

\* What CommitNumbers does to the numbers.
ValuedPhones(p, fresh) == {ph \in Phones : Valued(p, fresh, ph) # {}}
WrittenPhones(p, fresh) ==
    {ph \in ValuedPhones(p, fresh) : ph \in job[p].seen =>
        ValueFor(p, fresh, ph) # job[p].numbers[ph]}
Saves(p, fresh) ==
    LET v == ValuedPhones(p, fresh)
        w == WrittenPhones(p, fresh)
    IN  /\ number' = [ph \in Phones |->
               IF ph \in w THEN ValueFor(p, fresh, ph) ELSE number[ph]]
        /\ want' = [ph \in Phones |->
               IF ph \in v THEN ValueFor(p, fresh, ph) ELSE want[ph]]
        /\ mixed' = mixed \ w
        /\ linked' = (linked \cup Rows(p, fresh)) \ Dropped(p)
        /\ job' = [q \in Processes |->
               IF q = p
               THEN [job[p] EXCEPT !.at = "reload", !.seen = {}, !.numbers = NoNumbers]
               ELSE [job[q] EXCEPT !.old = @ \cup (job[q].todo \cap w)]]

LEMMA CommitNumbersParts ==
    ASSUME NEW p \in Processes, CommitNumbers(p)
    PROVE  \E fresh \in Fresh(p, {ph \in Phones : number[ph] = NoNumber}) : Saves(p, fresh)
BY Zenon DEF CommitNumbers, Saves, ValuedPhones, WrittenPhones

LEMMA CommitNumbersType ==
    ASSUME TypeInv, NEW p \in Processes, CommitNumbers(p)
    PROVE  TypeInv'
<1> DEFINE unused == {ph \in Phones : number[ph] = NoNumber}
<1>1. StateType /\ job \in [Processes -> Job] /\ JobFits(job[p], Stored)
  BY TypeParts
<1>2. Kind(p) = "numbers" /\ job[p].at = "commit" /\ job[p] \in Job /\ New \notin Phones
  BY <1>1, AddressBookAssumption DEF CommitNumbers, At, JobFits
<1>3. PICK fresh \in Fresh(p, unused) : Saves(p, fresh)
  BY CommitNumbersParts
<1> DEFINE valued == ValuedPhones(p, fresh)
<1> DEFINE written == WrittenPhones(p, fresh)
<1>4. fresh \in Phones \cup {New}
  BY FreshRow
<1>5. /\ Rows(p, fresh) \subseteq Phones \cup {fresh} /\ written \subseteq valued
      /\ valued \subseteq Phones
      /\ \A ph \in valued : ValueFor(p, fresh, ph) \in Numbers
  BY <1>2, <1>4, ListTypes DEF ValuedPhones, WrittenPhones
<1>6. NoNumber \notin Numbers
  BY AddressBookAssumption
<1>7. /\ number' \in [Phones -> Numbers \cup {NoNumber}]
      /\ want' \in [Phones -> Numbers \cup {NoNumber}]
  BY <1>1, <1>3, <1>5 DEF StateType, Saves
<1>8. Stored \cup written \subseteq Stored'
  BY <1>1, <1>3, <1>5, <1>6 DEF StateType, Stored, Saves
<1>9. Rows(p, fresh) \subseteq Stored'
  <2>1. ASSUME NEW i \in DOMAIN Items(p), Items(p)[i].id # New
        PROVE  RowOf(p, i, fresh) \in Stored
    BY <1>1, <1>2, <2>1 DEF JobFits, RowOf, Items, Kind
  <2>2. ASSUME NEW i \in DOMAIN Items(p), Items(p)[i].id = New
        PROVE  RowOf(p, i, fresh) \in Stored \cup written
    <3>1. RowOf(p, i, fresh) = fresh
      BY <2>2 DEF RowOf
    <3>2. fresh \in Phones
      BY <2>2, <1>2, <1>4, FreshRow DEF Fresh
    <3>3. Items(p)[i].value # Keep
      BY <1>2, <2>2, RequestTypes DEF Items, Kind
    <3>4. i \in Valued(p, fresh, fresh)
      BY <3>1, <3>3 DEF Valued
    <3>5. fresh \notin job[p].seen => fresh \in written
      BY <3>2, <3>4 DEF ValuedPhones, WrittenPhones
    <3>6. fresh \in Fresh(p, unused) /\ fresh \in unused
      BY <1>2, <2>2, <3>2, FreshRow DEF Fresh
    <3>7. fresh \notin job[p].seen
      BY <1>1, <1>2, <3>6 DEF JobFits, Kind, Stored
    <3>8. QED
      BY <3>1, <3>5, <3>7
  <2>3. QED
    BY <1>8, <2>1, <2>2 DEF Rows
<1> DEFINE a == [job[p] EXCEPT !.at = "reload"]
<1> DEFINE b == [a EXCEPT !.seen = {}]
<1> DEFINE j == [b EXCEPT !.numbers = NoNumbers]
<1>10. JobFits(a, Stored) /\ a.at = "reload"
  <2>1. JobFits(a, Stored)
    BY <1>1, <1>2, GoFits DEF Kind, Steps
  <2>2. QED
    BY <1>2, <2>1 DEF Job
<1>11. b \in Job /\ j \in Job
  <2>1. b \in Job
    BY <1>10, JobField DEF JobFits
  <2>2. NoNumbers \in [Phones -> Numbers \cup {NoNumber}]
    BY DEF NoNumbers
  <2>3. QED
    BY <2>1, <2>2, JobField
<1>12. /\ j.request = a.request /\ j.at = a.at /\ j.next = a.next
       /\ j.todo = a.todo /\ j.account = a.account
  BY <1>10, SMT DEF JobFits, Job
<1>13. JobStep(p, j)
  <2>1. written \in SUBSET Phones
    BY <1>5
  <2>2. job' = [q \in Processes |-> IF q = p THEN j ELSE
                   [job[q] EXCEPT !.old = @ \cup (job[q].todo \cap written)]]
    BY <1>3 DEF Saves
  <2> HIDE DEF written, j
  <2>3. QED
    BY <1>1, <2>1, <2>2, JobSteps
<1> HIDE DEF j
<1>14. JobFits(j, Stored)
  BY <1>10, <1>11, <1>12, SameFits
<1>15. JobFits(j, Stored')
  BY <1>8, <1>14 DEF JobFits
<1>16. StateType'
  <2>1. linked' \subseteq Stored'
    BY <1>1, <1>3, <1>8, <1>9 DEF StateType, Saves
  <2>2. lock' \in Processes \cup {Nobody} /\ deleted' \in BOOLEAN
    BY <1>2, JobParts DEF CommitNumbers, Unlock
  <2>3. mixed' \subseteq Phones
    BY <1>1, <1>3 DEF StateType, Saves
  <2>4. UNCHANGED <<scenario, accounts, apart, functions, begun, asked, revived,
                    raced, listed, died>>
    BY DEF CommitNumbers, book
  <2>5. QED
    BY <1>1, <1>7, <2>1, <2>2, <2>3, <2>4 DEF StateType
<1>17. QED
  BY <1>8, <1>13, <1>15, <1>16, StepType

\* Leaving with nothing in hand, or with a job that fits, while the state changes.
LEMMA WriteType ==
    ASSUME TypeInv, NEW p \in Processes, NEW j, JobStep(p, j), JobFits(j, Stored),
           StateType', number' = number
    PROVE  TypeInv'
<1>1. Stored' = Stored
  BY DEF Stored
<1>2. QED
  BY <1>1, StepType

\* What a list makes of the accounts.
Written(p, fresh) ==
    {RowOf(p, i, fresh) : i \in {k \in DOMAIN Items(p) :
        Dirty(p, k) \/ Assigned(p, k) \/ Items(p)[k].id = New}}
Reloads(p) == [job[p] EXCEPT !.at = "reload", !.seen = {}, !.rows = NoRows]

\* CommitAccounts without the rows it writes.
CommitLinks(p, fresh) ==
    /\ functions' = (functions \cup Rows(p, fresh)) \ Dropped(p)
    /\ asked' = IF job[p].request.put THEN Rows(p, fresh)
                ELSE (asked \cup Rows(p, fresh)) \ Flagged(p)
    /\ revived' = revived \ Dropped(p)
    /\ raced' = (raced \/ (job[p].stale /\ Written(p, fresh) # {}))
    /\ Overtake(p, Reloads(p), Written(p, fresh), Dropped(p))

CommitRows(p, fresh) ==
    LET saved == {k \in DOMAIN Items(p) :
                      Dirty(p, k) \/ Assigned(p, k) \/ Items(p)[k].id = New}
    IN  \E name \in [saved -> Names \cup {NoName}] :
            /\ \A i \in saved : name[i] \in NamesFor(p, i)
            /\ accounts' = [a \in Accounts |->
                   IF a \notin Written(p, fresh) THEN accounts[a]
                   ELSE [job[p].rows[a] EXCEPT !.name =
                       name[CHOOSE i \in saved : RowOf(p, i, fresh) = a]]]

LEMMA CommitAccountsParts ==
    ASSUME NEW p \in Processes, CommitAccounts(p)
    PROVE  /\ Kind(p) = "works" /\ job[p].at = "commit" /\ ~Collides(p)
           /\ lock' = Nobody /\ deleted' = job[p].erased
           /\ \E fresh \in Fresh(p, {a \in Accounts : accounts[a].name = NoName}) :
                  CommitLinks(p, fresh) /\ CommitRows(p, fresh)
           /\ listed' = (listed \/ (Len(Items(p)) > 1 /\ \E i \in DOMAIN Items(p) :
                                         Items(p)[i].value # Keep))
           /\ UNCHANGED <<scenario, number, linked, apart, begun, want, mixed, died>>
BY Zenon DEF CommitAccounts, At, Unlock, CommitLinks, CommitRows, Written, Reloads, phones

LEMMA ReloadsFits ==
    ASSUME NEW p, NEW stored, JobFits(job[p], stored), job[p].at # "format"
    PROVE  JobFits(Reloads(p), stored)
<1> DEFINE a == [job[p] EXCEPT !.at = "reload"]
<1> DEFINE b == [a EXCEPT !.seen = {}]
<1> DEFINE j == [b EXCEPT !.rows = NoRows]
<1>1. NoRows \in [Accounts -> Row]
  BY DEF NoRows, NoRow, Row
<1>2. JobFits(a, stored) /\ a.at = "reload"
  <2>1. JobFits(a, stored)
    BY GoFits DEF Steps
  <2>2. QED
    BY <2>1 DEF JobFits, Job
<1>3. b \in Job
  BY <1>2, JobField DEF JobFits
<1>4. j \in Job
  BY <1>1, <1>3, JobField
<1>5. /\ j.request = a.request /\ j.at = a.at /\ j.next = a.next
      /\ j.numbers = a.numbers /\ j.todo = a.todo /\ j.account = a.account
  BY <1>2, SMT DEF JobFits, Job
<1>6. j = Reloads(p)
  BY DEF Reloads
<1> HIDE DEF j
<1>7. JobFits(j, stored)
  BY <1>2, <1>4, <1>5, SameFits
<1>8. QED
  BY <1>6, <1>7

LEMMA RowUpdates ==
    ASSUME NEW r \in Row, NEW n \in Names \cup {NoName}, NEW b \in BOOLEAN
    PROVE  /\ [r EXCEPT !.name = n] \in Row
           /\ [r EXCEPT !.deleted = b] \in Row
BY SMT DEF Row

LEMMA CommitAccountsType ==
    ASSUME TypeInv, NEW p \in Processes, CommitAccounts(p)
    PROVE  TypeInv'
<1>1. StateType /\ job \in [Processes -> Job] /\ JobFits(job[p], Stored)
  BY TypeParts
<1>2. Kind(p) = "works" /\ job[p] \in Job
  BY <1>1, CommitAccountsParts DEF JobFits
<1>3. PICK fresh \in Fresh(p, {a \in Accounts : accounts[a].name = NoName}) :
          CommitLinks(p, fresh) /\ CommitRows(p, fresh)
  BY CommitAccountsParts
<1>4. Rows(p, fresh) \subseteq Accounts
  <2>1. fresh \in Accounts \cup {New} /\ (fresh \in Accounts \/ New \notin Rows(p, fresh))
    BY FreshRow
  <2>2. Rows(p, fresh) \subseteq Accounts \cup {fresh}
    BY <1>2, <2>1, ListTypes
  <2>3. QED
    BY <2>1, <2>2
<1>5. accounts' \in [Accounts -> Row]
  <2> DEFINE saved == {k \in DOMAIN Items(p) :
                           Dirty(p, k) \/ Assigned(p, k) \/ Items(p)[k].id = New}
  <2>1. PICK name \in [saved -> Names \cup {NoName}] :
            accounts' = [a \in Accounts |->
                IF a \notin Written(p, fresh) THEN accounts[a]
                ELSE [job[p].rows[a] EXCEPT !.name =
                    name[CHOOSE i \in saved : RowOf(p, i, fresh) = a]]]
    BY <1>3, Zenon DEF CommitRows
  <2>2. ASSUME NEW a \in Accounts, a \in Written(p, fresh)
        PROVE  name[CHOOSE i \in saved : RowOf(p, i, fresh) = a] \in Names \cup {NoName}
    <3>1. \E i \in saved : RowOf(p, i, fresh) = a
      BY <2>2 DEF Written
    <3>2. (CHOOSE i \in saved : RowOf(p, i, fresh) = a) \in saved
      BY <3>1, Zenon
    <3> HIDE DEF saved
    <3>3. QED
      BY <3>2
  <2>3. \A a \in Accounts : job[p].rows[a] \in Row /\ accounts[a] \in Row
    BY <1>1, <1>2, JobParts DEF StateType
  <2> HIDE DEF saved
  <2>4. \A a \in Accounts : a \in Written(p, fresh) =>
            [job[p].rows[a] EXCEPT !.name =
                name[CHOOSE i \in saved : RowOf(p, i, fresh) = a]] \in Row
    BY <2>2, <2>3, RowUpdates
  <2>5. QED
    BY <2>1, <2>3, <2>4
<1>6. functions' \subseteq Accounts /\ asked' \subseteq Accounts /\ revived' \subseteq Accounts
  BY <1>1, <1>3, <1>4 DEF CommitLinks, StateType
<1>7. raced' \in BOOLEAN /\ listed' \in BOOLEAN
  BY <1>1, <1>3, CommitAccountsParts DEF CommitLinks, StateType
<1>8. StateType'
  <2>1. job[p].erased \in BOOLEAN
    BY <1>2, JobParts
  <2>2. QED
    BY <1>1, <1>5, <1>6, <1>7, <2>1, CommitAccountsParts DEF StateType, Stored
<1>9. JobStep(p, Reloads(p))
  BY <1>1, <1>3, JobSteps DEF CommitLinks
<1>10. number' = number
  BY CommitAccountsParts
<1>11. JobFits(Reloads(p), Stored)
  BY <1>1, CommitAccountsParts, ReloadsFits
<1>12. QED
  BY <1>8, <1>9, <1>10, <1>11, WriteType

\* Steps after which the process is idle.
LEMMA IdleStep ==
    ASSUME TypeInv, NEW p \in Processes, JobStep(p, Idle), StateType', number' = number
    PROVE  TypeInv'
BY IdleFits, WriteType

LEMMA EndType ==
    ASSUME TypeInv, NEW p \in Processes,
           RollBack(p) \/ DeleteContact(p) \/ SaveFunction(p) \/ SaveAccount(p) \/ Die(p)
    PROVE  TypeInv'
<1>1. /\ StateType /\ job \in [Processes -> Job] /\ job[p] \in Job
      /\ JobFits(job[p], Stored)
  BY TypeParts
<1>2. CASE RollBack(p)
  <2>1. JobStep(p, Idle)
    BY <1>1, <1>2, JobSteps DEF RollBack, Finish
  <2>2. StateType' /\ number' = number
    BY <1>1, <1>2 DEF RollBack, StateType, Stored, phones, book, history
  <2>3. QED
    BY <2>1, <2>2, IdleStep
<1>3. CASE DeleteContact(p)
  <2>1. JobStep(p, Idle)
    BY <1>1, <1>3, JobSteps DEF DeleteContact, Finish
  <2>2. StateType' /\ number' = number
    BY <1>1, <1>3 DEF DeleteContact, StateType, Stored, phones, book, history
  <2>3. QED
    BY <2>1, <2>2, IdleStep
<1>4. CASE SaveFunction(p)
  <2>1. JobStep(p, Idle)
    BY <1>1, <1>4, JobSteps DEF SaveFunction, Finish
  <2>2. Subject(p) \in Accounts
    BY <1>1, <1>4, SubjectType DEF SaveFunction, At, Kind, Subject, Items
  <2>3. StateType' /\ number' = number
    BY <1>1, <1>4, <2>2 DEF SaveFunction, StateType, Stored, phones, book
  <2>4. QED
    BY <2>1, <2>3, IdleStep
<1>5. CASE SaveAccount(p)
  <2>1. JobStep(p, Idle)
    BY <1>1, <1>5, JobSteps DEF SaveAccount
  <2>2. /\ Subject(p) \in Accounts
        /\ ~Items(p)[1].remove => Items(p)[1].value \in Names
    BY <1>1, <1>5, SubjectType DEF SaveAccount, At, Kind, Subject, Items
  <2>3. job[p].rows[Subject(p)] \in Row
    BY <1>1, <2>2, JobParts
  <2>4. accounts' \in [Accounts -> Row]
    BY <1>1, <1>5, <2>2, <2>3, RowUpdates DEF SaveAccount, StateType
  <2>5. StateType' /\ number' = number
    BY <1>1, <1>5, <2>4 DEF SaveAccount, StateType, Stored, phones
  <2>6. QED
    BY <2>1, <2>5, IdleStep
<1>6. CASE Die(p)
  <2>1. JobStep(p, Idle)
    BY <1>1, <1>6, JobSteps DEF Die, Finish
  <2>3. lock' \in Processes \cup {Nobody}
    BY <1>1, <1>6 DEF Die, StateType
  <2>4. StateType' /\ number' = number
    BY <1>1, <1>6, <2>3 DEF Die, StateType, Stored, phones, book
  <2>5. QED
    BY <2>1, <2>4, IdleStep
<1>7. QED
  BY <1>2, <1>3, <1>4, <1>5, <1>6

LEMMA FormatNumberType ==
    ASSUME TypeInv, NEW p \in Processes, FormatNumber(p)
    PROVE  TypeInv'
<1>1. StateType /\ job \in [Processes -> Job] /\ JobFits(job[p], Stored)
  BY TypeParts
<1>2. job[p] \in Job /\ job[p].at = "format"
  BY <1>1 DEF FormatNumber, JobFits
<1>3. PICK ph \in job[p].todo :
          /\ number' = [number EXCEPT ![ph] = Format[job[p].numbers[ph]]]
          /\ mixed' = IF ph \in job[p].old THEN mixed \cup {ph} ELSE mixed
          /\ Become(p, [job[p] EXCEPT !.todo = @ \ {ph}, !.old = @ \ {ph}])
  BY DEF FormatNumber
<1>4. ph \in Phones /\ ph \in Stored /\ job[p].numbers[ph] \in Numbers
  BY <1>1, <1>2, JobParts DEF JobFits
<1>5. /\ Format[job[p].numbers[ph]] \in Numbers /\ NoNumber \notin Numbers
  BY <1>4, AddressBookAssumption
<1>6. number' \in [Phones -> Numbers \cup {NoNumber}] /\ Stored' = Stored
  BY <1>1, <1>3, <1>4, <1>5 DEF StateType, Stored
<1> DEFINE t == job[p].todo \ {ph}
<1> DEFINE o == job[p].old \ {ph}
<1> DEFINE a == [job[p] EXCEPT !.todo = t]
<1> DEFINE j == [a EXCEPT !.old = o]
<1>7. t \in SUBSET Phones /\ o \in SUBSET Phones
  BY <1>2, JobParts
<1>8. Become(p, j)
  BY <1>3
<1>9. t \subseteq job[p].todo
  OBVIOUS
<1> HIDE DEF t, o
<1>10. a \in Job
  BY <1>2, <1>7, JobField
<1>11. j \in Job
  BY <1>7, <1>10, JobField
<1>12. /\ j.request = job[p].request /\ j.at = job[p].at /\ j.next = job[p].next
       /\ j.numbers = job[p].numbers /\ j.account = job[p].account /\ j.todo = t
  BY <1>2, SMT DEF Job
<1> HIDE DEF j
<1>13. JobFits(j, Stored)
  BY <1>1, <1>2, <1>9, <1>11, <1>12 DEF JobFits
<1>14. StateType'
  BY <1>1, <1>3, <1>4, <1>6 DEF FormatNumber, StateType, book
<1>15. JobStep(p, j)
  BY <1>1, <1>8, JobSteps
<1>16. QED
  BY <1>6, <1>13, <1>14, <1>15, StepType

LEMMA NameType ==
    ASSUME NEW p, JobFits(job[p], Stored), Kind(p) = "import",
           job[p].at \in {"create", "link"}
    PROVE  Name(p) \in Names
<1>1. job[p] \in Job /\ job[p].next \in Nat \ {0}
  BY JobParts DEF JobFits
<1>2. job[p].next <= Len(Items(p)) /\ Items(p) \in Seq(Item)
  BY <1>1, RequestLength DEF JobFits, Kind, Items
<1>3. job[p].next \in DOMAIN Items(p)
  BY <1>1, <1>2
<1>4. QED
  BY <1>1, <1>3, RequestTypes DEF Name, Kind, Items

LEMMA ImportType ==
    ASSUME TypeInv, NEW p \in Processes,
           CreateAccount(p) \/ LinkDetail(p) \/ StoreAgain(p)
    PROVE  TypeInv'
<1>1. StateType /\ job \in [Processes -> Job] /\ JobFits(job[p], Stored)
  BY TypeParts
<1>2. /\ job[p] \in Job /\ Kind(p) = "import" /\ job[p].at \in {"create", "link"}
      /\ New \notin Accounts
  BY <1>1, AddressBookAssumption DEF JobFits, CreateAccount, LinkDetail, StoreAgain, At
<1>3. Name(p) \in Names /\ [name |-> Name(p), deleted |-> FALSE] \in Row
  BY <1>1, <1>2, NameType DEF Row
<1>4. CASE CreateAccount(p)
  <2>1. PICK a \in Accounts, found \in SUBSET Details :
           /\ accounts' = [accounts EXCEPT ![a] = [name |-> Name(p), deleted |-> FALSE]]
           /\ apart' = [apart EXCEPT ![a] = found]
           /\ raced' = (raced \/ job[p].stale)
           /\ Overtake(p, [job[p] EXCEPT !.account = a, !.at = "link"], {a}, {})
    BY <1>4 DEF CreateAccount
  <2> DEFINE b == [job[p] EXCEPT !.account = a]
  <2> DEFINE j == [b EXCEPT !.at = "link"]
  <2>2. b \in Job
    BY <1>2, JobField
  <2>3. /\ b.request = job[p].request /\ b.at = job[p].at /\ b.next = job[p].next
        /\ b.seen = job[p].seen
        /\ b.numbers = job[p].numbers /\ b.todo = job[p].todo /\ b.account = a
    BY <1>2, SMT DEF Job
  <2>4. JobFits(b, Stored) /\ b.next <= Len(b.request.items) /\ b.request.kind = "import"
    BY <1>1, <1>2, <2>2, <2>3 DEF JobFits, Kind
  <2> HIDE DEF b
  <2>5. JobFits(j, Stored)
    BY <1>2, <2>3, <2>4, GoFits DEF Steps
  <2>6. JobStep(p, j)
    BY <1>1, <2>1, JobSteps DEF b
  <2>7. StateType' /\ number' = number
    BY <1>1, <1>3, <1>4, <2>1 DEF CreateAccount, StateType, Stored, phones
  <2>8. QED
    BY <2>5, <2>6, <2>7, WriteType
<1>5. CASE LinkDetail(p)
  <2>1. PICK d \in apart[job[p].account] :
            apart' = [apart EXCEPT ![job[p].account] = @ \ {d}]
    BY <1>5 DEF LinkDetail
  <2>2. apart' \in [Accounts -> SUBSET Details]
    BY <1>1, <2>1 DEF StateType
  <2>3. StateType' /\ Stored' = Stored /\ job' = job
    BY <1>1, <1>5, <2>2 DEF LinkDetail, StateType, Stored, phones, history
  <2>4. JobStep(p, job[p])
    <3>1. \A q \in Processes : job[q] \in Job
      BY <1>1
    <3>2. \A q \in Processes : Noticed(job[q], job[q])
      BY <3>1 DEF Noticed
    <3>3. QED
      BY <1>1, <2>3, <3>2 DEF JobStep
  <2>5. QED
    BY <1>1, <2>3, <2>4, StepType
<1>6. CASE StoreAgain(p)
  <2>1. JobFits(NextRow(p), Stored)
    BY <1>1, <1>2, NextRowFits
  <2>2. JobStep(p, NextRow(p))
    BY <1>1, <1>6, JobSteps DEF StoreAgain
  <2>3. StateType' /\ number' = number
    BY <1>1, <1>3, <1>6 DEF StoreAgain, StateType, Stored, phones
  <2>4. QED
    BY <2>1, <2>2, <2>3, WriteType
<1>7. QED
  BY <1>4, <1>5, <1>6

LEMMA StutterType == ASSUME TypeInv, UNCHANGED vars PROVE TypeInv'
<1>1. StateType /\ job \in [Processes -> Job] /\ \A p \in Processes : JobFits(job[p], Stored)
  BY TypeParts
<1>2. StateType' /\ Stored' = Stored /\ job' = job
  BY <1>1 DEF StateType, Stored, vars, allButJob, phones, book, history
<1>3. (job \in [Processes -> Job])'
  BY <1>1, <1>2 DEF Job, Row, Requests, Request, WellFormed, ItemsFit, Item
<1>4. (\A p \in Processes : JobFits(job[p], Stored))'
  BY <1>1, <1>2, ZenonT(60) DEF JobFits, Job, Row, Requests, Request, WellFormed, ItemsFit, Item
<1>5. QED
  BY <1>2, <1>3, <1>4, TypeParts

LEMMA NextType == ASSUME TypeInv, [Next]_vars PROVE TypeInv'
<1>1. ASSUME NEW p \in Processes, Begin(p) PROVE TypeInv'
  BY <1>1, BeginType
<1>2. ASSUME NEW p \in Processes,
           \/ LoadContact(p) \/ CheckNumbers(p) \/ CheckAccounts(p) \/ LoadNumbers(p)
           \/ EndSave(p) \/ LoadFunction(p) \/ LoadAccount(p) \/ CheckName(p)
           \/ LookUp(p) \/ CreateFails(p) \/ LinkFails(p)
      PROVE  TypeInv'
  BY <1>2, ReadType
<1>3. ASSUME NEW p \in Processes,
           Lock(p) \/ CommitNumbers(p) \/ CommitAccounts(p) \/ FormatNumber(p)
      PROVE  TypeInv'
  BY <1>3, LockType, CommitNumbersType, CommitAccountsType, FormatNumberType
<1>4. ASSUME NEW p \in Processes,
           RollBack(p) \/ DeleteContact(p) \/ SaveFunction(p) \/ SaveAccount(p) \/ Die(p)
      PROVE  TypeInv'
  BY <1>4, EndType
<1>5. ASSUME NEW p \in Processes, CreateAccount(p) \/ LinkDetail(p) \/ StoreAgain(p)
      PROVE  TypeInv'
  BY <1>5, ImportType
<1>6. CASE UNCHANGED vars
  BY <1>6, StutterType
<1>7. QED
  BY <1>1, <1>2, <1>3, <1>4, <1>5, <1>6, Zenon DEF Next

LEMMA TypeInvariant == Spec => []TypeInv
<1>1. Init => TypeInv
  BY InitType
<1>2. TypeInv /\ [Next]_vars => TypeInv'
  BY NextType
<1>3. QED
  BY <1>1, <1>2, PTL DEF Spec

\* Every variable keeps its type; a phone number the contact has is stored.
THEOREM TypeCorrect == Spec => []TypeOK
<1>1. TypeInv => TypeOK
  BY DEF TypeInv
<1>2. QED
  BY <1>1, TypeInvariant, PTL
-----------------------------------------------------------------------------
(* The transaction of a save.                                              *)

\* What a process may do.
Act(p) ==
    \/ Begin(p)
    \/ LoadContact(p) \/ CheckNumbers(p) \/ CheckAccounts(p) \/ Lock(p)
    \/ CommitNumbers(p) \/ CommitAccounts(p) \/ RollBack(p)
    \/ LoadNumbers(p) \/ FormatNumber(p) \/ EndSave(p) \/ DeleteContact(p)
    \/ LoadFunction(p) \/ SaveFunction(p)
    \/ LoadAccount(p) \/ CheckName(p) \/ SaveAccount(p)
    \/ LookUp(p) \/ CreateAccount(p) \/ CreateFails(p) \/ LinkDetail(p)
    \/ LinkFails(p) \/ StoreAgain(p)
    \/ Die(p)

LEMMA NextActs == Next <=> \E p \in Processes : Act(p)
BY Zenon DEF Next, Act

\* A step changes the job of its process, and flags of the others.
LEMMA ActFrame ==
    ASSUME TypeInv, NEW p \in Processes, Act(p)
    PROVE  JobStep(p, job'[p]) /\ \A q \in Processes \ {p} : Noticed(job[q], job'[q])
<1>1. job \in [Processes -> Job]
  BY TypeParts
<1>2. ASSUME NEW j, JobStep(p, j) PROVE JobStep(p, job'[p])
  BY <1>2 DEF JobStep
<1>3. CASE \/ Begin(p) \/ LoadContact(p) \/ CheckAccounts(p) \/ Lock(p) \/ LoadNumbers(p)
           \/ LoadAccount(p)
  <2>1. \E j : Become(p, j)
    BY <1>3, ZenonT(60) DEF Begin, LoadContact, CheckAccounts, Lock, LoadNumbers,
                            LoadAccount, Finish
  <2>2. QED
    BY <1>1, <1>2, <2>1, JobSteps DEF JobStep
<1>4. CASE \/ DeleteContact(p) \/ CheckNumbers(p) \/ RollBack(p) \/ FormatNumber(p)
           \/ EndSave(p) \/ LoadFunction(p) \/ SaveFunction(p) \/ CheckName(p)
           \/ LookUp(p) \/ CreateFails(p) \/ LinkFails(p) \/ Die(p)
  <2>1. \E j : Become(p, j)
    BY <1>4 DEF DeleteContact, CheckNumbers, RollBack, FormatNumber, EndSave, LoadFunction,
                SaveFunction, CheckName, LookUp, CreateFails, LinkFails, Die, Finish, Goto
  <2>2. QED
    BY <1>1, <1>2, <2>1, JobSteps DEF JobStep
<1>5. CASE CommitAccounts(p) \/ SaveAccount(p) \/ CreateAccount(p) \/ StoreAgain(p)
  <2>1. \E j, w, r : Overtake(p, j, w, r)
    BY <1>5, Zenon DEF CommitAccounts, SaveAccount, CreateAccount, StoreAgain
  <2>2. QED
    BY <1>1, <1>2, <2>1, JobSteps DEF JobStep
<1>6. CASE CommitNumbers(p)
  <2>1. PICK fresh : Saves(p, fresh)
    BY <1>6, CommitNumbersParts
  <2>2. WrittenPhones(p, fresh) \in SUBSET Phones
    BY DEF ValuedPhones, WrittenPhones
  <2>3. PICK j : job' = [q \in Processes |-> IF q = p THEN j ELSE
                     [job[q] EXCEPT !.old = @ \cup (job[q].todo \cap WrittenPhones(p, fresh))]]
    BY <2>1, Zenon DEF Saves
  <2>4. JobStep(p, j)
    BY <1>1, <2>2, <2>3, JobSteps
  <2>5. QED
    BY <1>2, <2>4 DEF JobStep
<1>7. CASE LinkDetail(p)
  <2>1. job' = job
    BY <1>7 DEF LinkDetail
  <2>2. \A q \in Processes : Noticed(job[q], job[q])
    BY <1>1, Zenon DEF Noticed
  <2>3. QED
    BY <1>1, <2>1, <2>2 DEF JobStep
<1>8. QED
  BY <1>3, <1>4, <1>5, <1>6, <1>7 DEF Act

LEMMA JobAfter ==
    ASSUME job \in [Processes -> Job], NEW p \in Processes
    PROVE  /\ \A j : Become(p, j) => job'[p] = j
           /\ \A j, w, r : Overtake(p, j, w, r) => job'[p] = j
           /\ \A s : Goto(p, s) => job'[p] = [job[p] EXCEPT !.at = s]
           /\ Finish(p) => job'[p] = Idle
BY DEF Become, Overtake, Goto, Finish

\* The jobs that steps leave behind.
LEMMA NextRowFields ==
    ASSUME NEW p, job[p] \in Job
    PROVE  /\ NextRow(p).request = job[p].request /\ NextRow(p).at = "look"
           /\ NextRow(p).stale = FALSE
BY SMT DEF Job, NextRow

LEMMA ReloadFields ==
    ASSUME NEW p, job[p] \in Job
    PROVE  /\ Reloads(p).at = "reload" /\ Reloads(p).request = job[p].request
           /\ [job[p] EXCEPT !.at = "reload", !.seen = {}, !.numbers = NoNumbers].at = "reload"
BY SMT DEF Job, Reloads

\* The stages of a save until it commits.
Unsaved == {"check", "lock", "commit"}

\* Where the steps take the job of their process.
LEMMA Landings ==
    ASSUME TypeInv, NEW p \in Processes, Act(p)
    PROVE  \/ job'[p].at \in {"idle", "load", "look", "reload"}
           \/ (LoadNumbers(p) \/ FormatNumber(p)) /\ job'[p].at = "format"
           \/ LookUp(p) /\ job'[p].at = "create" /\ job'[p] = [job[p] EXCEPT !.at = "create"]
           \/ CreateAccount(p) /\ job'[p].at = "link"
           \/ LinkDetail(p) /\ job'[p].at = "link" /\ job'[p] = job[p]
           \/ /\ job'[p].request = job[p].request
              /\ \/ LoadContact(p) /\ job'[p].at \in {"check", "write"}
                 \/ CheckNumbers(p) /\ job'[p].at = "lock"
                 \/ CheckAccounts(p) /\ job'[p].at = "lock"
                 \/ Lock(p) /\ job'[p].at = "commit"
                 \/ (LoadFunction(p) \/ CheckName(p)) /\ job'[p].at = "write"
                 \/ LoadAccount(p) /\ job'[p].at \in {"check", "write"}
<1>1. job \in [Processes -> Job] /\ job[p] \in Job
  BY TypeParts
<1>2. Idle.at = "idle"
  BY DEF Idle
<1>3. CASE \/ RollBack(p) \/ EndSave(p) \/ DeleteContact(p) \/ SaveFunction(p)
           \/ SaveAccount(p) \/ Die(p)
  <2>1. job'[p] = Idle
    BY <1>1, <1>3, JobAfter DEF RollBack, EndSave, DeleteContact, SaveFunction,
                                SaveAccount, Die
  <2>2. QED
    BY <1>2, <2>1
<1>4. CASE Begin(p)
  <2>1. PICK r, k : Become(p, k) /\ k = [Idle EXCEPT !.request = r, !.at =
                          IF r.kind = "import" THEN "look" ELSE "load"]
    BY <1>4, Zenon DEF Begin
  <2>2. k.at \in {"look", "load"}
    BY <2>1 DEF Idle
  <2>3. QED
    BY <1>1, <2>1, <2>2, JobAfter
<1>5. CASE LoadNumbers(p) \/ FormatNumber(p)
  <2>1. job'[p].at \in {"format", "idle"}
    <3>1. CASE LoadNumbers(p)
      <4>1. PICK k : /\ Become(p, k)
                     /\ \/ k = Idle
                        \/ k = [job[p] EXCEPT !.at = "format", !.todo = linked,
                                   !.old = {}, !.numbers = LinkedNumbers]
        BY <3>1, Zenon DEF LoadNumbers, Finish
      <4>2. k = Idle => k.at = "idle"
        BY <1>2
      <4>3. k # Idle => k.at = "format"
        <5>1. [job[p] EXCEPT !.at = "format", !.todo = linked,
                             !.old = {}, !.numbers = LinkedNumbers].at = "format"
          BY <1>1, SMT DEF Job
        <5>2. QED
          BY <4>1, <5>1, Zenon
      <4>4. job'[p] = k
        BY <1>1, <4>1, JobAfter
      <4>5. QED
        BY <4>2, <4>3, <4>4
    <3>2. CASE FormatNumber(p)
      <4>1. PICK ph, k : Become(p, k) /\ job[p].at = "format"
                         /\ k = [job[p] EXCEPT !.todo = @ \ {ph}, !.old = @ \ {ph}]
        BY <3>2, Zenon DEF FormatNumber
      <4>2. k.at = "format"
        BY <1>1, <4>1, SMT DEF Job
      <4>3. QED
        BY <1>1, <4>1, <4>2, JobAfter
    <3>3. QED
      BY <1>5, <3>1, <3>2
  <2>2. QED
    BY <1>5, <2>1
<1>6. CASE CommitNumbers(p) \/ CommitAccounts(p)
  <2>1. job'[p].at = "reload"
    <3>1. ASSUME NEW fresh, Saves(p, fresh) PROVE job'[p].at = "reload"
      <4>1. job'[p] = [job[p] EXCEPT !.at = "reload", !.seen = {}, !.numbers = NoNumbers]
        BY <3>1 DEF Saves
      <4>2. QED
        BY <1>1, <4>1, ReloadFields
    <3>2. ASSUME NEW fresh, CommitLinks(p, fresh) PROVE job'[p].at = "reload"
      <4>1. job'[p] = Reloads(p)
        BY <1>1, <3>2, JobAfter DEF CommitLinks
      <4>2. QED
        BY <1>1, <4>1, ReloadFields
    <3>3. QED
      BY <1>6, <3>1, <3>2, CommitNumbersParts, CommitAccountsParts
  <2>2. QED
    BY <2>1
<1>7. CASE \/ LookUp(p) \/ CreateFails(p) \/ LinkDetail(p) \/ LinkFails(p)
           \/ CreateAccount(p) \/ StoreAgain(p)
  <2>1. \/ job'[p] = Idle
        \/ job'[p] = NextRow(p)
        \/ LookUp(p) /\ job'[p] = [job[p] EXCEPT !.at = "create"]
        \/ LinkDetail(p) /\ job'[p] = job[p] /\ job[p].at = "link"
        \/ CreateAccount(p) /\ \E a : job'[p] = [job[p] EXCEPT !.account = a, !.at = "link"]
    <3>1. CASE LookUp(p) \/ CreateFails(p)
      BY <1>1, <3>1, JobAfter DEF LookUp, CreateFails
    <3>2. CASE LinkDetail(p) \/ LinkFails(p)
      BY <1>1, <3>2, JobAfter DEF LinkDetail, LinkFails, At
    <3>3. CASE CreateAccount(p) \/ StoreAgain(p)
      BY <1>1, <3>3, JobAfter, Zenon DEF CreateAccount, StoreAgain
    <3>4. QED
      BY <1>7, <3>1, <3>2, <3>3
  <2>2. [job[p] EXCEPT !.at = "create"].at = "create"
    BY <1>1, SMT DEF Job
  <2>3. ASSUME NEW a, job'[p] = [job[p] EXCEPT !.account = a, !.at = "link"]
        PROVE  job'[p].at = "link"
    BY <1>1, <2>3, SMT DEF Job
  <2>4. QED
    BY <1>1, <1>2, <2>1, <2>2, <2>3, NextRowFields, ZenonT(60)
<1>8. CASE LoadContact(p)
  <2> DEFINE s == IF Saving(p) THEN "check" ELSE "write"
  <2>1. job'[p] = Idle \/ job'[p] = [job[p] EXCEPT !.erased = deleted, !.at = s]
    BY <1>1, <1>8, JobAfter DEF LoadContact
  <2>2. s \in {"check", "write"}
    OBVIOUS
  <2> HIDE DEF s
  <2>3. CASE job'[p] = [job[p] EXCEPT !.erased = deleted, !.at = s]
    <3>1. job'[p].request = job[p].request /\ job'[p].at = s
      BY <1>1, <2>3, SMT DEF Job
    <3>2. QED
      BY <1>8, <2>2, <3>1
  <2>4. QED
    BY <1>2, <2>1, <2>3
<1>9. CASE CheckNumbers(p)
  <2>1. job'[p] = Idle \/ job'[p] = [job[p] EXCEPT !.at = "lock"]
    BY <1>1, <1>9, JobAfter DEF CheckNumbers
  <2>2. QED
    BY <1>1, <1>2, <1>9, <2>1, SMT DEF Job
<1>10. CASE CheckAccounts(p)
  <2>1. job'[p] = Idle \/ job'[p] = [job[p] EXCEPT !.at = "lock", !.stale = FALSE]
    BY <1>1, <1>10, JobAfter DEF CheckAccounts
  <2>2. CASE job'[p] = Idle
    BY <1>2, <2>2
  <2>3. CASE job'[p] = [job[p] EXCEPT !.at = "lock", !.stale = FALSE]
    <3>1. job'[p].request = job[p].request
          /\ job'[p].at = "lock"
      BY <1>1, <2>3, SMT DEF Job
    <3>2. QED
      BY <1>10, <3>1
  <2>4. QED
    BY <2>1, <2>2, <2>3
<1>11. CASE Lock(p)
  <2>1. job'[p] = [job[p] EXCEPT !.at = "commit",
                  !.seen = IF Kind(p) = "numbers" THEN linked ELSE functions,
                  !.numbers = IF Kind(p) = "numbers" THEN LinkedNumbers ELSE NoNumbers,
                  !.rows = IF Kind(p) = "numbers" THEN NoRows ELSE accounts]
    BY <1>1, <1>11, JobAfter DEF Lock
  <2>2. QED
    BY <1>1, <1>11, <2>1, SMT DEF Job
<1>12. CASE LoadFunction(p) \/ CheckName(p)
  <2>1. job'[p] = Idle \/ job'[p] = [job[p] EXCEPT !.at = "write"]
    BY <1>1, <1>12, JobAfter DEF LoadFunction, CheckName
  <2>2. QED
    BY <1>1, <1>2, <1>12, <2>1, SMT DEF Job
<1>13. CASE LoadAccount(p)
  <2>1. \/ job'[p] = Idle
        \/ job'[p] = [job[p] EXCEPT !.rows = accounts,
                       !.at = IF Items(p)[1].remove THEN "write" ELSE "check"]
    BY <1>1, <1>13, JobAfter DEF LoadAccount
  <2> DEFINE s == IF Items(p)[1].remove THEN "write" ELSE "check"
  <2>2. s \in {"check", "write"}
    OBVIOUS
  <2>3. job'[p] = Idle \/ job'[p] = [job[p] EXCEPT !.rows = accounts, !.at = s]
    BY <2>1
  <2> HIDE DEF s
  <2>4. CASE job'[p] = [job[p] EXCEPT !.rows = accounts, !.at = s]
    <3>1. job'[p].request = job[p].request /\ job'[p].at = s
      BY <1>1, <2>4, SMT DEF Job
    <3>2. QED
      BY <1>13, <2>2, <3>1
  <2>5. QED
    BY <1>2, <2>3, <2>4
<1>14. QED
  BY <1>3, <1>4, <1>5, <1>6, <1>7, <1>8, <1>9, <1>10, <1>11, <1>12, <1>13 DEF Act

\* Which step takes a job to one of those stages, or to its write.
LEMMA Entered ==
    ASSUME TypeInv, NEW p \in Processes, Act(p), job'[p].at \in Unsaved \cup {"write"}
    PROVE  /\ job'[p].request = job[p].request
           /\ \/ LoadContact(p) /\ job'[p].at \in {"check", "write"}
              \/ CheckNumbers(p) /\ job'[p].at = "lock"
              \/ CheckAccounts(p) /\ job'[p].at = "lock"
              \/ Lock(p) /\ job'[p].at = "commit"
              \/ (LoadFunction(p) \/ CheckName(p)) /\ job'[p].at = "write"
              \/ LoadAccount(p) /\ job'[p].at \in {"check", "write"}
BY Landings DEF Unsaved

\* Saves are the requests that take the contact's row; who commits has it.
LockInv ==
    \A p \in Processes : /\ job[p].at \in {"lock", "commit"} => Saving(p)
                         /\ job[p].at = "commit" => lock = p

LEMMA LockStep ==
    ASSUME TypeInv, LockInv, [Next]_vars
    PROVE  LockInv'
<1>1. CASE UNCHANGED vars
  BY <1>1 DEF vars, allButJob, LockInv, Saving, Kind
<1>2. ASSUME NEW p \in Processes, Act(p) PROVE LockInv'
  <2>1. \A q \in Processes \ {p} : Noticed(job[q], job'[q])
    BY <1>2, ActFrame
  <2>2. \A q \in Processes \ {p} :
            job'[q].at = job[q].at /\ job'[q].request = job[q].request
    BY <2>1 DEF Noticed
  <2>3. job'[p].at \in {"lock", "commit"} =>
            /\ job'[p].request.kind \in {"numbers", "works"}
            /\ job'[p].at = "commit" => Lock(p)
    BY <1>2, Entered DEF Unsaved, LockInv, Saving, Kind, CheckNumbers, CheckAccounts, At, Lock
  <2>4. \A q \in Processes \ {p} : job[q].at = "commit" => lock' = q
    <3>1. CASE Lock(p)
      BY <3>1, AddressBookAssumption DEF Lock, LockInv
    <3>2. CASE CommitNumbers(p) \/ CommitAccounts(p) \/ RollBack(p)
      <4>1. job[p].at = "commit"
        BY <3>2, CommitAccountsParts DEF CommitNumbers, RollBack, At
      <4>2. QED
        BY <4>1 DEF LockInv
    <3>3. CASE Die(p)
      BY <3>3 DEF Die, LockInv
    <3>4. CASE \/ Begin(p) \/ LoadContact(p) \/ CheckNumbers(p) \/ CheckAccounts(p)
               \/ LoadNumbers(p) \/ FormatNumber(p) \/ EndSave(p) \/ DeleteContact(p)
               \/ LoadFunction(p) \/ SaveFunction(p) \/ LoadAccount(p) \/ CheckName(p)
               \/ SaveAccount(p) \/ LookUp(p) \/ CreateAccount(p) \/ CreateFails(p)
               \/ LinkDetail(p) \/ LinkFails(p) \/ StoreAgain(p)
      <4>1. lock' = lock
        BY <3>4 DEF Begin, LoadContact, CheckNumbers, CheckAccounts, LoadNumbers,
              FormatNumber, EndSave, DeleteContact, LoadFunction, SaveFunction, LoadAccount,
              CheckName, SaveAccount, LookUp, CreateAccount, CreateFails, LinkDetail,
              LinkFails, StoreAgain, allButJob
      <4>2. QED
        BY <4>1 DEF LockInv
    <3>5. QED
      BY <1>2, <3>1, <3>2, <3>3, <3>4 DEF Act
  <2>5. ASSUME NEW q \in Processes
        PROVE  /\ job'[q].at \in {"lock", "commit"} =>
                      job'[q].request.kind \in {"numbers", "works"}
               /\ job'[q].at = "commit" => lock' = q
    <3>1. CASE q = p
      BY <2>3, <3>1 DEF Lock
    <3>2. CASE q # p
      BY <2>2, <2>4, <3>2 DEF LockInv, Saving, Kind
    <3>3. QED
      BY <3>1, <3>2
  <2>6. QED
    BY <2>5 DEF LockInv, Saving, Kind
<1>3. QED
  BY <1>1, <1>2, NextActs

LEMMA LockInvariant == Spec => []LockInv
<1>1. Init => LockInv
  <2>1. Idle.at = "idle"
    BY DEF Idle
  <2>2. QED
    BY <2>1 DEF Init, LockInv
<1>2. TypeInv /\ LockInv /\ [Next]_vars => LockInv'
  BY LockStep
<1>3. QED
  BY <1>1, <1>2, TypeInvariant, PTL DEF Spec

-----------------------------------------------------------------------------
(* Where a contact works.  What a request mentions and what a Function is  *)
(* with has a name, so a new account is none of those a save removes.      *)

Named == {a \in Accounts : accounts[a].name # NoName}
Ids(j) == {j.request.items[i].id : i \in DOMAIN j.request.items} \ {New}

NamesFit(j, named) ==
    /\ j.request.kind = "works" /\ j.at \in {"lock", "commit"} => Ids(j) \subseteq named
    /\ j.request.kind = "works" /\ j.at = "commit" =>
           j.seen \subseteq named /\ \A a \in Ids(j) : j.rows[a].name # NoName
    /\ j.request.kind = "account" /\ j.at \in {"check", "write"} =>
           j.rows[j.request.items[1].id].name # NoName
    /\ j.request.kind = "toggle" /\ j.at = "write" => j.request.items[1].id \in named

\* Only a save that has the row changes the accounts the contact was saved with.
WorkInv ==
    /\ WorksWhereSaved
    /\ functions \subseteq Named
    /\ \A p \in Processes : NamesFit(job[p], Named)
    /\ \A p \in Processes : At(p, "works", "commit") => asked \subseteq job[p].seen

LEMMA NamesFitOn ==
    ASSUME NEW j, NEW k, NEW named, NEW more, NamesFit(j, named), Noticed(j, k),
           named \subseteq more
    PROVE  NamesFit(k, more)
<1>1. k.request = j.request /\ k.at = j.at /\ k.seen = j.seen /\ k.rows = j.rows
  BY DEF Noticed
<1>2. Ids(k) = Ids(j)
  BY <1>1 DEF Ids
<1>3. QED
  BY <1>1, <1>2 DEF NamesFit

\* The names that a list gives are names.
LEMMA NamesGiven ==
    ASSUME NEW p, job[p] \in Job, Kind(p) = "works", NEW i \in DOMAIN Items(p),
           \A a \in Ids(job[p]) : job[p].rows[a].name # NoName
    PROVE  \A n \in NamesFor(p, i) : n # NoName
<1>1. \A k \in DOMAIN Items(p) :
          /\ Items(p)[k].value \in Names \cup {Keep}
          /\ Items(p)[k].id = New => Items(p)[k].value # Keep
  BY RequestTypes DEF Kind, Items
<1>2. NoName \notin Names
  BY AddressBookAssumption
<1>3. LastInLoop(p) \subseteq Names
  BY <1>1 DEF LastInLoop, Dirty
<1>4. CASE Items(p)[i].value # Keep
  BY <1>1, <1>2, <1>4 DEF NamesFor
<1>5. CASE Items(p)[i].value = Keep
  <2>1. Items(p)[i].id \in Ids(job[p])
    BY <1>1, <1>5 DEF Ids, Items
  <2>2. job[p].rows[Items(p)[i].id].name # NoName
    BY <2>1
  <2>3. \A n \in NamesFor(p, i) :
            n \in Names \/ n \in LastInLoop(p) \/ n = job[p].rows[Items(p)[i].id].name
    BY <1>1, <1>5 DEF NamesFor
  <2>4. QED
    BY <1>2, <1>3, <2>2, <2>3
<1>6. QED
  BY <1>4, <1>5

\* An account keeps having a name.
LEMMA NamedStay ==
    ASSUME TypeInv, WorkInv, NEW p \in Processes, Act(p)
    PROVE  Named \subseteq Named'
<1>1. /\ StateType /\ job \in [Processes -> Job] /\ job[p] \in Job
      /\ JobFits(job[p], Stored) /\ NamesFit(job[p], Named) /\ NoName \notin Names
  BY TypeParts, AddressBookAssumption DEF WorkInv
<1>2. CASE CommitAccounts(p)
  <2>1. Kind(p) = "works" /\ job[p].at = "commit"
    BY <1>2, CommitAccountsParts
  <2>2. PICK fresh : CommitRows(p, fresh)
    BY <1>2, CommitAccountsParts
  <2> DEFINE saved == {k \in DOMAIN Items(p) :
                           Dirty(p, k) \/ Assigned(p, k) \/ Items(p)[k].id = New}
  <2>3. PICK name \in [saved -> Names \cup {NoName}] :
            /\ \A i \in saved : name[i] \in NamesFor(p, i)
            /\ accounts' = [a \in Accounts |->
                   IF a \notin Written(p, fresh) THEN accounts[a]
                   ELSE [job[p].rows[a] EXCEPT !.name =
                       name[CHOOSE i \in saved : RowOf(p, i, fresh) = a]]]
    BY <2>2, Zenon DEF CommitRows
  <2>4. \A i \in saved : name[i] # NoName
    BY <1>1, <2>1, <2>3, NamesGiven DEF NamesFit, Kind
  <2>5. ASSUME NEW a \in Accounts, a \in Written(p, fresh) PROVE accounts'[a].name # NoName
    <3> DEFINE i == CHOOSE i \in saved : RowOf(p, i, fresh) = a
    <3>1. \E k \in saved : RowOf(p, k, fresh) = a
      BY <2>5 DEF Written
    <3>2. i \in saved
      BY <3>1, Zenon
    <3>3. name[i] # NoName /\ accounts'[a] = [job[p].rows[a] EXCEPT !.name = name[i]]
      BY <2>3, <2>4, <2>5, <3>2
    <3>4. job[p].rows[a] \in Row
      BY <1>1, JobParts
    <3> HIDE DEF i
    <3>5. accounts'[a].name = name[i]
      BY <3>3, <3>4, SMT DEF Row
    <3>6. QED
      BY <3>3, <3>5
  <2> HIDE DEF saved
  <2>6. QED
    BY <2>3, <2>5 DEF Named
<1>3. CASE SaveAccount(p)
  <2>1. Kind(p) = "account" /\ job[p].at = "write" /\ Subject(p) \in Accounts
        /\ (~Items(p)[1].remove => Items(p)[1].value \in Names)
    BY <1>1, <1>3, SubjectType, ZenonT(60) DEF SaveAccount, At, Kind, Items, Subject
  <2> DEFINE r == job[p].rows[Subject(p)]
  <2>2. r \in Row /\ r.name # NoName
    BY <1>1, <2>1, JobParts DEF NamesFit, Subject, Items, Kind
  <2>3. accounts' = [accounts EXCEPT ![Subject(p)] =
                 IF Items(p)[1].remove THEN [r EXCEPT !.deleted = TRUE]
                 ELSE [r EXCEPT !.name = Items(p)[1].value]]
    BY <1>3, Zenon DEF SaveAccount
  <2> HIDE DEF r
  <2>4. /\ [r EXCEPT !.deleted = TRUE].name # NoName
        /\ ~Items(p)[1].remove => [r EXCEPT !.name = Items(p)[1].value].name # NoName
    <3>1. \A b : [r EXCEPT !.deleted = b].name = r.name
      BY <2>2, SMT DEF Row
    <3>2. \A n : [r EXCEPT !.name = n].name = n
      BY <2>2, SMT DEF Row
    <3>3. QED
      BY <1>1, <2>1, <2>2, <3>1, <3>2
  <2>5. accounts'[Subject(p)].name # NoName
    BY <1>1, <2>1, <2>3, <2>4 DEF StateType
  <2>6. QED
    BY <1>1, <2>3, <2>5 DEF Named, StateType
<1>4. CASE CreateAccount(p) \/ StoreAgain(p)
  <2>1. Name(p) \in Names
    BY <1>1, <1>4, NameType DEF CreateAccount, StoreAgain, At
  <2>2. PICK a : accounts' = [accounts EXCEPT ![a] = [name |-> Name(p), deleted |-> FALSE]]
    BY <1>4, Zenon DEF CreateAccount, StoreAgain
  <2>3. QED
    BY <1>1, <2>1, <2>2 DEF Named, StateType
<1>5. CASE \/ Begin(p) \/ LoadContact(p) \/ CheckNumbers(p) \/ CheckAccounts(p) \/ Lock(p)
           \/ CommitNumbers(p) \/ RollBack(p) \/ LoadNumbers(p) \/ FormatNumber(p)
           \/ EndSave(p) \/ DeleteContact(p) \/ LoadFunction(p) \/ SaveFunction(p)
           \/ LoadAccount(p) \/ CheckName(p) \/ LookUp(p) \/ CreateFails(p)
           \/ LinkDetail(p) \/ LinkFails(p) \/ Die(p)
  <2>1. accounts' = accounts
    BY <1>5 DEF Begin, LoadContact, CheckNumbers, CheckAccounts, Lock, CommitNumbers,
          RollBack, LoadNumbers, FormatNumber, EndSave, DeleteContact, LoadFunction,
          SaveFunction, LoadAccount, CheckName, LookUp, CreateFails, LinkDetail, LinkFails, Die,
          allButJob, book
  <2>2. QED
    BY <2>1, SMTT(30) DEF Named
<1>6. QED
  BY <1>2, <1>3, <1>4, <1>5 DEF Act

\* The job of the process that acts.
LEMMA NamesFitMine ==
    ASSUME TypeInv, WorkInv, LockInv, NEW p \in Processes, Act(p)
    PROVE  /\ NamesFit(job'[p], Named')
           /\ job'[p].request.kind = "works" /\ job'[p].at = "commit" =>
                  Lock(p) /\ job'[p].seen = functions
<1>1. /\ StateType /\ job \in [Processes -> Job] /\ job[p] \in Job
      /\ Named \subseteq Named' /\ NamesFit(job[p], Named)
  BY TypeParts, NamedStay DEF WorkInv
<1>2. CASE job'[p].at \notin Unsaved \cup {"write"}
  BY <1>2 DEF NamesFit, Unsaved
<1>3. CASE job'[p].at \in Unsaved \cup {"write"} /\ ~Lock(p) /\ ~LoadAccount(p) /\ ~CheckName(p)
  <2>1. /\ job'[p].request = job[p].request
        /\ \/ LoadContact(p) /\ job'[p].at \in {"check", "write"}
           \/ CheckNumbers(p) /\ job'[p].at = "lock"
           \/ CheckAccounts(p) /\ job'[p].at = "lock"
           \/ LoadFunction(p) /\ job'[p].at = "write"
    BY <1>3, Entered
  <2>2. CASE LoadContact(p) /\ job'[p].at \in {"check", "write"}
    BY <2>1, <2>2 DEF LoadContact, Saving, Kind, NamesFit
  <2>3. CASE CheckNumbers(p) /\ job'[p].at = "lock"
    BY <2>1, <2>3 DEF CheckNumbers, At, Kind, NamesFit
  <2>4. CASE CheckAccounts(p) /\ job'[p].at = "lock"
    <3>1. job'[p] # Idle
      BY <2>4 DEF Idle
    <3>2. \A a \in Mentioned(p) : Exists(a)
      BY <1>1, <2>4, <3>1, JobAfter DEF CheckAccounts
    <3>3. Ids(job[p]) \subseteq Accounts
      BY <1>1, <2>4, RequestTypes DEF Ids, CheckAccounts, At, Kind
    <3>4. Ids(job[p]) = Mentioned(p) /\ Ids(job'[p]) = Ids(job[p])
      BY <2>1 DEF Ids, Mentioned, Items
    <3>5. Ids(job'[p]) \subseteq Named'
      BY <1>1, <3>2, <3>3, <3>4 DEF Exists, Named
    <3>6. Kind(p) = "works"
      BY <2>4 DEF CheckAccounts, At
    <3>7. QED
      BY <2>1, <2>4, <3>5, <3>6 DEF NamesFit, Kind
  <2>5. CASE LoadFunction(p) /\ job'[p].at = "write"
    <3>1. job'[p] # Idle
      BY <2>5 DEF Idle
    <3>2. Subject(p) \in functions /\ Kind(p) = "toggle"
      BY <1>1, <2>5, <3>1, JobAfter DEF LoadFunction, At
    <3>3. Subject(p) \in Named'
      BY <1>1, <3>2 DEF WorkInv
    <3>4. QED
      BY <2>1, <2>5, <3>2, <3>3 DEF NamesFit, Subject, Items, Kind
  <2>6. QED
    BY <2>1, <2>2, <2>3, <2>4, <2>5
<1>4. CASE Lock(p)
  <2>1. job'[p] = [job[p] EXCEPT !.at = "commit",
                  !.seen = IF Kind(p) = "numbers" THEN linked ELSE functions,
                  !.numbers = IF Kind(p) = "numbers" THEN LinkedNumbers ELSE NoNumbers,
                  !.rows = IF Kind(p) = "numbers" THEN NoRows ELSE accounts]
    BY <1>1, <1>4, JobAfter DEF Lock
  <2> DEFINE x == IF Kind(p) = "numbers" THEN linked ELSE functions
  <2> DEFINE y == IF Kind(p) = "numbers" THEN NoRows ELSE accounts
  <2>2. Kind(p) = "works" => x = functions /\ y = accounts
    OBVIOUS
  <2> DEFINE n == IF Kind(p) = "numbers" THEN LinkedNumbers ELSE NoNumbers
  <2>3. job'[p] = [job[p] EXCEPT !.at = "commit", !.seen = x, !.numbers = n, !.rows = y]
    BY <2>1
  <2> HIDE DEF x, y, n
  <2>4. /\ job'[p].request = job[p].request /\ job'[p].at = "commit"
        /\ job'[p].seen = x /\ job'[p].rows = y
    BY <1>1, <2>3, SMT DEF Job
  <2>5. Ids(job'[p]) = Ids(job[p]) /\ job[p].at = "lock"
    BY <1>4, <2>4 DEF Ids, Lock
  <2>6. Kind(p) = "works" => Ids(job[p]) \subseteq Named
    BY <1>1, <2>5 DEF NamesFit, Kind
  <2>7. Kind(p) = "works" => /\ job'[p].seen \subseteq Named' /\ Ids(job'[p]) \subseteq Named'
                             /\ \A a \in Ids(job'[p]) : job'[p].rows[a].name # NoName
    BY <1>1, <2>2, <2>4, <2>5, <2>6, SMTT(30) DEF WorkInv, Named
  <2>8. QED
    BY <1>4, <2>2, <2>4, <2>7 DEF NamesFit, Kind
<1>5. CASE (LoadAccount(p) \/ CheckName(p)) /\ job'[p].at \in Unsaved \cup {"write"}
  <2>1. Kind(p) = "account" /\ job'[p].request = job[p].request /\ job'[p] # Idle
    <3>1. Kind(p) = "account"
      BY <1>5 DEF LoadAccount, CheckName, At
    <3>2. job'[p].request = job[p].request
      BY <1>5, Entered
    <3>3. Idle.at = "idle"
      BY DEF Idle
    <3>4. QED
      BY <1>5, <3>1, <3>2, <3>3 DEF Unsaved
  <2>2. Subject(p) \in Accounts
    BY <1>1, <2>1, SubjectType DEF Subject, Items, Kind
  <2>3. job'[p].rows[Subject(p)].name # NoName
    <3>1. CASE LoadAccount(p)
      <4> DEFINE s == IF Items(p)[1].remove THEN "write" ELSE "check"
      <4>1. Exists(Subject(p)) /\ job'[p] = [job[p] EXCEPT !.rows = accounts, !.at = s]
        BY <1>1, <2>1, <3>1, JobAfter DEF LoadAccount
      <4> HIDE DEF s
      <4>2. job'[p].rows = accounts
        BY <1>1, <4>1, SMT DEF Job
      <4>3. QED
        BY <4>1, <4>2 DEF Exists
    <3>2. CASE CheckName(p)
      <4>1. job'[p] = [job[p] EXCEPT !.at = "write"] /\ job[p].at = "check"
        BY <1>1, <2>1, <3>2, JobAfter DEF CheckName, At
      <4>2. job'[p].rows = job[p].rows
        BY <1>1, <4>1, SMT DEF Job
      <4>3. QED
        BY <1>1, <2>1, <4>1, <4>2 DEF NamesFit, Subject, Items, Kind
    <3>3. QED
      BY <1>5, <3>1, <3>2
  <2>4. QED
    BY <2>1, <2>3 DEF NamesFit, Subject, Items, Kind
<1>6. QED
  BY <1>2, <1>3, <1>4, <1>5

\* A save of the accounts: what it removes is not what it adds.
LEMMA CommitWorks ==
    ASSUME TypeInv, WorkInv, NEW p \in Processes, CommitAccounts(p)
    PROVE  /\ WorksWhereSaved'
           /\ functions' \subseteq functions \cup Named'
<1>1. /\ StateType /\ job[p] \in Job /\ Kind(p) = "works" /\ job[p].at = "commit"
      /\ NamesFit(job[p], Named) /\ asked \subseteq job[p].seen /\ New \notin Accounts
  BY TypeParts, CommitAccountsParts, AddressBookAssumption DEF WorkInv, At
<1>2. PICK fresh \in Fresh(p, {a \in Accounts : accounts[a].name = NoName}) :
          CommitLinks(p, fresh) /\ CommitRows(p, fresh)
  BY CommitAccountsParts
<1>3. fresh \notin Named
  BY <1>1, <1>2, FreshRow DEF Named
<1>4. fresh = New => New \notin Rows(p, fresh)
  BY <1>1, <1>2, FreshRow
<1>5. job[p].seen \subseteq Named /\ Ids(job[p]) \subseteq Named
  BY <1>1 DEF NamesFit, Kind
<1>6. Ids(job[p]) = Mentioned(p)
  BY DEF Ids, Mentioned, Items
<1>7. Mentioned(p) \subseteq Rows(p, fresh) /\ Rows(p, fresh) \subseteq Mentioned(p) \cup {fresh}
  BY DEF Mentioned, Rows, RowOf
<1>8. ASSUME job[p].request.put PROVE WorksWhereSaved'
  <2>1. /\ functions' = (asked \cup revived \cup Rows(p, fresh)) \ (job[p].seen \ Mentioned(p))
        /\ asked' = Rows(p, fresh) /\ revived' = revived \ (job[p].seen \ Mentioned(p))
    BY <1>2, <1>8 DEF CommitLinks, Dropped, WorkInv, WorksWhereSaved
  <2>2. fresh \notin job[p].seen
    BY <1>3, <1>5
  <2>3. QED
    BY <1>1, <1>7, <2>1, <2>2 DEF WorksWhereSaved
<1>9. ASSUME ~job[p].request.put PROVE WorksWhereSaved'
  BY <1>2, <1>9 DEF CommitLinks, Dropped, WorkInv, WorksWhereSaved
<1>10. WorksWhereSaved'
  BY <1>8, <1>9
<1>11. fresh \in Accounts /\ fresh \in Rows(p, fresh) => fresh \in Named'
  <2>1. SUFFICES ASSUME fresh \in Accounts, fresh \in Rows(p, fresh)
                 PROVE  accounts'[fresh].name # NoName
    BY DEF Named
  <2>2. PICK i \in DOMAIN Items(p) : RowOf(p, i, fresh) = fresh
    BY <2>1 DEF Rows
  <2>3. Items(p)[i].id = New
    BY <1>3, <1>5, <1>6, <2>2 DEF RowOf, Mentioned
  <2> DEFINE saved == {k \in DOMAIN Items(p) :
                           Dirty(p, k) \/ Assigned(p, k) \/ Items(p)[k].id = New}
  <2>4. fresh \in Written(p, fresh)
    BY <2>2, <2>3 DEF Written
  <2>5. PICK name \in [saved -> Names \cup {NoName}] :
            /\ \A k \in saved : name[k] \in NamesFor(p, k)
            /\ accounts' = [a \in Accounts |->
                   IF a \notin Written(p, fresh) THEN accounts[a]
                   ELSE [job[p].rows[a] EXCEPT !.name =
                       name[CHOOSE k \in saved : RowOf(p, k, fresh) = a]]]
    BY <1>2, Zenon DEF CommitRows
  <2> DEFINE m == CHOOSE k \in saved : RowOf(p, k, fresh) = fresh
  <2>6. m \in saved
    <3>1. \E k \in saved : RowOf(p, k, fresh) = fresh
      BY <2>4 DEF Written
    <3>2. QED
      BY <3>1, Zenon
  <2>7. name[m] # NoName
    BY <1>1, <2>5, <2>6, NamesGiven DEF NamesFit, Kind
  <2>8. accounts'[fresh] = [job[p].rows[fresh] EXCEPT !.name = name[m]]
    BY <2>1, <2>4, <2>5
  <2>9. job[p].rows[fresh] \in Row
    BY <1>1, <2>1, JobParts
  <2> HIDE DEF m, saved
  <2>10. accounts'[fresh].name = name[m]
    BY <2>8, <2>9, SMT DEF Row
  <2>11. QED
    BY <2>7, <2>10
<1>12. Mentioned(p) \subseteq Named'
  BY <1>5, <1>6, NamedStay DEF Act
<1>13. functions' \subseteq functions \cup Rows(p, fresh)
  BY <1>2 DEF CommitLinks
<1>14. Rows(p, fresh) \subseteq Accounts
  <2>1. fresh \in Accounts \cup {New}
    BY <1>2, FreshRow
  <2>2. Rows(p, fresh) \subseteq Accounts \cup {fresh}
    BY <1>1, <2>1, ListTypes, SMTT(30)
  <2>3. QED
    BY <1>4, <2>1, <2>2
<1>15. QED
  BY <1>7, <1>10, <1>11, <1>12, <1>13, <1>14

LEMMA WorkStep ==
    ASSUME TypeInv, LockInv, WorkInv, [Next]_vars
    PROVE  WorkInv'
<1>1. CASE UNCHANGED vars
  BY <1>1 DEF vars, allButJob, book, history, WorkInv, WorksWhereSaved, Named, NamesFit, Ids,
              At, Kind
<1>2. ASSUME NEW p \in Processes, Act(p) PROVE WorkInv'
  <2>1. /\ \A q \in Processes \ {p} : Noticed(job[q], job'[q])
        /\ Named \subseteq Named'
        /\ StateType /\ job \in [Processes -> Job] /\ job[p] \in Job
    BY <1>2, ActFrame, NamedStay, TypeParts
  <2>2. \A q \in Processes : NamesFit(job'[q], Named')
    <3>1. ASSUME NEW q \in Processes \ {p} PROVE NamesFit(job'[q], Named')
      BY <2>1, NamesFitOn DEF WorkInv
    <3>2. QED
      BY <1>2, <3>1, NamesFitMine
  <2>3. ASSUME UNCHANGED <<functions, asked, revived>> PROVE WorkInv'
    <3>1. \A q \in Processes : job'[q].request.kind = "works" /\ job'[q].at = "commit" =>
              asked \subseteq job'[q].seen
      <4>1. ASSUME NEW q \in Processes \ {p}, job'[q].request.kind = "works",
                   job'[q].at = "commit"
            PROVE  asked \subseteq job'[q].seen
        BY <2>1, <4>1 DEF Noticed, WorkInv, At, Kind
      <4>2. job'[p].request.kind = "works" /\ job'[p].at = "commit" =>
                asked \subseteq job'[p].seen
        BY <1>2, NamesFitMine DEF WorkInv, WorksWhereSaved
      <4>3. QED
        BY <4>1, <4>2
    <3>2. QED
      BY <2>1, <2>2, <2>3, <3>1 DEF WorkInv, WorksWhereSaved, At, Kind
  <2>4. CASE CommitAccounts(p)
    <3>1. WorksWhereSaved' /\ functions' \subseteq Named'
      BY <2>1, <2>4, CommitWorks DEF WorkInv
    <3>2. \A q \in Processes : job'[q].at # "commit"
      <4>1. job'[p].at # "commit"
        BY <1>2, <2>4, Entered DEF Lock, CheckNumbers, CheckAccounts, CommitAccounts, At, Unsaved
      <4>2. lock = p /\ \A q \in Processes \ {p} : job[q].at # "commit"
        BY <2>4, CommitAccountsParts DEF LockInv
      <4>3. QED
        BY <2>1, <4>1, <4>2 DEF Noticed
    <3>3. QED
      BY <2>2, <3>1, <3>2 DEF WorkInv, At
  <2>5. CASE SaveFunction(p)
    <3>1. PICK back \in SUBSET {Subject(p)} :
              functions' = functions \cup back /\ revived' = revived \cup back
              /\ asked' = asked
      BY <2>5 DEF SaveFunction
    <3>2. Subject(p) \in Named
      BY <2>5 DEF SaveFunction, At, WorkInv, NamesFit, Subject, Items, Kind
    <3>3. WorksWhereSaved' /\ functions' \subseteq Named'
      BY <2>1, <3>1, <3>2 DEF WorkInv, WorksWhereSaved
    <3>4. ASSUME NEW q \in Processes, job'[q].request.kind = "works", job'[q].at = "commit"
          PROVE  asked' \subseteq job'[q].seen
      <4>1. job'[p].at = "idle"
        BY <2>1, <2>5, JobAfter DEF SaveFunction, Idle
      <4>2. QED
        BY <2>1, <3>1, <3>4, <4>1 DEF Noticed, WorkInv, At, Kind
    <3>5. QED
      BY <2>2, <3>3, <3>4 DEF WorkInv, At, Kind
  <2>6. CASE \/ Begin(p) \/ LoadContact(p) \/ CheckNumbers(p) \/ CheckAccounts(p) \/ Lock(p)
             \/ CommitNumbers(p) \/ RollBack(p) \/ LoadNumbers(p) \/ FormatNumber(p)
             \/ EndSave(p) \/ DeleteContact(p) \/ LoadFunction(p) \/ SaveAccount(p)
             \/ LoadAccount(p) \/ CheckName(p) \/ LookUp(p) \/ CreateFails(p)
             \/ CreateAccount(p) \/ StoreAgain(p) \/ LinkDetail(p) \/ LinkFails(p) \/ Die(p)
    <3>1. UNCHANGED <<functions, asked, revived>>
      BY <2>6 DEF Begin, LoadContact, CheckNumbers, CheckAccounts, Lock, CommitNumbers,
            RollBack, LoadNumbers, FormatNumber, EndSave, DeleteContact, LoadFunction,
            SaveAccount, LoadAccount, CheckName, LookUp, CreateFails, CreateAccount,
            StoreAgain, LinkDetail, LinkFails, Die, allButJob, history
    <3>2. QED
      BY <2>3, <3>1, SMTT(30)
  <2>7. QED
    BY <1>2, <2>4, <2>5, <2>6 DEF Act
<1>3. QED
  BY <1>1, <1>2, NextActs, SMTT(30)

\* A contact works where its saves ask for and where a change of a Function brought
\* it back.  (api/nested/serializers.py:327-359, contacts/api/views.py:72-81.)
THEOREM WorksAsSaved == Spec => []WorksWhereSaved
<1>1. Init => WorkInv
  <2>1. SUFFICES ASSUME Init PROVE WorkInv
    OBVIOUS
  <2>2. PICK s \in Scenarios : scenario = s
    BY <2>1 DEF Init
  <2>3. /\ s.works \subseteq Accounts /\ s.named \in [Accounts -> Names \cup {NoName}]
        /\ \A a \in s.works : s.named[a] # NoName
    BY AddressBookAssumption
  <2>4. WorksWhereSaved /\ functions \subseteq Named
    BY <2>1, <2>2, <2>3 DEF Init, WorksWhereSaved, Named
  <2>5. Idle.request.kind = "idle"
    BY DEF Idle, NoRequest
  <2>6. \A q \in Processes : Kind(q) = "idle" /\ NamesFit(job[q], Named)
    BY <2>1, <2>5 DEF Init, Kind, NamesFit
  <2>7. QED
    BY <2>4, <2>6 DEF WorkInv, At
<1>2. TypeInv /\ LockInv /\ WorkInv /\ [Next]_vars => WorkInv'
  BY WorkStep
<1>3. WorkInv => WorksWhereSaved
  BY DEF WorkInv
<1>4. QED
  BY <1>1, <1>2, <1>3, TypeInvariant, LockInvariant, PTL DEF Spec
-----------------------------------------------------------------------------
(* The numbers.  What a formatting has in hand is what the user saved last, *)
(* unless a save came in between (old) or the row was mixed up before, and  *)
(* so is what a save has read, for nobody else commits meanwhile.           *)

Saved(n, w) == n = w \/ n = Format[w]

HandFits(j, m, w) ==
    \A ph \in j.todo : ph \in j.old \/ ph \in m \/ Format[j.numbers[ph]] = Format[w[ph]]
ReadFits(j, n, m, w) ==
    j.request.kind = "numbers" /\ j.at = "commit" =>
        \A ph \in j.seen : \/ ph \in m
                           \/ /\ Format[j.numbers[ph]] = Format[w[ph]]
                              /\ n[ph] \in {j.numbers[ph], Format[w[ph]]}

NumberInv ==
    /\ NumbersStand
    /\ \A ph \in Phones : number[ph] = NoNumber <=> want[ph] = NoNumber
    /\ \A ph \in Stored \ mixed : Saved(number[ph], want[ph])
    /\ \A p \in Processes : /\ HandFits(job[p], mixed, want)
                            /\ ReadFits(job[p], number, mixed, want)

\* The steps of a process that has numbers to format, or is about to load them.
LEMMA AfterCommit ==
    ASSUME TypeInv, NEW p \in Processes, Act(p), job[p].at \in {"reload", "format"}
    PROVE  LoadNumbers(p) \/ FormatNumber(p) \/ EndSave(p) \/ Die(p)
<1>1. Idle.at = "idle"
  BY DEF Idle
<1>2. CASE \/ Begin(p) \/ LoadContact(p) \/ CheckNumbers(p) \/ CheckAccounts(p) \/ Lock(p)
           \/ RollBack(p) \/ DeleteContact(p) \/ LoadFunction(p) \/ SaveFunction(p)
  BY <1>1, <1>2 DEF Begin, LoadContact, CheckNumbers, CheckAccounts, Lock, RollBack,
                    DeleteContact, LoadFunction, SaveFunction, At
<1>3. CASE \/ LoadAccount(p) \/ CheckName(p) \/ SaveAccount(p) \/ LookUp(p)
           \/ CreateAccount(p) \/ CreateFails(p) \/ LinkDetail(p) \/ LinkFails(p) \/ StoreAgain(p)
           \/ CommitNumbers(p) \/ CommitAccounts(p)
  BY <1>3, CommitAccountsParts DEF LoadAccount, CheckName, SaveAccount, LookUp, CreateAccount,
        CreateFails, LinkDetail, LinkFails, StoreAgain, CommitNumbers, At
<1>4. QED
  BY <1>2, <1>3 DEF Act

\* Steps of other kinds leave numbers alone.
LEMMA NumbersSame ==
    ASSUME TypeInv, NEW p \in Processes, Act(p), ~CommitNumbers(p), ~FormatNumber(p)
    PROVE  /\ number' = number /\ linked' = linked /\ want' = want /\ mixed' = mixed
           /\ died' = died \/ Die(p)
<1>1. CASE \/ Begin(p) \/ LoadContact(p) \/ CheckNumbers(p) \/ CheckAccounts(p) \/ Lock(p)
           \/ RollBack(p) \/ LoadNumbers(p) \/ EndSave(p) \/ DeleteContact(p)
  BY <1>1 DEF Begin, LoadContact, CheckNumbers, CheckAccounts, Lock, RollBack, LoadNumbers,
              EndSave, DeleteContact, allButJob, phones, history
<1>2. CASE \/ LoadFunction(p) \/ SaveFunction(p) \/ LoadAccount(p) \/ CheckName(p)
           \/ SaveAccount(p) \/ LookUp(p) \/ CreateFails(p) \/ CreateAccount(p)
           \/ StoreAgain(p) \/ LinkDetail(p) \/ LinkFails(p)
  BY <1>2 DEF LoadFunction, SaveFunction, LoadAccount, CheckName, SaveAccount, LookUp,
              CreateFails, CreateAccount, StoreAgain, LinkDetail, LinkFails, allButJob, phones, history
<1>4. CASE Die(p)
  BY <1>4 DEF Die, phones
<1>3. CASE CommitAccounts(p)
  BY <1>3, CommitAccountsParts
<1>5. QED
  BY <1>1, <1>2, <1>3, <1>4 DEF Act

\* Only what loads the numbers and formats them has some to format afterwards, and
\* only who gets the row is about to commit.
LEMMA TodoAfter ==
    ASSUME TypeInv, NEW p \in Processes, Act(p), ~FormatNumber(p), ~LoadNumbers(p)
    PROVE  job'[p].todo = {} /\ (job'[p].at = "commit" => Lock(p))
<1>1. job'[p].at # "format" /\ (job'[p].at = "commit" => Lock(p))
  BY Landings
<1>2. JobFits(job'[p], Stored')
  <2>1. TypeInv'
    BY NextType, NextActs
  <2>2. QED
    BY <2>1, TypeParts
<1>3. QED
  BY <1>1, <1>2 DEF JobFits

\* The jobs of the others, while the numbers that were saved are the same.
LEMMA HandsOn ==
    ASSUME NEW j, NEW k, NEW n, NEW m, NEW mm, NEW w, Noticed(j, k), m \subseteq mm
    PROVE  /\ HandFits(j, m, w) => HandFits(k, mm, w)
           /\ ReadFits(j, n, m, w) => ReadFits(k, n, mm, w)
<1>1. k.request = j.request /\ k.at = j.at /\ k.seen = j.seen /\ k.numbers = j.numbers
      /\ k.todo = j.todo /\ j.old \subseteq k.old
  BY Zenon DEF Noticed
<1>2. HandFits(j, m, w) => HandFits(k, mm, w)
  BY <1>1 DEF HandFits
<1>3. ReadFits(j, n, m, w) => ReadFits(k, n, mm, w)
  BY <1>1 DEF ReadFits
<1>4. QED
  BY <1>2, <1>3

\* What a save reads when it gets the row.
LEMMA ReadNumbers ==
    ASSUME TypeInv, NumberInv, NEW p \in Processes, Lock(p)
    PROVE  ReadFits(job'[p], number, mixed, want)
<1>1. StateType /\ job \in [Processes -> Job] /\ job[p] \in Job
  BY TypeParts
<1>2. job'[p] = [job[p] EXCEPT !.at = "commit",
                  !.seen = IF Kind(p) = "numbers" THEN linked ELSE functions,
                  !.numbers = IF Kind(p) = "numbers" THEN LinkedNumbers ELSE NoNumbers,
                  !.rows = IF Kind(p) = "numbers" THEN NoRows ELSE accounts]
  BY <1>1, JobAfter DEF Lock
<1> DEFINE x == IF Kind(p) = "numbers" THEN linked ELSE functions
<1> DEFINE n == IF Kind(p) = "numbers" THEN LinkedNumbers ELSE NoNumbers
<1> DEFINE y == IF Kind(p) = "numbers" THEN NoRows ELSE accounts
<1>3. Kind(p) = "numbers" => x = linked /\ n = LinkedNumbers
  OBVIOUS
<1>4. job'[p] = [job[p] EXCEPT !.at = "commit", !.seen = x, !.numbers = n, !.rows = y]
  BY <1>2
<1> HIDE DEF x, n, y
<1>5. job'[p].request = job[p].request /\ job'[p].seen = x /\ job'[p].numbers = n
  BY <1>1, <1>4, SMT DEF Job
<1>6. SUFFICES ASSUME Kind(p) = "numbers", NEW ph \in linked, ph \notin mixed
               PROVE  /\ Format[LinkedNumbers[ph]] = Format[want[ph]]
                      /\ number[ph] = LinkedNumbers[ph]
  BY <1>3, <1>5 DEF ReadFits, Kind
<1>7. ph \in Stored /\ ph \in Phones
  BY <1>1 DEF StateType, Stored
<1>8. Saved(number[ph], want[ph]) /\ LinkedNumbers[ph] = number[ph]
  BY <1>6, <1>7 DEF NumberInv, LinkedNumbers
<1>9. want[ph] \in Numbers
  BY <1>1, <1>7 DEF StateType, Stored, NumberInv
<1>10. Format[Format[want[ph]]] = Format[want[ph]]
  BY <1>9, AddressBookAssumption
<1>11. QED
  BY <1>8, <1>10 DEF Saved

\* Whoever has a number to format is at it still, or died.
Pending(ph) ==
    \E q \in Processes : job[q].at = "reload" \/ (job[q].at = "format" /\ ph \in job[q].todo)
Excused(ph) == died \/ scenario.countries # {TRUE} \/ want[ph] = scenario.linked[ph]

LEMMA Standing ==
    /\ NumbersStand <=> \A ph \in linked \ mixed :
           \/ number[ph] = Format[want[ph]]
           \/ number[ph] = want[ph] /\ (Excused(ph) \/ Pending(ph))
    /\ (NumbersStand <=> \A ph \in linked \ mixed :
           \/ number[ph] = Format[want[ph]]
           \/ number[ph] = want[ph] /\ (Excused(ph) \/ Pending(ph)))'
BY DEF NumbersStand, Excused, Pending

LEMMA ScenarioSame == ASSUME NEW p \in Processes, Act(p) PROVE scenario' = scenario
<1>1. CASE \/ Begin(p) \/ LoadContact(p) \/ CheckNumbers(p) \/ CheckAccounts(p) \/ Lock(p)
           \/ CommitNumbers(p) \/ RollBack(p) \/ LoadNumbers(p) \/ FormatNumber(p)
           \/ EndSave(p) \/ DeleteContact(p)
  BY <1>1, ZenonT(60) DEF Begin, LoadContact, CheckNumbers, CheckAccounts, Lock, CommitNumbers,
        RollBack, LoadNumbers, FormatNumber, EndSave, DeleteContact, allButJob
<1>2. CASE \/ LoadFunction(p) \/ SaveFunction(p) \/ LoadAccount(p) \/ CheckName(p)
           \/ SaveAccount(p) \/ LookUp(p) \/ CreateFails(p) \/ CreateAccount(p)
           \/ StoreAgain(p) \/ LinkDetail(p) \/ LinkFails(p) \/ Die(p)
  BY <1>2, ZenonT(60) DEF LoadFunction, SaveFunction, LoadAccount, CheckName, SaveAccount, LookUp,
        CreateFails, CreateAccount, StoreAgain, LinkDetail, LinkFails, Die, allButJob
<1>3. CASE CommitAccounts(p)
  BY <1>3, CommitAccountsParts
<1>4. QED
  BY <1>1, <1>2, <1>3 DEF Act

LEMMA OtherNumbers ==
    ASSUME TypeInv, NumberInv, NEW p \in Processes, Act(p),
           ~CommitNumbers(p), ~FormatNumber(p), ~LoadNumbers(p)
    PROVE  NumberInv'
<1>1. /\ number' = number /\ linked' = linked /\ want' = want /\ mixed' = mixed
      /\ died' = died \/ Die(p)
  BY NumbersSame
<1>2. \A q \in Processes \ {p} : Noticed(job[q], job'[q])
  BY ActFrame
<1>3. job'[p].todo = {} /\ (job'[p].at = "commit" => Lock(p))
  BY TodoAfter
<1>4. \A q \in Processes : /\ HandFits(job'[q], mixed', want')
                           /\ ReadFits(job'[q], number', mixed', want')
  <2>1. ASSUME NEW q \in Processes \ {p}
        PROVE  HandFits(job'[q], mixed, want) /\ ReadFits(job'[q], number, mixed, want)
    BY <1>2, HandsOn DEF NumberInv
  <2>2. HandFits(job'[p], mixed, want)
    BY <1>3 DEF HandFits
  <2>3. ReadFits(job'[p], number, mixed, want)
    BY <1>3, ReadNumbers DEF ReadFits
  <2>4. QED
    BY <1>1, <2>1, <2>2, <2>3
<1>5. NumbersStand'
  <2>1. SUFFICES ASSUME NEW ph \in linked \ mixed, number[ph] # Format[want[ph]]
                 PROVE  number[ph] = want[ph] /\ (Excused(ph)' \/ Pending(ph)')
    BY <1>1, Standing
  <2>2. number[ph] = want[ph] /\ (Excused(ph) \/ Pending(ph))
    BY <2>1, Standing DEF NumberInv
  <2>3. CASE Excused(ph) \/ Die(p)
    <3>1. died \/ Die(p) => died'
      BY <1>1 DEF Die
    <3>2. scenario' = scenario
      BY ScenarioSame
    <3>3. QED
      BY <1>1, <2>2, <2>3, <3>1, <3>2 DEF Excused
  <2>4. CASE ~Excused(ph) /\ ~Die(p)
    <3>1. PICK q \in Processes : \/ job[q].at = "reload"
                                 \/ job[q].at = "format" /\ ph \in job[q].todo
      BY <2>2, <2>4 DEF Pending
    <3>2. q # p
      <4>1. ASSUME q = p PROVE EndSave(p)
        BY <2>4, <3>1, <4>1, AfterCommit
      <4>2. QED
        BY <3>1, <4>1 DEF EndSave
    <3>3. QED
      BY <1>2, <2>2, <3>1, <3>2 DEF Noticed, Pending
  <2>5. QED
    BY <2>3, <2>4
<1>6. QED
  BY <1>1, <1>4, <1>5 DEF NumberInv, Stored, Saved

LEMMA LoadedNumbers ==
    ASSUME TypeInv, NumberInv, NEW p \in Processes, Act(p), LoadNumbers(p)
    PROVE  NumberInv'
<1>1. /\ number' = number /\ linked' = linked /\ want' = want /\ mixed' = mixed
      /\ died' = died /\ scenario' = scenario /\ job[p].at = "reload"
  BY DEF LoadNumbers, allButJob, phones, history
<1>2. /\ \A q \in Processes \ {p} : Noticed(job[q], job'[q])
      /\ StateType /\ job \in [Processes -> Job] /\ job[p] \in Job
  BY ActFrame, TypeParts
<1>3. \/ job'[p] = Idle /\ scenario.countries # {TRUE}
      \/ job'[p] = [job[p] EXCEPT !.at = "format", !.todo = linked, !.old = {},
                                  !.numbers = LinkedNumbers]
  <2>1. PICK country \in scenario.countries :
            IF country
            THEN Become(p, [job[p] EXCEPT !.at = "format", !.todo = linked, !.old = {},
                            !.numbers = LinkedNumbers])
            ELSE Finish(p)
    BY DEF LoadNumbers
  <2>2. CASE country
    BY <1>2, <2>1, <2>2, JobAfter
  <2>3. CASE ~country
    <3>1. scenario.countries # {TRUE}
      <4>1. SUFFICES ASSUME scenario.countries = {TRUE} PROVE FALSE
        OBVIOUS
      <4>2. country \in {TRUE}
        BY <2>1, <4>1
      <4>3. country = TRUE
        BY <4>2, SMT
      <4>4. QED
        BY <2>3, <4>3, Zenon
    <3>2. Finish(p)
      BY <2>1, <2>3
    <3>3. QED
      BY <1>2, <3>1, <3>2, JobAfter
  <2>4. QED
    BY <2>2, <2>3
<1>4. \A ph \in linked : LinkedNumbers[ph] = number[ph]
  BY <1>2 DEF StateType, Stored, LinkedNumbers
<1>5. \/ job'[p].todo = {} /\ job'[p].at = "idle" /\ scenario.countries # {TRUE}
      \/ job'[p].at = "format" /\ job'[p].todo = linked /\ job'[p].numbers = LinkedNumbers
  <2>1. Idle.todo = {} /\ Idle.at = "idle"
    BY DEF Idle
  <2> DEFINE k == [job[p] EXCEPT !.at = "format", !.todo = linked, !.old = {},
                                 !.numbers = LinkedNumbers]
  <2>2. k.at = "format" /\ k.todo = linked /\ k.numbers = LinkedNumbers
    BY <1>2, SMT DEF Job
  <2>3. \/ job'[p] = Idle /\ scenario.countries # {TRUE}
        \/ job'[p] = k
    BY <1>3
  <2> HIDE DEF k
  <2>4. QED
    BY <2>1, <2>2, <2>3
<1>6. \A q \in Processes : /\ HandFits(job'[q], mixed', want')
                           /\ ReadFits(job'[q], number', mixed', want')
  <2>1. ASSUME NEW q \in Processes \ {p}
        PROVE  HandFits(job'[q], mixed, want) /\ ReadFits(job'[q], number, mixed, want)
    BY <1>2, HandsOn DEF NumberInv
  <2>2. HandFits(job'[p], mixed, want)
    <3>1. ASSUME NEW ph \in linked
          PROVE  ph \in mixed \/ Format[LinkedNumbers[ph]] = Format[want[ph]]
      <4>1. ph \in mixed \/ Saved(number[ph], want[ph])
        BY <1>2 DEF NumberInv, StateType
      <4>2. want[ph] \in Numbers
        BY <1>2, <3>1 DEF StateType, Stored, NumberInv
      <4>3. Format[Format[want[ph]]] = Format[want[ph]]
        BY <4>2, AddressBookAssumption
      <4>4. QED
        BY <1>4, <4>1, <4>3 DEF Saved
    <3>2. QED
      BY <1>5, <3>1 DEF HandFits
  <2>3. ReadFits(job'[p], number, mixed, want)
    BY <1>5 DEF ReadFits
  <2>4. QED
    BY <1>1, <2>1, <2>2, <2>3
<1>7. NumbersStand'
  <2>1. SUFFICES ASSUME NEW ph \in linked \ mixed, number[ph] # Format[want[ph]]
                 PROVE  number[ph] = want[ph] /\ (Excused(ph)' \/ Pending(ph)')
    BY <1>1, Standing
  <2>2. number[ph] = want[ph]
    BY <2>1 DEF NumberInv, NumbersStand
  <2>3. CASE scenario.countries # {TRUE}
    BY <1>1, <2>2, <2>3 DEF Excused
  <2>4. CASE job'[p].at = "format" /\ job'[p].todo = linked
    BY <2>2, <2>4 DEF Pending
  <2>5. QED
    BY <1>5, <2>3, <2>4
<1>8. QED
  BY <1>1, <1>6, <1>7 DEF NumberInv, Stored, Saved

LEMMA SavedNumbers ==
    ASSUME TypeInv, LockInv, NumberInv, NEW p \in Processes, Act(p), CommitNumbers(p)
    PROVE  NumberInv'
<1>1. PICK fresh : fresh \in Phones \cup {New} /\ Saves(p, fresh)
  <2>1. PICK fresh \in Fresh(p, {ph \in Phones : number[ph] = NoNumber}) : Saves(p, fresh)
    BY CommitNumbersParts
  <2>2. fresh \in {ph \in Phones : number[ph] = NoNumber} \cup {New}
    BY <2>1, FreshRow
  <2>3. QED
    BY <2>1, <2>2
<1> DEFINE v == ValuedPhones(p, fresh)
<1> DEFINE w == WrittenPhones(p, fresh)
<1> DEFINE n == job[p].numbers
<1>2. /\ \A q \in Processes \ {p} : Noticed(job[q], job'[q])
      /\ StateType /\ job \in [Processes -> Job] /\ job[p] \in Job
      /\ NoNumber \notin Numbers /\ Kind(p) = "numbers" /\ job[p].at = "commit"
      /\ job[p].seen \subseteq Stored
  BY ActFrame, TypeParts, AddressBookAssumption DEF CommitNumbers, At, JobFits, Kind
<1>3. \A ph \in v : ValueFor(p, fresh, ph) \in Numbers
  BY <1>1, <1>2, ListTypes DEF ValuedPhones
<1>4. /\ w \subseteq v /\ v \subseteq Phones /\ mixed' = mixed \ w
      /\ \A ph \in v \ w : ph \in job[p].seen /\ ValueFor(p, fresh, ph) = n[ph]
  BY <1>1 DEF Saves, ValuedPhones, WrittenPhones
<1>5. /\ \A ph \in w : number'[ph] = want'[ph] /\ number'[ph] \in Numbers
      /\ \A ph \in v \ w : number'[ph] = number[ph] /\ want'[ph] = n[ph] /\ n[ph] \in Numbers
      /\ \A ph \in Phones \ v : number'[ph] = number[ph] /\ want'[ph] = want[ph]
  BY <1>1, <1>3, <1>4 DEF Saves
<1>6. \A ph \in v \ w : \/ ph \in mixed
                        \/ /\ Format[n[ph]] = Format[want[ph]]
                           /\ number[ph] \in {n[ph], Format[n[ph]]}
  <2>1. ReadFits(job[p], number, mixed, want)
    BY DEF NumberInv
  <2>2. SUFFICES ASSUME NEW ph \in v \ w, ph \notin mixed
                 PROVE  /\ Format[n[ph]] = Format[want[ph]]
                        /\ number[ph] \in {n[ph], Format[n[ph]]}
    OBVIOUS
  <2>3. ph \in job[p].seen
    BY <1>4
  <2>4. Format[n[ph]] = Format[want[ph]] /\ number[ph] \in {n[ph], Format[want[ph]]}
    BY <1>2, <2>1, <2>2, <2>3 DEF ReadFits, Kind
  <2>5. QED
    BY <2>4
<1>7. job'[p].at = "reload" /\ job'[p].todo = {}
  <2>1. job'[p].todo = {}
    BY TodoAfter DEF CommitNumbers, FormatNumber, LoadNumbers, At
  <2>2. job'[p] = [job[p] EXCEPT !.at = "reload", !.seen = {}, !.numbers = NoNumbers]
    BY <1>1 DEF Saves
  <2>3. QED
    BY <1>2, <2>1, <2>2, ReloadFields
<1>8. ASSUME NEW q \in Processes \ {p}
      PROVE  job'[q].old = job[q].old \cup (job[q].todo \cap w) /\ job[q].at # "commit"
  <2> DEFINE o == job[q].old \cup (job[q].todo \cap w)
  <2>1. job'[q] = [job[q] EXCEPT !.old = o] /\ job[q] \in Job
    BY <1>1, <1>2 DEF Saves
  <2> HIDE DEF o
  <2>2. job'[q].old = o
    BY <2>1, SMT DEF Job
  <2>3. job[q].at # "commit"
    BY <1>2 DEF LockInv
  <2>4. QED
    BY <2>2, <2>3 DEF o
<1> HIDE DEF v, w, n
<1>9. \A q \in Processes : /\ HandFits(job'[q], mixed', want')
                           /\ ReadFits(job'[q], number', mixed', want')
  <2>1. ASSUME NEW q \in Processes \ {p} PROVE HandFits(job'[q], mixed', want')
    <3>1. /\ job'[q].todo = job[q].todo /\ job'[q].numbers = job[q].numbers
          /\ HandFits(job[q], mixed, want) /\ job[q].todo \subseteq Phones
      BY <1>2, JobParts DEF Noticed, NumberInv
    <3>2. ASSUME NEW ph \in job'[q].todo
          PROVE  \/ ph \in job'[q].old \/ ph \in mixed'
                 \/ Format[job'[q].numbers[ph]] = Format[want'[ph]]
      <4>1. CASE ph \in w
        BY <1>8, <3>1, <3>2, <4>1
      <4>2. CASE ph \in v \ w
        <5>1. want'[ph] = n[ph] /\ (ph \in mixed \/ Format[n[ph]] = Format[want[ph]])
          BY <1>5, <1>6, <4>2
        <5>2. \/ ph \in job[q].old \/ ph \in mixed
              \/ Format[job[q].numbers[ph]] = Format[want[ph]]
          BY <3>1, <3>2 DEF HandFits
        <5>3. QED
          BY <1>4, <1>8, <3>1, <4>2, <5>1, <5>2
      <4>3. CASE ph \notin v
        BY <1>4, <1>5, <1>8, <3>1, <3>2, <4>3 DEF HandFits
      <4>4. QED
        BY <1>4, <4>1, <4>2, <4>3
    <3>3. QED
      BY <3>1, <3>2 DEF HandFits
  <2>2. \A q \in Processes : job'[q].at # "commit"
    BY <1>2, <1>7, <1>8 DEF Noticed
  <2>3. HandFits(job'[p], mixed', want')
    BY <1>7 DEF HandFits
  <2>4. QED
    BY <2>1, <2>2, <2>3 DEF ReadFits
<1>10. \A ph \in Phones : number'[ph] = NoNumber <=> want'[ph] = NoNumber
  <2>1. \A ph \in v \ w : number[ph] # NoNumber
    BY <1>2, <1>4 DEF Stored
  <2>2. QED
    BY <1>2, <1>4, <1>5, <2>1 DEF NumberInv
<1>11. ASSUME NEW ph \in Phones, number'[ph] # NoNumber, ph \notin mixed'
       PROVE  Saved(number'[ph], want'[ph])
  <2>1. CASE ph \in w
    BY <1>5, <2>1 DEF Saved
  <2>2. CASE ph \in v \ w
    BY <1>4, <1>5, <1>6, <1>11, <2>2 DEF Saved
  <2>3. CASE ph \notin v
    BY <1>4, <1>5, <1>11, <2>3 DEF NumberInv, Stored, Saved
  <2>4. QED
    BY <2>1, <2>2, <2>3
<1>12. linked' \subseteq Stored'
  <2>1. TypeInv'
    BY CommitNumbersType
  <2>2. QED
    BY <2>1, TypeParts DEF StateType
<1>13. NumbersStand'
  BY <1>7, <1>11, <1>12 DEF NumbersStand, Saved, Stored
<1>14. QED
  BY <1>9, <1>10, <1>11, <1>13 DEF NumberInv, Stored, Saved

LEMMA FormattedNumbers ==
    ASSUME TypeInv, NumberInv, NEW p \in Processes, Act(p), FormatNumber(p)
    PROVE  NumberInv'
<1>1. /\ StateType /\ job \in [Processes -> Job] /\ job[p] \in Job
      /\ JobFits(job[p], Stored) /\ HandFits(job[p], mixed, want)
      /\ \A q \in Processes \ {p} : Noticed(job[q], job'[q])
  BY ActFrame, TypeParts DEF NumberInv
<1>2. PICK ph \in job[p].todo :
          /\ number' = [number EXCEPT ![ph] = Format[job[p].numbers[ph]]]
          /\ mixed' = IF ph \in job[p].old THEN mixed \cup {ph} ELSE mixed
          /\ Become(p, [job[p] EXCEPT !.todo = @ \ {ph}, !.old = @ \ {ph}])
  BY DEF FormatNumber
<1>3. ph \in Phones /\ ph \in Stored /\ job[p].numbers[ph] \in Numbers
  BY <1>1, JobParts DEF JobFits
<1>4. /\ want' = want /\ linked' = linked /\ died' = died /\ scenario' = scenario
      /\ job[p].at = "format" /\ mixed \subseteq mixed'
  BY <1>2 DEF FormatNumber
<1> DEFINE t == job[p].todo \ {ph}
<1> DEFINE o == job[p].old \ {ph}
<1>5. job'[p] = [job[p] EXCEPT !.todo = t, !.old = o]
  BY <1>1, <1>2, JobAfter
<1>6. t \subseteq job[p].todo /\ ph \notin t /\ \A x \in t : x \in job[p].old => x \in o
  OBVIOUS
<1>7. \A x \in job[p].todo : x # ph => x \in t
  OBVIOUS
<1> HIDE DEF t, o
<1>8. /\ job'[p].at = "format" /\ job'[p].todo = t /\ job'[p].old = o
      /\ job'[p].numbers = job[p].numbers
  BY <1>1, <1>4, <1>5, SMT DEF Job
<1>9. /\ number'[ph] = Format[job[p].numbers[ph]] /\ number'[ph] # NoNumber
      /\ \A x \in Phones \ {ph} : number'[x] = number[x]
  BY <1>1, <1>2, <1>3, AddressBookAssumption DEF StateType
<1>10. ph \notin mixed' => number'[ph] = Format[want[ph]]
  BY <1>1, <1>2, <1>9 DEF HandFits
<1>11. \A q \in Processes : /\ HandFits(job'[q], mixed', want')
                            /\ ReadFits(job'[q], number', mixed', want')
  <2>1. ASSUME NEW q \in Processes \ {p}
        PROVE  HandFits(job'[q], mixed', want) /\ ReadFits(job'[q], number, mixed', want)
    BY <1>1, <1>4, HandsOn DEF NumberInv
  <2>2. ASSUME NEW q \in Processes \ {p} PROVE ReadFits(job'[q], number', mixed', want)
    <3>1. ASSUME job'[q].request.kind = "numbers", job'[q].at = "commit",
                 NEW x \in job'[q].seen, x \notin mixed'
          PROVE  /\ Format[job'[q].numbers[x]] = Format[want[x]]
                 /\ number'[x] \in {job'[q].numbers[x], Format[want[x]]}
      <4>1. /\ Format[job'[q].numbers[x]] = Format[want[x]]
            /\ number[x] \in {job'[q].numbers[x], Format[want[x]]}
        BY <2>1, <3>1 DEF ReadFits
      <4>2. x \in Phones
        <5>1. JobFits(job[q], Stored) /\ Noticed(job[q], job'[q])
          BY <1>1, TypeParts
        <5>2. QED
          BY <3>1, <5>1 DEF JobFits, Noticed, Stored
      <4>3. QED
        BY <1>9, <1>10, <3>1, <4>1, <4>2
    <3>2. QED
      BY <3>1 DEF ReadFits
  <2>3. HandFits(job'[p], mixed', want) /\ ReadFits(job'[p], number', mixed', want)
    <3>1. HandFits(job'[p], mixed', want)
      BY <1>1, <1>4, <1>6, <1>8 DEF HandFits
    <3>2. QED
      BY <1>8, <3>1 DEF ReadFits
  <2>4. QED
    BY <1>4, <2>1, <2>2, <2>3
<1>12. \A x \in Phones : number'[x] = NoNumber <=> want'[x] = NoNumber
  BY <1>3, <1>4, <1>9 DEF NumberInv, Stored
<1>13. \A x \in Phones : number'[x] # NoNumber /\ x \notin mixed' =>
           Saved(number'[x], want'[x])
  BY <1>4, <1>9, <1>10 DEF NumberInv, Stored, Saved
<1>14. ASSUME NEW x \in linked \ mixed', number'[x] # Format[want[x]]
       PROVE  number'[x] = want[x] /\ (Excused(x)' \/ Pending(x)')
  <2>1. x # ph /\ x \in linked \ mixed /\ x \in Phones
    BY <1>1, <1>4, <1>10, <1>14 DEF StateType, Stored
  <2>2. number[x] = want[x] /\ number'[x] = number[x] /\ (Excused(x) \/ Pending(x))
    BY <1>9, <1>14, <2>1, Standing DEF NumberInv
  <2>3. CASE Excused(x)
    BY <1>4, <2>2, <2>3 DEF Excused
  <2>4. CASE Pending(x)
    <3>1. PICK q \in Processes : \/ job[q].at = "reload"
                                 \/ job[q].at = "format" /\ x \in job[q].todo
      BY <2>4 DEF Pending
    <3>2. CASE q = p
      BY <1>4, <1>7, <1>8, <2>1, <2>2, <3>1, <3>2 DEF Pending
    <3>3. CASE q # p
      BY <1>1, <2>2, <3>1, <3>3 DEF Noticed, Pending
    <3>4. QED
      BY <3>2, <3>3
  <2>5. QED
    BY <2>2, <2>3, <2>4
<1>15. NumbersStand'
  BY <1>4, <1>14, Standing
<1>16. QED
  BY <1>11, <1>12, <1>13, <1>15 DEF NumberInv, Stored, Saved

LEMMA NumberStep ==
    ASSUME TypeInv, LockInv, NumberInv, [Next]_vars
    PROVE  NumberInv'
<1>1. CASE UNCHANGED vars
  BY <1>1, ZenonT(40)
  DEF vars, allButJob, phones, history, NumberInv, NumbersStand, Stored, Saved, HandFits,
      ReadFits
<1>2. ASSUME NEW p \in Processes, Act(p) PROVE NumberInv'
  BY <1>2, OtherNumbers, LoadedNumbers, SavedNumbers, FormattedNumbers
<1>3. QED
  BY <1>1, <1>2, NextActs

\* A number is the one that was saved or imported last, as it was given or in the
\* international notation; where a country is always known, what was saved is
\* formatted afterwards, unless a process died.
\* (api/mixins.py:206-246, api/nested/serializers.py:415-441.)
THEOREM NumbersAsSaved == Spec => []NumbersStand
<1>1. Init => NumberInv
  <2>1. SUFFICES ASSUME Init PROVE NumberInv
    OBVIOUS
  <2>2. number = want /\ want = scenario.linked
    BY <2>1 DEF Init
  <2>3. Idle.todo = {} /\ Idle.at = "idle"
    BY DEF Idle
  <2>4. \A q \in Processes : job[q].todo = {} /\ job[q].at = "idle"
    BY <2>1, <2>3 DEF Init
  <2>5. QED
    BY <2>2, <2>4 DEF NumberInv, NumbersStand, HandFits, ReadFits, Saved, Stored
<1>2. TypeInv /\ LockInv /\ NumberInv /\ [Next]_vars => NumberInv'
  BY NumberStep
<1>3. NumberInv => NumbersStand
  BY DEF NumberInv
<1>4. QED
  BY <1>1, <1>2, <1>3, TypeInvariant, LockInvariant, PTL DEF Spec
-----------------------------------------------------------------------------
(* Names.  As long as no account row changed since a process checked a     *)
(* name, the name is free when it writes it.                               *)

Unique == \A a, b \in Accounts : Exists(a) /\ InUse(b, accounts[a].name) => a = b

CheckHolds(p) ==
    /\ Kind(p) = "works" /\ job[p].at \in {"lock", "commit"} => NamesAreFree(p)
    /\ Kind(p) = "works" /\ job[p].at = "commit" => job[p].rows = accounts
    /\ Kind(p) = "account" /\ job[p].at \in {"check", "write"} => job[p].rows = accounts
    /\ Kind(p) = "account" /\ job[p].at = "write" => Items(p)[1].remove \/ NamesAreFree(p)
    /\ Kind(p) = "import" /\ job[p].at = "create" => \A a \in Accounts : ~InUse(a, Name(p))
    /\ Kind(p) = "import" /\ job[p].at = "link" =>
           accounts[job[p].account] = [name |-> Name(p), deleted |-> FALSE]

NameInv ==
    raced \/ listed \/ (Unique /\ \A p \in Processes : job[p].stale \/ CheckHolds(p))

LEMMA FreeOn ==
    ASSUME NEW p, job'[p].request = job[p].request, accounts' = accounts
    PROVE  /\ NamesAreFree(p)' <=> NamesAreFree(p)
           /\ job'[p].next = job[p].next => Name(p)' = Name(p)
           /\ \A a, n : InUse(a, n)' <=> InUse(a, n)
BY DEF NamesAreFree, Instance, Items, InUse, Name

LEMMA ChecksHoldOn ==
    ASSUME NEW q, Noticed(job[q], job'[q]), accounts' = accounts,
           job[q].stale \/ CheckHolds(q)
    PROVE  job'[q].stale \/ CheckHolds(q)'
<1>1. /\ job'[q].request = job[q].request /\ job'[q].at = job[q].at
      /\ job'[q].rows = job[q].rows /\ job'[q].next = job[q].next
      /\ job'[q].account = job[q].account /\ (job[q].stale => job'[q].stale)
  BY DEF Noticed
<1>2. /\ NamesAreFree(q)' <=> NamesAreFree(q)
      /\ Name(q)' = Name(q)
      /\ \A a, n : InUse(a, n)' <=> InUse(a, n)
  BY <1>1, FreeOn
<1>3. CheckHolds(q) => CheckHolds(q)'
  BY <1>1, <1>2 DEF CheckHolds, Kind, Items
<1>4. QED
  BY <1>1, <1>3

\* Who has checked a name hears of every account row that is written.
LEMMA Overtaken ==
    ASSUME job \in [Processes -> Job], NEW p \in Processes, NEW j, NEW w, NEW r,
           Overtake(p, j, w, r), w # {}, NEW q \in Processes \ {p}
    PROVE  job'[q].stale \/ CheckHolds(q)'
<1> DEFINE s == job[q].stale \/ (w # {} /\ ChangesAccounts(q))
<1> DEFINE g == job[q].gone \/ (At(q, "toggle", "write") /\ Subject(q) \in r)
<1>1. job'[q] = [job[q] EXCEPT !.stale = s, !.gone = g] /\ job[q] \in Job
  BY DEF Overtake
<1>2. ChangesAccounts(q) => s
  OBVIOUS
<1> HIDE DEF s, g
<1>3. job'[q].stale = s /\ job'[q].request = job[q].request /\ job'[q].at = job[q].at
  BY <1>1, SMT DEF Job
<1>4. ~ChangesAccounts(q) => CheckHolds(q)'
  BY <1>3 DEF ChangesAccounts, CheckHolds, Kind
<1>5. QED
  BY <1>2, <1>3, <1>4

\* One account gets a name that no other has, or is deleted.
LEMMA UniqueUpdate ==
    ASSUME Unique, NEW a \in Accounts,
           \A x \in Accounts \ {a} : accounts'[x] = accounts[x],
           \/ accounts'[a].deleted
           \/ \A x \in Accounts \ {a} : ~InUse(x, accounts'[a].name)
    PROVE  Unique'
<1>1. SUFFICES ASSUME NEW x \in Accounts, NEW y \in Accounts,
                      accounts'[x].name # NoName, ~accounts'[x].deleted,
                      accounts'[y].name = accounts'[x].name, ~accounts'[y].deleted
               PROVE  x = y
  BY DEF Unique, Exists, InUse
<1>2. CASE x = a
  BY <1>1, <1>2 DEF InUse
<1>3. CASE y = a
  BY <1>1, <1>3 DEF InUse
<1>4. CASE x # a /\ y # a
  BY <1>1, <1>4 DEF Unique, Exists, InUse
<1>5. QED
  BY <1>2, <1>3, <1>4

\* What a list of one account, or of accounts without names, writes.
LEMMA CommitNames ==
    ASSUME TypeInv, NEW p \in Processes, CommitAccounts(p), Unique, CheckHolds(p), ~listed'
    PROVE  Unique'
<1>1. /\ StateType /\ job[p] \in Job /\ Kind(p) = "works" /\ job[p].at = "commit"
      /\ job[p].rows = accounts /\ NamesAreFree(p) /\ New \notin Accounts
  BY TypeParts, CommitAccountsParts, AddressBookAssumption DEF CheckHolds
<1>2. PICK fresh \in Fresh(p, {a \in Accounts : accounts[a].name = NoName}) :
          CommitLinks(p, fresh) /\ CommitRows(p, fresh)
  BY CommitAccountsParts
<1> DEFINE saved == {k \in DOMAIN Items(p) :
                         Dirty(p, k) \/ Assigned(p, k) \/ Items(p)[k].id = New}
<1> DEFINE of(a) == CHOOSE i \in saved : RowOf(p, i, fresh) = a
<1>3. PICK name \in [saved -> Names \cup {NoName}] :
          /\ \A i \in saved : name[i] \in NamesFor(p, i)
          /\ accounts' = [a \in Accounts |->
                 IF a \notin Written(p, fresh) THEN accounts[a]
                 ELSE [job[p].rows[a] EXCEPT !.name = name[of(a)]]]
  BY <1>2, Zenon DEF CommitRows
<1>4. /\ Items(p) \in Seq(Item) /\ Len(Items(p)) \in Nat
      /\ DOMAIN Items(p) = 1 .. Len(Items(p))
  BY <1>1, RequestLength DEF Items
<1>5. \A i \in DOMAIN Items(p) : /\ Items(p)[i].id \in Accounts \cup {New}
                               /\ Items(p)[i].id = New => Items(p)[i].value # Keep
  BY <1>1, RequestTypes DEF Items, Kind
<1>6. ASSUME NEW a \in Accounts, a \in Written(p, fresh)
      PROVE  /\ of(a) \in saved /\ of(a) \in DOMAIN Items(p) /\ RowOf(p, of(a), fresh) = a
             /\ accounts'[a].name = name[of(a)]
             /\ accounts'[a].deleted = accounts[a].deleted
  <2>1. \E k \in saved : RowOf(p, k, fresh) = a
    BY <1>6 DEF Written
  <2>2. of(a) \in saved /\ RowOf(p, of(a), fresh) = a
    BY <2>1, Zenon
  <2>3. of(a) \in DOMAIN Items(p)
    BY <2>2
  <2>4. accounts'[a] = [accounts[a] EXCEPT !.name = name[of(a)]] /\ accounts[a] \in Row
    BY <1>1, <1>3, <1>6 DEF StateType
  <2> HIDE DEF of
  <2>5. accounts'[a].name = name[of(a)] /\ accounts'[a].deleted = accounts[a].deleted
    BY <2>4, SMT DEF Row
  <2>6. QED
    BY <2>2, <2>3, <2>5
<1>7. \A a \in Accounts : a \notin Written(p, fresh) => accounts'[a] = accounts[a]
  BY <1>3
<1>8. \A i \in saved : name[i] \in NamesFor(p, i)
  BY <1>3
<1> HIDE DEF of
<1>9. CASE \A i \in DOMAIN Items(p) : Items(p)[i].value = Keep
  <2>1. LastInLoop(p) = {} /\ \A i \in DOMAIN Items(p) : Items(p)[i].id # New
    BY <1>5, <1>9 DEF LastInLoop, Dirty
  <2>2. \A i \in DOMAIN Items(p) : NamesFor(p, i) = {accounts[Items(p)[i].id].name}
    BY <1>1, <1>9, <2>1 DEF NamesFor
  <2>3. ASSUME NEW a \in Accounts, a \in Written(p, fresh)
        PROVE  accounts'[a].name = accounts[a].name
    <3>1. name[of(a)] = accounts[Items(p)[of(a)].id].name
      BY <1>6, <1>8, <2>2, <2>3
    <3>2. Items(p)[of(a)].id = a
      BY <1>6, <2>1, <2>3 DEF RowOf
    <3>3. QED
      BY <1>6, <2>3, <3>1, <3>2
  <2>4. \A a \in Accounts : /\ accounts'[a].name = accounts[a].name
                          /\ accounts'[a].deleted = accounts[a].deleted
    BY <1>6, <1>7, <2>3
  <2>5. QED
    BY <2>4 DEF Unique, Exists, InUse
<1>10. CASE \E i \in DOMAIN Items(p) : Items(p)[i].value # Keep
  <2>1. Len(Items(p)) = 1 /\ DOMAIN Items(p) = {1} /\ Items(p)[1].value # Keep
    <3>1. ~(Len(Items(p)) > 1)
      BY <1>10, CommitAccountsParts
    <3>2. QED
      BY <1>4, <1>10, <3>1
  <2>2. NamesFor(p, 1) = {Items(p)[1].value}
    BY <2>1 DEF NamesFor
  <2>3. \A x \in Accounts : Items(p)[1].id # x => ~InUse(x, Items(p)[1].value)
    <3>1. \A x \in Accounts : x \in Instance(p, 1) => Items(p)[1].id = x
      BY DEF Instance
    <3>2. QED
      BY <1>1, <2>1, <3>1 DEF NamesAreFree
  <2>4. CASE \A a \in Accounts : a \notin Written(p, fresh)
    BY <1>7, <2>4 DEF Unique, Exists, InUse
  <2>5. CASE \E a \in Accounts : a \in Written(p, fresh)
    <3>1. PICK a \in Accounts : a \in Written(p, fresh)
      BY <2>5
    <3>2. a = RowOf(p, 1, fresh) /\ accounts'[a].name = Items(p)[1].value
      BY <1>6, <1>8, <2>1, <2>2, <3>1
    <3>3. \A x \in Accounts \ {a} : x \notin Written(p, fresh)
      BY <1>6, <2>1, <3>2
    <3>4. \A x \in Accounts \ {a} : Items(p)[1].id # x
      BY <1>1, <3>2 DEF RowOf
    <3>5. QED
      BY <1>7, <2>3, <3>1, <3>2, <3>3, <3>4, UniqueUpdate
  <2>6. QED
    BY <2>4, <2>5
<1>11. QED
  BY <1>9, <1>10

\* The checks of a process that acts and writes no account.
LEMMA MyCheck ==
    ASSUME TypeInv, LockInv, NEW p \in Processes, Act(p), ~CreateAccount(p),
           accounts' = accounts, job[p].stale \/ CheckHolds(p)
    PROVE  job'[p].stale \/ CheckHolds(p)'
<1>1. /\ job \in [Processes -> Job] /\ job[p] \in Job /\ Idle.at = "idle"
  BY TypeParts DEF Idle
<1>2. ASSUME job'[p].request = job[p].request
      PROVE  /\ NamesAreFree(p)' <=> NamesAreFree(p)
             /\ Kind(p)' = Kind(p) /\ Items(p)' = Items(p)
  BY <1>2, FreeOn DEF Kind, Items
<1>3. CASE job'[p].at \in {"idle", "load", "look", "reload", "format"}
  BY <1>3 DEF CheckHolds
<1>4. CASE LookUp(p) /\ job'[p].at = "create" /\ job'[p] = [job[p] EXCEPT !.at = "create"]
  <2>1. /\ job'[p].request = job[p].request /\ job'[p].next = job[p].next
    BY <1>1, <1>4, SMT DEF Job
  <2>2. job'[p] # Idle /\ job'[p].at # NextRow(p).at
    BY <1>1, <1>4, NextRowFields
  <2>3. \A a \in Accounts : ~InUse(a, Name(p))
    BY <1>1, <1>4, <2>2, JobAfter DEF LookUp
  <2>4. \A a \in Accounts : ~InUse(a, Name(p))'
    BY <2>1, <2>3, FreeOn DEF InUse
  <2>5. QED
    BY <1>4, <2>4 DEF CheckHolds
<1>5. CASE LinkDetail(p) /\ job'[p] = job[p]
  <2>1. Noticed(job[p], job'[p])
    BY <1>1, <1>5 DEF Noticed
  <2>2. QED
    BY <2>1, ChecksHoldOn
<1>6. CASE LoadContact(p) /\ job'[p].request = job[p].request /\ job'[p].at \in {"check", "write"}
  BY <1>2, <1>6 DEF LoadContact, Saving, CheckHolds
<1>7. CASE CheckNumbers(p) /\ job'[p].request = job[p].request /\ job'[p].at = "lock"
  BY <1>2, <1>7 DEF CheckNumbers, At, CheckHolds
<1>8. CASE CheckAccounts(p) /\ job'[p].request = job[p].request /\ job'[p].at = "lock"
  <2>1. NamesAreFree(p) /\ Kind(p) = "works"
    BY <1>1, <1>8, JobAfter DEF CheckAccounts, At
  <2>2. QED
    BY <1>2, <1>8, <2>1 DEF CheckHolds
<1>9. CASE Lock(p) /\ job'[p].request = job[p].request /\ job'[p].at = "commit"
  <2>1. Kind(p) \in {"numbers", "works"} /\ job[p].at = "lock"
    BY <1>9 DEF Lock, LockInv, Saving
  <2> DEFINE x == IF Kind(p) = "numbers" THEN linked ELSE functions
  <2> DEFINE y == IF Kind(p) = "numbers" THEN NoRows ELSE accounts
  <2> DEFINE n == IF Kind(p) = "numbers" THEN LinkedNumbers ELSE NoNumbers
  <2>2. job'[p] = [job[p] EXCEPT !.at = "commit", !.seen = x, !.numbers = n, !.rows = y]
    BY <1>1, <1>9, JobAfter DEF Lock
  <2>3. Kind(p) = "works" => y = accounts
    OBVIOUS
  <2> HIDE DEF x, y, n
  <2>4. job'[p].rows = y /\ job'[p].stale = job[p].stale
    BY <1>1, <2>2, SMT DEF Job
  <2>5. CheckHolds(p) => CheckHolds(p)'
    BY <1>2, <1>9, <2>1, <2>3, <2>4 DEF CheckHolds
  <2>6. QED
    BY <2>4, <2>5
<1>10. CASE LoadFunction(p) /\ job'[p].request = job[p].request /\ job'[p].at = "write"
  BY <1>2, <1>10 DEF LoadFunction, At, CheckHolds
<1>11. CASE CheckName(p) /\ job'[p].request = job[p].request /\ job'[p].at = "write"
  <2>1. NamesAreFree(p) /\ Kind(p) = "account" /\ job[p].at = "check"
        /\ job'[p] = [job[p] EXCEPT !.at = "write"]
    BY <1>1, <1>11, JobAfter DEF CheckName, At
  <2>2. job'[p].rows = job[p].rows /\ job'[p].stale = job[p].stale
    BY <1>1, <2>1, SMT DEF Job
  <2>3. CheckHolds(p) => CheckHolds(p)'
    BY <1>2, <1>11, <2>1, <2>2 DEF CheckHolds
  <2>4. QED
    BY <2>2, <2>3
<1>12. CASE LoadAccount(p) /\ job'[p].request = job[p].request /\ job'[p].at \in {"check", "write"}
  <2> DEFINE s == IF Items(p)[1].remove THEN "write" ELSE "check"
  <2>1. Kind(p) = "account" /\ job'[p] = [job[p] EXCEPT !.rows = accounts, !.at = s]
    BY <1>1, <1>12, JobAfter DEF LoadAccount, At
  <2>2. s = "write" => Items(p)[1].remove
    OBVIOUS
  <2> HIDE DEF s
  <2>3. job'[p].rows = accounts /\ job'[p].at = s
    BY <1>1, <2>1, SMT DEF Job
  <2>4. QED
    BY <1>2, <1>12, <2>1, <2>2, <2>3 DEF CheckHolds
<1>13. QED
  BY <1>3, <1>4, <1>5, <1>6, <1>7, <1>8, <1>9, <1>10, <1>11, <1>12, Landings

\* A step that writes no account.
LEMMA OtherNames ==
    ASSUME TypeInv, LockInv, NameInv, NEW p \in Processes, Act(p), ~CreateAccount(p),
           accounts' = accounts, raced' = raced, listed' = listed
    PROVE  NameInv'
<1>1. \A q \in Processes \ {p} : Noticed(job[q], job'[q])
  BY ActFrame
<1>2. SUFFICES ASSUME ~raced, ~listed
               PROVE  Unique' /\ \A q \in Processes : (job[q].stale \/ CheckHolds(q))'
  BY DEF NameInv
<1>3. Unique /\ \A q \in Processes : job[q].stale \/ CheckHolds(q)
  BY <1>2 DEF NameInv
<1>4. Unique'
  BY <1>3 DEF Unique, Exists, InUse
<1>5. ASSUME NEW q \in Processes PROVE job'[q].stale \/ CheckHolds(q)'
  BY <1>1, <1>3, MyCheck, ChecksHoldOn
<1>6. QED
  BY <1>4, <1>5

\* A step that does.
LEMMA WrittenNames ==
    ASSUME TypeInv, NameInv, NEW p \in Processes, NEW j, NEW w, NEW r,
           Overtake(p, j, w, r), w # {}, raced => raced', listed => listed',
           ~raced' /\ ~listed' /\ Unique => Unique' /\ CheckHolds(p)'
    PROVE  NameInv'
<1>1. job \in [Processes -> Job]
  BY TypeParts
<1>2. \A q \in Processes \ {p} : job'[q].stale \/ CheckHolds(q)'
  BY <1>1, Overtaken
<1>3. QED
  BY <1>2 DEF NameInv

LEMMA NameStep ==
    ASSUME TypeInv, LockInv, NameInv, [Next]_vars
    PROVE  NameInv'
<1>1. CASE UNCHANGED vars
  <2>1. accounts' = accounts /\ job' = job /\ raced' = raced /\ listed' = listed
    BY <1>1 DEF vars, allButJob, book, history
  <2>2. \A q \in Processes : /\ (NamesAreFree(q)' <=> NamesAreFree(q)) /\ Name(q)' = Name(q)
                            /\ \A a, n : InUse(a, n)' <=> InUse(a, n)
    BY <2>1, FreeOn
  <2>3. ASSUME NEW q \in Processes, job[q].stale \/ CheckHolds(q)
        PROVE  job'[q].stale \/ CheckHolds(q)'
    BY <2>1, <2>2, <2>3 DEF CheckHolds, Kind, Items
  <2>4. Unique => Unique'
    BY <2>1 DEF Unique, Exists, InUse
  <2>5. QED
    BY <2>1, <2>3, <2>4 DEF NameInv
<1>2. ASSUME NEW p \in Processes, Act(p) PROVE NameInv'
  <2>1. /\ StateType /\ job \in [Processes -> Job] /\ job[p] \in Job /\ JobFits(job[p], Stored)
    BY TypeParts
  <2>2. ~raced /\ ~listed => Unique /\ (job[p].stale \/ CheckHolds(p))
    BY <1>2 DEF NameInv
  <2>3. CASE CommitAccounts(p)
    <3>1. PICK fresh : CommitLinks(p, fresh) /\ CommitRows(p, fresh)
      BY <2>3, CommitAccountsParts
    <3>2. /\ Overtake(p, Reloads(p), Written(p, fresh), Dropped(p))
          /\ raced' = (raced \/ (job[p].stale /\ Written(p, fresh) # {}))
      BY <3>1 DEF CommitLinks
    <3>3. (raced => raced') /\ (listed => listed')
      BY <2>3, <3>2, CommitAccountsParts
    <3>4. job'[p].at = "reload"
      BY <2>1, <3>2, JobAfter, ReloadFields
    <3>5. CheckHolds(p)'
      BY <3>4 DEF CheckHolds
    <3>6. CASE Written(p, fresh) = {}
      <4>1. accounts' = accounts
        BY <2>1, <3>1, <3>6, Zenon DEF CommitRows, StateType
      <4>2. \A q \in Processes \ {p} : Noticed(job[q], job'[q])
        BY <1>2, ActFrame
      <4>3. ~raced /\ ~listed => \A q \in Processes : job'[q].stale \/ CheckHolds(q)'
        BY <3>5, <4>1, <4>2, ChecksHoldOn DEF NameInv
      <4>4. Unique => Unique'
        BY <4>1 DEF Unique, Exists, InUse
      <4>5. QED
        BY <3>3, <4>3, <4>4 DEF NameInv
    <3>7. CASE Written(p, fresh) # {}
      <4>1. ~raced' => ~raced /\ ~job[p].stale
        BY <3>2, <3>7
      <4>2. ~raced' /\ ~listed' => Unique'
        BY <2>2, <2>3, <3>3, <4>1, CommitNames
      <4>3. QED
        BY <3>2, <3>3, <3>5, <3>7, <4>2, WrittenNames
    <3>8. QED
      BY <3>6, <3>7
  <2>4. CASE SaveAccount(p)
    <3> DEFINE a == Subject(p)
    <3>1. /\ accounts' = [accounts EXCEPT ![a] =
                  IF Items(p)[1].remove THEN [job[p].rows[a] EXCEPT !.deleted = TRUE]
                  ELSE [job[p].rows[a] EXCEPT !.name = Items(p)[1].value]]
          /\ raced' = (raced \/ job[p].stale) /\ listed' = listed
          /\ Overtake(p, Idle, {a}, {}) /\ Kind(p) = "account" /\ job[p].at = "write"
      BY <2>4 DEF SaveAccount, At
    <3>2. /\ a \in Accounts /\ 1 \in DOMAIN Items(p)
          /\ DOMAIN Items(p) = 1 .. 1 /\ New \notin Accounts
      <4>1. /\ a \in Accounts /\ 1 \in DOMAIN Items(p) /\ Len(Items(p)) = 1
        BY <2>1, <3>1, SubjectType DEF Subject, Items, Kind
      <4>2. Items(p) \in Seq(Item)
        BY <2>1, RequestLength DEF Items
      <4>3. QED
        BY <4>1, <4>2, AddressBookAssumption
    <3>3. CheckHolds(p)'
      <4>1. job'[p].at = "idle"
        BY <2>1, <3>1, JobAfter DEF Idle
      <4>2. QED
        BY <4>1 DEF CheckHolds
    <3>4. ASSUME ~raced', ~listed' PROVE Unique'
      <4>1. Unique /\ CheckHolds(p)
        BY <2>2, <3>1, <3>4
      <4>2. \A x \in Accounts \ {a} : accounts'[x] = accounts[x]
        BY <2>1, <3>1 DEF StateType
      <4>3. job[p].rows[a] \in Row
        BY <2>1, <3>2, JobParts
      <4>4. CASE Items(p)[1].remove
        <5>1. accounts'[a] = [job[p].rows[a] EXCEPT !.deleted = TRUE]
          BY <2>1, <3>1, <3>2, <4>4 DEF StateType
        <5>2. \A c : [job[p].rows[a] EXCEPT !.deleted = c].deleted = c
          BY <4>3, SMT DEF Row
        <5>3. accounts'[a].deleted
          BY <5>1, <5>2, Zenon
        <5>4. QED
          BY <3>2, <4>1, <4>2, <5>3, UniqueUpdate
      <4>5. CASE ~Items(p)[1].remove
        <5>1. accounts'[a] = [job[p].rows[a] EXCEPT !.name = Items(p)[1].value]
          BY <2>1, <3>1, <3>2, <4>5 DEF StateType
        <5>2. accounts'[a].name = Items(p)[1].value
          BY <4>3, <5>1, SMT DEF Row
        <5>3. NamesAreFree(p)
          BY <3>1, <4>1, <4>5 DEF CheckHolds
        <5>4. \A x \in Accounts : x \in Instance(p, 1) => x = a
          BY DEF Instance, Subject
        <5>5. \A x \in Accounts \ {a} : ~InUse(x, accounts'[a].name)
          BY <3>2, <5>2, <5>3, <5>4 DEF NamesAreFree
        <5>6. QED
          BY <3>2, <4>1, <4>2, <5>5, UniqueUpdate
      <4>6. QED
        BY <4>4, <4>5
    <3>5. QED
      BY <3>1, <3>3, <3>4, WrittenNames
  <2>5. CASE CreateAccount(p)
    <3>1. PICK a \in Accounts :
              /\ accounts' = [accounts EXCEPT ![a] = [name |-> Name(p), deleted |-> FALSE]]
              /\ raced' = (raced \/ job[p].stale)
              /\ Overtake(p, [job[p] EXCEPT !.account = a, !.at = "link"], {a}, {})
      BY <2>5 DEF CreateAccount
    <3>2. listed' = listed /\ Kind(p) = "import" /\ job[p].at = "create"
      BY <2>5 DEF CreateAccount, At
    <3>3. accounts'[a] = [name |-> Name(p), deleted |-> FALSE]
          /\ \A x \in Accounts \ {a} : accounts'[x] = accounts[x]
      BY <2>1, <3>1 DEF StateType
    <3>4. job'[p] = [job[p] EXCEPT !.account = a, !.at = "link"]
      BY <2>1, <3>1, JobAfter
    <3>5. /\ job'[p].request = job[p].request /\ job'[p].next = job[p].next
          /\ job'[p].account = a /\ job'[p].at = "link"
      BY <2>1, <3>4, SMT DEF Job
    <3>6. Name(p)' = Name(p) /\ Kind(p)' = "import"
      BY <3>2, <3>5 DEF Name, Items, Kind
    <3>7. CheckHolds(p)'
      BY <3>3, <3>5, <3>6 DEF CheckHolds
    <3>8. ASSUME ~raced', ~listed' PROVE Unique'
      <4>1. Unique /\ CheckHolds(p)
        BY <2>2, <3>1, <3>2, <3>8
      <4>2. \A x \in Accounts : ~InUse(x, Name(p))
        BY <3>2, <4>1 DEF CheckHolds
      <4>3. accounts'[a].name = Name(p)
        BY <3>3
      <4>4. QED
        BY <3>3, <4>1, <4>2, <4>3, UniqueUpdate
    <3>9. QED
      BY <3>1, <3>2, <3>7, <3>8, WrittenNames
  <2>6. CASE StoreAgain(p)
    <3> DEFINE a == job[p].account
    <3>1. /\ accounts' = [accounts EXCEPT ![a] = [name |-> Name(p), deleted |-> FALSE]]
          /\ raced' = (raced \/ job[p].stale) /\ listed' = listed
          /\ Overtake(p, NextRow(p), {a}, {}) /\ Kind(p) = "import" /\ job[p].at = "link"
      BY <2>6 DEF StoreAgain, At
    <3>2. CheckHolds(p)'
      <4>1. job'[p].at = "look"
        BY <2>1, <3>1, JobAfter, NextRowFields, ZenonT(60)
      <4>2. QED
        BY <4>1 DEF CheckHolds
    <3>3. ASSUME ~raced', ~listed' PROVE Unique'
      <4>1. Unique /\ CheckHolds(p)
        BY <2>2, <3>1, <3>3
      <4>2. accounts[a] = [name |-> Name(p), deleted |-> FALSE]
        BY <3>1, <4>1 DEF CheckHolds
      <4>3. \A x \in Accounts : accounts'[x] = accounts[x]
        BY <2>1, <3>1, <4>2 DEF StateType
      <4>4. QED
        BY <4>1, <4>3 DEF Unique, Exists, InUse
    <3>4. QED
      BY <3>1, <3>2, <3>3, WrittenNames
  <2>7. CASE \/ Begin(p) \/ LoadContact(p) \/ CheckNumbers(p) \/ CheckAccounts(p) \/ Lock(p)
             \/ CommitNumbers(p) \/ RollBack(p) \/ LoadNumbers(p) \/ FormatNumber(p)
             \/ EndSave(p) \/ DeleteContact(p) \/ LoadFunction(p) \/ SaveFunction(p)
             \/ LoadAccount(p) \/ CheckName(p) \/ LookUp(p) \/ CreateFails(p)
             \/ LinkDetail(p) \/ LinkFails(p) \/ Die(p)
    <3>1. accounts' = accounts /\ raced' = raced /\ listed' = listed
      BY <2>7 DEF Begin, LoadContact, CheckNumbers, CheckAccounts, Lock, CommitNumbers,
            RollBack, LoadNumbers, FormatNumber, EndSave, DeleteContact, LoadFunction,
            SaveFunction, LoadAccount, CheckName, LookUp, CreateFails, LinkDetail, LinkFails, Die,
            allButJob, book, history
    <3>2. QED
      BY <1>2, <2>5, <3>1, OtherNames, SMTT(30)
  <2>8. QED
    BY <1>2, <2>3, <2>4, <2>5, <2>6, <2>7 DEF Act
<1>3. QED
  BY <1>1, <1>2, NextActs

\* No two accounts have one name, while rows are written as they were checked and
\* lists are of one account.  (accounts/api/validators.py, accounts/api/views.py:166.)
THEOREM NamesStayUnique == Spec => []NamesUnique
<1>1. Init => NameInv
  <2>1. SUFFICES ASSUME Init PROVE NameInv
    OBVIOUS
  <2>2. PICK s \in Scenarios : scenario = s
    BY <2>1 DEF Init
  <2>3. \A a, b \in Accounts : s.named[a] = s.named[b] => a = b \/ s.named[a] = NoName
    BY AddressBookAssumption
  <2>4. \A a \in Accounts : accounts[a].name = s.named[a]
    BY <2>1, <2>2 DEF Init
  <2>5. Unique
    BY <2>3, <2>4 DEF Unique, Exists, InUse
  <2>6. Idle.at = "idle"
    BY DEF Idle
  <2>7. \A q \in Processes : CheckHolds(q)
    BY <2>1, <2>6 DEF Init, CheckHolds
  <2>8. QED
    BY <2>5, <2>7 DEF NameInv
<1>2. TypeInv /\ LockInv /\ NameInv /\ [Next]_vars => NameInv'
  BY NameStep
<1>3. NameInv => NamesUnique
  BY DEF NameInv, NamesUnique, Unique
<1>4. QED
  BY <1>1, <1>2, <1>3, TypeInvariant, LockInvariant, PTL DEF Spec
=============================================================================
