--------------------------- MODULE MoneybirdProofs ---------------------------
(***************************************************************************)
(* What holds of Moneybird for any processes, names, scenarios and bounds. *)
(***************************************************************************)
EXTENDS Moneybird, SequenceTheorems, TLAPS

-----------------------------------------------------------------------------
(* Types.  A process has the credentials once it has loaded them, and only *)
(* an import is at the import's steps; what an entry is stored with is     *)
(* known by then.                                                          *)

Loaded == {"refresh", "keep", "use", "install"}
ImportSteps == {"fetch", "contact", "account", "details", "commit", "ended"}

WellFormed(j) ==
    /\ j \in Job
    /\ j.at \in Loaded => j.cred \in Blob
    /\ j.at \in ImportSteps => j.kind = "import" /\ j.page # 0
    /\ j.at \in {"search", "push"} => j.kind = "save"
    /\ j.at \in {"details", "commit"} /\ j.entry.firm # NoFirm => j.firm # NoRow
    /\ j.at = "commit" => /\ j.person # NoRow \/ j.firm # NoRow
                          /\ ~j.found => j.entry.item # NoItem

TypeInv == TypeOK /\ \A p \in Processes : WellFormed(job[p])

\* A detail that is stored or formatted is one, in a spelling of its own; formatting
\* it again leaves it so.
LEMMA SpellingTypes ==
    ASSUME NEW i \in Items
    PROVE  /\ i # NoItem /\ Stored(i) \in Items /\ Reformatted(i) \in Items
           /\ Spellings(i) \subseteq Items
           /\ i \in Spellings(i) /\ Stored(i) \in Spellings(i) /\ Reformatted(i) \in Spellings(i)
           /\ \A s \in Spellings(i) : Reformatted(s) \in Spellings(i)
<1>1. /\ Stored(i) \in Items /\ Reformatted(i) \in Items /\ i # NoItem
      /\ Reformatted(Stored(i)) \in {Stored(i), Reformatted(i)}
      /\ Reformatted(Reformatted(i)) = Reformatted(i)
  BY MoneybirdAssumption, ZenonT(60) DEF Stored, Reformatted, Items
<1>2. QED
  BY <1>1 DEF Spellings

LEMMA NoItemStays == Stored(NoItem) = NoItem /\ Reformatted(NoItem) = NoItem
BY MoneybirdAssumption DEF Stored, Reformatted, Items

LEMMA RecordTypes ==
    /\ NoEntry \in Entry
    /\ NoRow \notin Row
    /\ \A n \in Names : New(n) \in Row
    /\ \A auto \in BOOLEAN : [grant |-> 0, auto |-> auto] \in Blob
    /\ WellFormed(Idle)
<1>1. NoEntry \in Entry
  BY SMT DEF NoEntry, Entry
<1>2. NoRow \notin Row /\ \A n \in Names : New(n) \in Row
  BY MoneybirdAssumption, SMT DEF Row, New, NoRow
<1>3. \A auto \in BOOLEAN : [grant |-> 0, auto |-> auto] \in Blob
  BY SMT DEF Blob
<1>4. Idle \in Job
  BY <1>1, SMT DEF Idle, Job
<1>5. QED
  BY <1>1, <1>2, <1>3, <1>4 DEF WellFormed, Idle, Loaded, ImportSteps

\* Setting one field of a job.
LEMMA JobField ==
    ASSUME NEW j \in Job
    PROVE  /\ \A s \in Steps : [j EXCEPT !.at = s] \in Job
           /\ \A k \in Requests \cup {"import"} : [j EXCEPT !.kind = k] \in Job
           /\ \A c \in Blob : [j EXCEPT !.cred = c] \in Job
           /\ \A n \in Nat : [j EXCEPT !.page = n] \in Job
           /\ \A e \in Entry : [j EXCEPT !.entry = e] \in Job
           /\ \A r \in Row \cup {NoRow} : /\ [j EXCEPT !.person = r] \in Job
                                          /\ [j EXCEPT !.firm = r] \in Job
           /\ \A b \in BOOLEAN : /\ [j EXCEPT !.stale = b] \in Job
                                 /\ [j EXCEPT !.found = b] \in Job
                                 /\ [j EXCEPT !.smooth = b] \in Job
                                 /\ [j EXCEPT !.refused = b] \in Job
BY SMT DEF Job

\* The fields of a job.
LEMMA JobParts ==
    ASSUME NEW j \in Job
    PROVE  /\ j.kind \in Requests \cup {"import", "idle"} /\ j.at \in Steps \cup {"idle"}
           /\ j.cred \in Blob \cup {NoBlob} /\ j.page \in Nat /\ j.entry \in Entry
           /\ j.person \in Row \cup {NoRow} /\ j.firm \in Row \cup {NoRow}
           /\ j.stale \in BOOLEAN /\ j.found \in BOOLEAN
           /\ j.smooth \in BOOLEAN /\ j.refused \in BOOLEAN
BY DEF Job

\* The flags of others that a step may set keep a job well formed.
LEMMA FlagsType ==
    ASSUME TypeInv, NEW q \in Processes
    PROVE  WellFormed(Outdated(q)) /\ WellFormed(MissedSomething(q))
<1>1. WellFormed(job[q])
  BY DEF TypeInv
<1>2. WellFormed([job[q] EXCEPT !.stale = TRUE])
  <2> DEFINE j == [job[q] EXCEPT !.stale = TRUE]
  <2>1. j \in Job
    BY <1>1, JobField DEF WellFormed
  <2>2. /\ j.kind = job[q].kind /\ j.at = job[q].at /\ j.cred = job[q].cred
        /\ j.page = job[q].page /\ j.entry = job[q].entry /\ j.found = job[q].found
        /\ j.person = job[q].person /\ j.firm = job[q].firm
    BY <1>1 DEF WellFormed, Job
  <2>3. QED
    BY <1>1, <2>1, <2>2 DEF WellFormed
<1>3. WellFormed([job[q] EXCEPT !.smooth = FALSE])
  <2> DEFINE j == [job[q] EXCEPT !.smooth = FALSE]
  <2>1. j \in Job
    BY <1>1, JobField DEF WellFormed
  <2>2. /\ j.kind = job[q].kind /\ j.at = job[q].at /\ j.cred = job[q].cred
        /\ j.page = job[q].page /\ j.entry = job[q].entry /\ j.found = job[q].found
        /\ j.person = job[q].person /\ j.firm = job[q].firm
    BY <1>1 DEF WellFormed, Job
  <2>3. QED
    BY <1>1, <2>1, <2>2 DEF WellFormed
<1>4. QED
  BY <1>1, <1>2, <1>3 DEF Outdated, MissedSomething

\* A job in its place.
LEMMA JobTypes ==
    ASSUME TypeInv, NEW p \in Processes, NEW j, WellFormed(j),
           \/ Become(p, j)
           \/ job' = [q \in Processes |-> IF q = p THEN j ELSE Outdated(q)]
           \/ job' = [q \in Processes |-> IF q = p THEN j ELSE MissedSomething(q)]
    PROVE  /\ job' \in [Processes -> Job]
           /\ \A q \in Processes : WellFormed(job'[q])
<1>1. job \in [Processes -> Job] /\ \A q \in Processes : WellFormed(job[q])
  BY DEF TypeInv, TypeOK
<1>2. ASSUME NEW q \in Processes PROVE job'[q] \in {j, job[q], Outdated(q), MissedSomething(q)}
  BY <1>1 DEF Become
<1>3. \A q \in Processes : WellFormed(job'[q])
  BY <1>1, <1>2, FlagsType
<1>4. job' = [q \in Processes |-> job'[q]]
  BY <1>1, SMTT(30) DEF Become
<1>5. QED
  BY <1>3, <1>4 DEF WellFormed

\* Steps to be taken with nothing in hand but the kind of a job.
LEMMA NewJobs ==
    /\ \A k \in Requests \cup {"import"} : \A s \in {"put", "load"} :
          WellFormed([Idle EXCEPT !.kind = k, !.at = s])
    /\ \A e \in Entry : WellFormed([Idle EXCEPT !.kind = "save", !.at = "load", !.entry = e])
<1>1. Idle \in Job
  BY RecordTypes DEF WellFormed
<1>2. ASSUME NEW k \in Requests \cup {"import"}, NEW s \in {"put", "load"}
      PROVE  WellFormed([Idle EXCEPT !.kind = k, !.at = s])
  <2> DEFINE j == [[Idle EXCEPT !.kind = k] EXCEPT !.at = s]
  <2>1. j \in Job
    BY <1>1, JobField DEF Steps
  <2>2. j.at = s /\ s \notin Loaded \cup ImportSteps \cup {"details", "commit"}
    BY DEF Idle, Loaded, ImportSteps
  <2>3. WellFormed(j)
    BY <2>1, <2>2 DEF WellFormed
  <2>4. QED
    BY <2>3
<1>3. ASSUME NEW e \in Entry
      PROVE  WellFormed([Idle EXCEPT !.kind = "save", !.at = "load", !.entry = e])
  <2> DEFINE j == [[[Idle EXCEPT !.kind = "save"] EXCEPT !.at = "load"] EXCEPT !.entry = e]
  <2>1. [[Idle EXCEPT !.kind = "save"] EXCEPT !.at = "load"] \in Job
    BY <1>1, JobField DEF Steps, Requests
  <2>2. j \in Job
    BY <2>1, JobField
  <2>3. j.at = "load"
    BY DEF Idle
  <2>4. WellFormed(j)
    BY <2>2, <2>3 DEF WellFormed, Loaded, ImportSteps
  <2>5. QED
    BY <2>4
<1>4. QED
  BY <1>2, <1>3

-----------------------------------------------------------------------------
(* Every step keeps the types.                                             *)

\* The parts of TypeOK that are not about jobs.
StateType ==
    /\ scenario \in Scenarios
    /\ details \in BOOLEAN
    /\ blob \in Blob \cup {NoBlob}
    /\ granted \in Nat
    /\ expired \subseteq 1 .. granted
    /\ queued \in Nat
    /\ book \in Seq(Entry)
    /\ rows \in [Names -> Nat]
    /\ prospects \subseteq Firms
    /\ links \subseteq Row \X Row
    /\ held \subseteq Row \X Items
    /\ twice \subseteq held
    /\ begun \in Nat
    /\ wanted \in BOOLEAN /\ raced \in BOOLEAN
    /\ lost \in BOOLEAN /\ overlapped \in BOOLEAN

LEMMA TypeParts ==
    /\ TypeOK <=> StateType /\ job \in [Processes -> Job]
    /\ TypeInv <=> TypeOK /\ \A p \in Processes : WellFormed(job[p])
    /\ (TypeOK <=> StateType /\ job \in [Processes -> Job])'
    /\ (TypeInv <=> TypeOK /\ \A p \in Processes : WellFormed(job[p]))'
BY DEF TypeOK, StateType, TypeInv

\* A step that is only about the job of p.
LEMMA AloneType ==
    ASSUME TypeInv, NEW p \in Processes, NEW j, WellFormed(j), Become(p, j),
           UNCHANGED allButJob
    PROVE  TypeInv'
<1>1. StateType'
  BY TypeParts DEF StateType, allButJob, credentials, provider, crm, history
<1>2. job' \in [Processes -> Job] /\ \A q \in Processes : WellFormed(job'[q])
  BY JobTypes
<1>3. (\A q \in Processes : WellFormed(job[q]))'
  BY <1>2 DEF WellFormed, Job, Blob, Entry, Names, Items, Row
<1>4. QED
  BY <1>1, <1>2, <1>3, TypeParts

\* Leaving or going to a step where nothing has to be known.
LEMMA GoType ==
    ASSUME NEW j \in Job, NEW s \in {"none", "queue", "search", "push", "put", "load"},
           s \in {"search", "push"} => j.kind = "save"
    PROVE  WellFormed([j EXCEPT !.at = s])
<1> DEFINE k == [j EXCEPT !.at = s]
<1>1. s \in Steps
  BY DEF Steps
<1>2. k \in Job
  BY <1>1, JobField
<1>3. k.at = s /\ k.kind = j.kind
  BY DEF Job
<1>4. QED
  BY <1>2, <1>3 DEF WellFormed, Loaded, ImportSteps

LEMMA LoadType == ASSUME TypeInv, NEW p \in Processes, LoadCredentials(p) PROVE TypeInv'
<1>1. job[p] \in Job /\ WellFormed(job[p]) /\ blob \in Blob \cup {NoBlob}
  BY DEF TypeInv, TypeOK
<1>2. CASE ~details
  BY <1>1, <1>2, GoType, AloneType DEF LoadCredentials, Goto
<1>3. CASE details /\ blob = NoBlob
  BY <1>1, <1>3, RecordTypes, AloneType DEF LoadCredentials, Finish
<1>4. CASE details /\ blob # NoBlob
  <2> DEFINE s == IF blob.grant \in expired THEN "refresh" ELSE "use"
             j == [[[job[p] EXCEPT !.cred = blob] EXCEPT !.stale = FALSE] EXCEPT !.at = s]
  <2>1. blob \in Blob
    BY <1>1, <1>4
  <2>2. [[job[p] EXCEPT !.cred = blob] EXCEPT !.stale = FALSE] \in Job
    BY <1>1, <2>1, JobField
  <2>3. j \in Job
    BY <2>2, JobField DEF Steps
  <2>4. j.at = s /\ j.cred = blob
    BY <1>1 DEF Job
  <2>5. WellFormed(j)
    BY <2>1, <2>3, <2>4 DEF WellFormed, Loaded, ImportSteps
  <2>6. Become(p, j)
    BY <1>4 DEF LoadCredentials
  <2>7. QED
    BY <2>5, <2>6, AloneType DEF LoadCredentials
<1>5. QED
  BY <1>2, <1>3, <1>4

\* Ways to end, and what follows the use of the credentials.
LEMMA SimpleTypes ==
    ASSUME TypeInv, NEW p \in Processes,
           \/ NoCredentials(p) \/ ShowEstimates(p) \/ PushOrNot(p) \/ EndImport(p)
    PROVE  TypeInv'
<1>1. job[p] \in Job /\ WellFormed(Idle)
  BY RecordTypes DEF TypeInv, TypeOK
<1>2. UNCHANGED allButJob
  BY DEF NoCredentials, ShowEstimates, PushOrNot, EndImport
<1>3. \/ Become(p, Idle)
      \/ job[p].kind = "save" /\ Become(p, [job[p] EXCEPT !.at = "search"])
  BY DEF NoCredentials, ShowEstimates, PushOrNot, EndImport, Finish, Goto, At
<1>4. QED
  BY <1>1, <1>2, <1>3, GoType, AloneType

LEMMA SearchType == ASSUME TypeInv, NEW p \in Processes, Search(p) PROVE TypeInv'
<1>1. job[p] \in Job /\ WellFormed(Idle)
  BY RecordTypes DEF TypeInv, TypeOK
<1>2. CASE Finish(p)
  BY <1>1, <1>2, AloneType DEF Search, Finish
<1>3. CASE Become(p, [job[p] EXCEPT !.found = Hits(p) # {}, !.at = "push"])
  <2> DEFINE k == [job[p] EXCEPT !.found = Hits(p) # {}]
  <2>1. k \in Job /\ k.kind = "save"
    <3>1. job[p].kind = "save"
      BY DEF Search, TypeInv, WellFormed
    <3>2. k \in Job
      BY <1>1, JobField
    <3>3. QED
      BY <1>1, <3>1, <3>2 DEF Job
  <2>2. WellFormed([k EXCEPT !.at = "push"])
    BY <2>1, GoType
  <2>3. QED
    BY <1>3, <2>2, AloneType DEF Search
<1>4. QED
  BY <1>2, <1>3 DEF Search

LEMMA StartImportType == ASSUME TypeInv, NEW p \in Processes, StartImport(p) PROVE TypeInv'
<1> DEFINE j == [[[job[p] EXCEPT !.stale = FALSE] EXCEPT !.page = 1] EXCEPT !.at = "fetch"]
<1>1. job[p] \in Job /\ job[p].kind = "import"
  BY DEF TypeInv, TypeOK, StartImport, At
<1>2. [[job[p] EXCEPT !.stale = FALSE] EXCEPT !.page = 1] \in Job
  BY <1>1, JobField
<1>3. j \in Job
  BY <1>2, JobField DEF Steps
<1>4. j.at = "fetch" /\ j.page = 1 /\ j.kind = "import"
  BY <1>1 DEF Job
<1>5. WellFormed(j)
  BY <1>3, <1>4 DEF WellFormed, Loaded, ImportSteps
<1>6. Become(p, j)
  BY DEF StartImport
<1>7. QED
  BY <1>5, <1>6, AloneType DEF StartImport

LEMMA FetchType == ASSUME TypeInv, NEW p \in Processes, FetchPage(p) PROVE TypeInv'
<1>1. /\ job[p] \in Job /\ job[p].kind = "import" /\ job[p].at = "fetch"
      /\ job[p].page \in Nat \ {0} /\ book \in Seq(Entry)
  BY JobParts DEF TypeInv, TypeOK, FetchPage, At, WellFormed, ImportSteps
<1>2. CASE Goto(p, "ended")
  <2> DEFINE j == [job[p] EXCEPT !.at = "ended"]
  <2>1. j \in Job
    BY <1>1, JobField DEF Steps
  <2>2. j.at = "ended" /\ j.page = job[p].page /\ j.kind = "import"
    BY <1>1 DEF Job
  <2>3. WellFormed(j)
    BY <1>1, <2>1, <2>2 DEF WellFormed, Loaded, ImportSteps
  <2>4. QED
    BY <1>2, <2>3, AloneType DEF FetchPage, Goto
<1>3. CASE /\ ~LastPage(p)
           /\ Become(p, [job[p] EXCEPT !.entry = book[job[p].page], !.at = "contact"])
  <2> DEFINE e == book[job[p].page]
             j == [[job[p] EXCEPT !.entry = e] EXCEPT !.at = "contact"]
  <2>1. e \in Entry
    BY <1>1, <1>3 DEF LastPage
  <2>2. [job[p] EXCEPT !.entry = e] \in Job
    BY <1>1, <2>1, JobField
  <2>3. j \in Job
    BY <2>2, JobField DEF Steps
  <2>4. j.at = "contact" /\ j.page = job[p].page /\ j.kind = "import"
    BY <1>1 DEF Job
  <2>5. WellFormed(j)
    BY <1>1, <2>3, <2>4 DEF WellFormed, Loaded, ImportSteps
  <2>6. QED
    BY <1>3, <2>5, AloneType DEF FetchPage
<1>4. CASE Become(p, [job[p] EXCEPT !.refused = TRUE, !.smooth = FALSE,
                      !.page = IF LastPage(p) THEN @ ELSE @ + 1])
  <2> DEFINE n == IF LastPage(p) THEN job[p].page ELSE job[p].page + 1
             k == [[job[p] EXCEPT !.refused = TRUE] EXCEPT !.smooth = FALSE]
             j == [k EXCEPT !.page = n]
  <2>1. n \in Nat \ {0}
    BY <1>1
  <2>2. k \in Job
    <3>1. [job[p] EXCEPT !.refused = TRUE] \in Job
      BY <1>1, JobField
    <3>2. QED
      BY <3>1, JobField
  <2>3. j \in Job
    BY <2>1, <2>2, JobField
  <2>4. j.at = "fetch" /\ j.page = n /\ j.kind = "import"
    BY <1>1 DEF Job
  <2>5. WellFormed(j)
    BY <2>1, <2>3, <2>4 DEF WellFormed, Loaded, ImportSteps
  <2>6. k.page = job[p].page
    BY <1>1 DEF Job
  <2>7. Become(p, j)
    BY <1>4, <2>6
  <2>8. QED
    BY <2>5, <2>7, AloneType DEF FetchPage
<1>5. CASE Finish(p)
  BY <1>5, RecordTypes, AloneType DEF FetchPage, Finish
<1>6. QED
  BY <1>2, <1>3, <1>4, <1>5 DEF FetchPage

\* What a look-up finds is a row.
LEMMA LookUpType ==
    ASSUME TypeInv, NEW name \in Names, NEW r, LookUp(name, r)
    PROVE  r \in Row /\ r.name = name /\ (r.n = 0 <=> rows[name] = 0) /\ r.n <= rows[name]
<1>1. rows[name] \in Nat
  BY DEF TypeInv, TypeOK
<1>2. CASE rows[name] = 0
  BY <1>1, <1>2 DEF LookUp, New, Row
<1>3. CASE rows[name] # 0
  BY <1>1, <1>3 DEF LookUp, Row
<1>4. QED
  BY <1>2, <1>3

LEMMA FindContactType == ASSUME TypeInv, NEW p \in Processes, FindContact(p) PROVE TypeInv'
<1>1. /\ job[p] \in Job /\ WellFormed(job[p]) /\ job[p].at = "contact"
      /\ job[p].entry.person \in People \cup {Nobody}
  BY JobParts DEF TypeInv, TypeOK, FindContact, Entry
<1>2. ASSUME NEW r \in Row \cup {NoRow},
             Become(p, [job[p] EXCEPT !.person = r, !.at = "account"])
      PROVE  TypeInv'
  <2> DEFINE j == [[job[p] EXCEPT !.person = r] EXCEPT !.at = "account"]
  <2>1. [job[p] EXCEPT !.person = r] \in Job
    BY <1>1, JobField
  <2>2. j \in Job
    BY <2>1, JobField DEF Steps
  <2>3. j.at = "account" /\ j.page = job[p].page /\ j.kind = job[p].kind
    BY <1>1 DEF Job
  <2>4. WellFormed(j)
    BY <1>1, <2>2, <2>3 DEF WellFormed, Loaded, ImportSteps
  <2>5. QED
    BY <1>2, <2>4, AloneType DEF FindContact
<1>3. CASE Become(p, [job[p] EXCEPT !.person = NoRow, !.at = "account"])
  BY <1>2, <1>3
<1>4. CASE job[p].entry.person # Nobody
  BY <1>1, <1>2, <1>4, LookUpType DEF FindContact, Names
<1>5. QED
  BY <1>3, <1>4 DEF FindContact

LEMMA FindAccountType == ASSUME TypeInv, NEW p \in Processes, FindAccount(p) PROVE TypeInv'
<1>1. /\ job[p] \in Job /\ WellFormed(job[p]) /\ job[p].at = "account"
      /\ job[p].entry.firm \in Firms \cup {NoFirm} /\ NoRow \notin Row
      /\ job[p].kind = "import" /\ job[p].page # 0
  BY JobParts, RecordTypes DEF TypeInv, TypeOK, FindAccount, Entry, WellFormed, ImportSteps
<1>2. CASE job[p].entry.firm = NoFirm
  <2> DEFINE j == [job[p] EXCEPT !.at = "details"]
  <2>1. j \in Job
    BY <1>1, JobField DEF Steps
  <2>2. /\ j.at = "details" /\ j.page = job[p].page /\ j.kind = job[p].kind
        /\ j.entry = job[p].entry
    BY <1>1 DEF Job
  <2>3. WellFormed(j)
    BY <1>1, <1>2, <2>1, <2>2 DEF WellFormed, Loaded, ImportSteps
  <2>4. QED
    BY <1>2, <2>3, AloneType DEF FindAccount, Goto
<1>3. CASE job[p].entry.firm # NoFirm
  <2>1. PICK r : /\ LookUp(job[p].entry.firm, r)
                 /\ Become(p, [job[p] EXCEPT !.firm = r, !.at = "details"])
    BY <1>3 DEF FindAccount
  <2> DEFINE j == [[job[p] EXCEPT !.firm = r] EXCEPT !.at = "details"]
  <2>2. r \in Row
    BY <1>1, <1>3, <2>1, LookUpType DEF Names
  <2>3. [job[p] EXCEPT !.firm = r] \in Job
    BY <1>1, <2>2, JobField
  <2>4. j \in Job
    BY <2>3, JobField DEF Steps
  <2>5. j.at = "details" /\ j.page = job[p].page /\ j.kind = job[p].kind /\ j.firm = r
    BY <1>1 DEF Job
  <2>6. WellFormed(j)
    BY <1>1, <2>2, <2>4, <2>5 DEF WellFormed, Loaded, ImportSteps
  <2>7. QED
    BY <2>1, <2>6, AloneType DEF FindAccount
<1>4. QED
  BY <1>2, <1>3

\* The end of an entry.
LEMMA NextPageType ==
    ASSUME TypeInv, NEW p \in Processes, NEW f \in Row \cup {NoRow},
           job[p].at \in {"details", "commit"}
    PROVE  WellFormed([job[p] EXCEPT !.page = @ + 1, !.at = "fetch", !.firm = f, !.found = FALSE])
<1>1. /\ job[p] \in Job /\ job[p].kind = "import" /\ job[p].page \in Nat
  BY JobParts DEF TypeInv, TypeOK, WellFormed, ImportSteps
<1> DEFINE n == job[p].page + 1
           k == [[job[p] EXCEPT !.page = n] EXCEPT !.at = "fetch"]
           j == [[k EXCEPT !.firm = f] EXCEPT !.found = FALSE]
<1>2. n \in Nat \ {0}
  BY <1>1
<1>3. [job[p] EXCEPT !.page = n] \in Job
  BY <1>1, <1>2, JobField
<1>4. k \in Job
  BY <1>3, JobField DEF Steps
<1>5. [k EXCEPT !.firm = f] \in Job
  BY <1>4, JobField
<1>6. j \in Job
  BY <1>5, JobField
<1>7. j.at = "fetch" /\ j.page = n /\ j.kind = "import"
  BY <1>1 DEF Job
<1>8. WellFormed(j)
  BY <1>2, <1>6, <1>7 DEF WellFormed, Loaded, ImportSteps
<1>9. QED
  BY <1>8

LEMMA OwnerType ==
    ASSUME TypeInv, NEW p \in Processes
    PROVE  Owner(p) \in Row \cup {NoRow}
BY JobParts DEF TypeInv, TypeOK, Owner

LEMMA FindDetailsType == ASSUME TypeInv, NEW p \in Processes, FindDetails(p) PROVE TypeInv'
<1>1. /\ job[p] \in Job /\ WellFormed(job[p]) /\ job[p].at = "details"
      /\ job[p].kind = "import" /\ job[p].page # 0
  BY DEF TypeInv, TypeOK, FindDetails, WellFormed, ImportSteps
<1>2. CASE Owner(p) = NoRow
  BY <1>1, <1>2, NextPageType, AloneType DEF FindDetails, NextPage
<1>3. CASE Owner(p) # NoRow
  <2> DEFINE item == job[p].entry.item
             found == \/ item = NoItem
                      \/ item \in Emails \cup Phones /\ <<Owner(p), item>> \in held
                      \/ item \in Addresses /\ \E h \in held : h[2] = item
             j == [[job[p] EXCEPT !.at = "commit"] EXCEPT !.found = found]
  <2>1. [job[p] EXCEPT !.at = "commit"] \in Job
    BY <1>1, JobField DEF Steps
  <2>2. j \in Job
    BY <2>1, JobField
  <2>3. /\ j.at = "commit" /\ j.page = job[p].page /\ j.kind = job[p].kind
        /\ j.entry = job[p].entry /\ j.firm = job[p].firm /\ j.person = job[p].person
    BY <1>1 DEF Job
  <2>4. j.found = found
    BY <2>1 DEF Job
  <2>5. ~found => item # NoItem
    OBVIOUS
  <2>6. j.person # NoRow \/ j.firm # NoRow
    BY <1>3, <2>3 DEF Owner
  <2>7. ~j.found => j.entry.item # NoItem
    BY <2>3, <2>4, <2>5
  <2>8. WellFormed(j)
    BY <1>1, <2>2, <2>3, <2>6, <2>7 DEF WellFormed, Loaded, ImportSteps
  <2>9. Become(p, j)
    BY <1>3 DEF FindDetails
  <2>10. QED
    BY <2>8, <2>9, AloneType DEF FindDetails
<1>4. QED
  BY <1>2, <1>3

LEMMA RollBackType == ASSUME TypeInv, NEW p \in Processes, RollBack(p) PROVE TypeInv'
<1>1. /\ job[p] \in Job /\ job[p].kind = "import" /\ job[p].page \in Nat
  BY JobParts DEF RollBack, TypeInv, TypeOK, WellFormed, ImportSteps
<1> DEFINE n == job[p].page + 1
           k == [[job[p] EXCEPT !.page = n] EXCEPT !.at = "fetch"]
           j == [[k EXCEPT !.found = FALSE] EXCEPT !.smooth = FALSE]
<1>2. n \in Nat \ {0}
  BY <1>1
<1>3. [job[p] EXCEPT !.page = n] \in Job
  BY <1>1, <1>2, JobField
<1>4. k \in Job
  BY <1>3, JobField DEF Steps
<1>5. [k EXCEPT !.found = FALSE] \in Job
  BY <1>4, JobField
<1>6. j \in Job
  BY <1>5, JobField
<1>7. j.at = "fetch" /\ j.page = n /\ j.kind = "import"
  BY <1>1 DEF Job
<1>8. WellFormed(j)
  BY <1>2, <1>6, <1>7 DEF WellFormed, Loaded, ImportSteps
<1>9. QED
  BY <1>8, AloneType DEF RollBack

\* What is saved has a number afterwards.
LEMMA SavedType ==
    ASSUME TypeInv, NEW r \in Row
    PROVE  /\ Saved(r) \in Row /\ Saved(r).name = r.name
           /\ Saved(r).n = IF r.n = 0 THEN rows[r.name] + 1 ELSE r.n
<1>1. rows[r.name] \in Nat
  BY DEF TypeInv, TypeOK, Row
<1>2. QED
  BY <1>1, SMT DEF Saved, Row

LEMMA CommitType == ASSUME TypeInv, NEW p \in Processes, Commit(p) PROVE TypeInv'
<1>1. /\ WellFormed(job[p]) /\ job[p] \in Job /\ job[p].at = "commit"
      /\ job[p].person \in Row \cup {NoRow} /\ job[p].firm \in Row \cup {NoRow}
      /\ job[p].entry.item \in Items \cup {NoItem}
  BY JobParts DEF Commit, TypeInv, TypeOK, Entry
<1>2. NoRow \notin Row
  BY RecordTypes
<1>3. Owner(p) \in Row
  BY <1>1 DEF WellFormed, Owner
<1>4. ~job[p].found => <<Saved(Owner(p)), Stored(job[p].entry.item)>> \in Row \X Items
  BY <1>1, <1>3, SavedType, SpellingTypes DEF WellFormed
<1>5. held' \subseteq Row \X Items /\ twice' \subseteq held'
  BY <1>4 DEF Commit, TypeInv, TypeOK
<1>6. links' \subseteq Row \X Row
  BY <1>1, SavedType DEF Commit, TypeInv, TypeOK, WellFormed
<1>7. rows' \in [Names -> Nat]
  BY DEF Commit, TypeInv, TypeOK
<1>8. StateType'
  BY <1>5, <1>6, <1>7, TypeParts
     DEF StateType, Commit, credentials, provider, history
<1>9. PICK f \in Row \cup {NoRow} : NextPage(p, f)
  <2> DEFINE touched == {Owner(p)} \cup
                        (IF job[p].entry.firm # NoFirm THEN {job[p].firm} ELSE {})
             f == IF job[p].firm \in touched THEN Saved(job[p].firm) ELSE job[p].firm
  <2>1. job[p].firm \in touched => job[p].firm \in Row
    BY <1>1, <1>2, <1>3 DEF WellFormed
  <2>2. f \in Row \cup {NoRow}
    BY <1>1, <2>1, SavedType
  <2>3. NextPage(p, f)
    BY DEF Commit
  <2>4. QED
    BY <2>2, <2>3
<1>10. job' \in [Processes -> Job] /\ \A q \in Processes : WellFormed(job'[q])
  BY <1>1, <1>9, NextPageType, JobTypes DEF NextPage
<1>11. (\A q \in Processes : WellFormed(job[q]))'
  BY <1>10 DEF WellFormed, Job, Blob, Entry, Names, Items, Row
<1>12. QED
  BY <1>8, <1>10, <1>11, TypeParts

\* What users save, and what of it Moneybird is told.
LEMMA InputTypes ==
    ASSUME NEW e \in Inputs
    PROVE  /\ e \in Entry /\ e.person \in People /\ e.person \in Names /\ e.firm = NoFirm
           /\ e.item \in Items \cup {NoItem}
BY MoneybirdAssumption DEF Entry, Names

LEMMA NamedEntry ==
    ASSUME NEW name \in People PROVE [NoEntry EXCEPT !.person = name] \in Entry
BY DEF Entry, NoEntry

Pushed(e, o) == o.person = e.person /\ o.firm = e.firm /\ o.item \in {e.item, NoItem}

LEMMA PushedEntry ==
    ASSUME NEW p \in Processes, SaveContact(p)
    PROVE  \E o \in Entry :
              /\ \E e \in Inputs : Pushed(e, o)
              /\ Become(p, [Idle EXCEPT !.kind = "save", !.at = "load", !.entry = o])
<1>1. PICK e \in Inputs : \E item :
         Become(p, [Idle EXCEPT !.kind = "save", !.at = "load", !.entry =
             [e EXCEPT !.item = IF e.item \in Phones /\ item # e.item THEN NoItem ELSE e.item]])
  BY DEF SaveContact
<1>0. PICK item :
         Become(p, [Idle EXCEPT !.kind = "save", !.at = "load", !.entry =
             [e EXCEPT !.item = IF e.item \in Phones /\ item # e.item THEN NoItem ELSE e.item]])
  BY <1>1
<1> DEFINE i == IF e.item \in Phones /\ item # e.item THEN NoItem ELSE e.item
           o == [e EXCEPT !.item = i]
<1>2. e \in Entry /\ e.item \in Items \cup {NoItem}
  BY InputTypes
<1>3. i \in {e.item, NoItem}
  OBVIOUS
<1>4. o \in Entry /\ o.person = e.person /\ o.firm = e.firm /\ o.item = i
  BY <1>2, <1>3 DEF Entry
<1>5. Pushed(e, o)
  BY <1>3, <1>4 DEF Pushed
<1>6. QED
  BY <1>0, <1>4, <1>5

LEMMA SavedContact ==
    ASSUME NEW p \in Processes, SaveContact(p)
    PROVE  \E e \in Inputs : \E item \in {Stored(e.item), Reformatted(Stored(e.item))} :
              /\ rows[e.person] = 0
              /\ rows' = [rows EXCEPT ![e.person] = 1]
              /\ held' = IF item = NoItem THEN held
                         ELSE held \cup {<<[name |-> e.person, n |-> 1], item>>}
BY DEF SaveContact

\* Saving an object again leaves its details with it, in a spelling of theirs.
LEMMA ResavedType ==
    ASSUME NEW p \in Processes, SaveAgain(p), held \subseteq Row \X Items, twice \subseteq held
    PROVE  /\ held' \subseteq Row \X Items /\ twice' \subseteq held'
           /\ \A g \in held' : \E h \in held : g[1] = h[1] /\ g[2] \in {h[2], Reformatted(h[2])}
           /\ \A h \in held : \E g \in held' : g[1] = h[1] /\ g[2] \in {h[2], Reformatted(h[2])}
           /\ \A g \in twice' : g \in twice \/ \E h \in held : g[2] = Reformatted(h[2]) /\ g[2] # h[2]
<1>1. PICK r : \/ /\ held' = {Resaved(r, h) : h \in held}
                  /\ twice' = {Resaved(r, h) : h \in {g \in held :
                        g \in twice \/ \E k \in held \ {g} : Resaved(r, k) = Resaved(r, g)}}
               \/ UNCHANGED <<held, twice>>
  BY DEF SaveAgain
<1>2. ASSUME NEW h \in held
      PROVE  /\ Resaved(r, h) \in Row \X Items /\ Resaved(r, h)[1] = h[1]
             /\ Resaved(r, h)[2] \in {h[2], Reformatted(h[2])}
             /\ Resaved(r, h)[2] = h[2] => Resaved(r, h) = h
  <2>1. h = <<h[1], h[2]>> /\ h[1] \in Row /\ h[2] \in Items
    OBVIOUS
  <2>2. QED
    BY <2>1, SpellingTypes DEF Resaved
<1>3. CASE UNCHANGED <<held, twice>>
  BY <1>3
<1>4. CASE /\ held' = {Resaved(r, h) : h \in held}
           /\ twice' = {Resaved(r, h) : h \in {g \in held :
                 g \in twice \/ \E k \in held \ {g} : Resaved(r, k) = Resaved(r, g)}}
  <2>1. held' \subseteq Row \X Items /\ twice' \subseteq held'
    BY <1>2, <1>4
  <2>2. ASSUME NEW g \in twice'
        PROVE  g \in twice \/ \E h \in held : g[2] = Reformatted(h[2]) /\ g[2] # h[2]
    <3>1. PICK h \in held : /\ g = Resaved(r, h)
                            /\ h \in twice \/ \E k \in held \ {h} : Resaved(r, k) = Resaved(r, h)
      BY <1>4
    <3>2. CASE g[2] # h[2]
      BY <1>2, <3>1, <3>2
    <3>3. CASE g[2] = h[2]
      <4>1. g = h
        BY <1>2, <3>1, <3>3
      <4>2. ASSUME NEW k \in held \ {h}, Resaved(r, k) = g PROVE g[2] = Reformatted(k[2]) /\ g[2] # k[2]
        BY <1>2, <4>1, <4>2
      <4>3. QED
        BY <3>1, <4>1, <4>2
    <3>4. QED
      BY <3>2, <3>3
  <2>3. QED
    BY <1>2, <1>4, <2>1, <2>2
<1>5. QED
  BY <1>1, <1>3, <1>4

\* Requests begin.
LEMMA BeginType ==
    ASSUME TypeInv, NEW p \in Processes,
           \/ Connect(p) \/ UseCredentials(p) \/ SaveContact(p) \/ SaveAgain(p)
           \/ TakeImport(p)
    PROVE  TypeInv'
<1>1. PICK j : WellFormed(j) /\ Become(p, j)
  <2>1. CASE Connect(p)
    BY <2>1, NewJobs DEF Connect, Requests
  <2>2. CASE UseCredentials(p)
    BY <2>2, NewJobs DEF UseCredentials, Requests
  <2>3. CASE SaveContact(p)
    <3>1. PICK e : /\ e \in Entry
                   /\ Become(p, [Idle EXCEPT !.kind = "save", !.at = "load", !.entry = e])
      BY <2>3, PushedEntry
    <3>2. QED
      BY <3>1, NewJobs
  <2>4. CASE TakeImport(p)
    BY <2>4, NewJobs DEF TakeImport
  <2>5. CASE SaveAgain(p)
    <3>1. PICK name \in Names :
             Become(p, IF name \in Firms THEN Idle
                       ELSE [Idle EXCEPT !.kind = "save", !.at = "load",
                             !.entry = [NoEntry EXCEPT !.person = name]])
      BY <2>5 DEF SaveAgain
    <3>2. CASE name \in Firms
      BY <3>1, <3>2, RecordTypes DEF WellFormed, Loaded, ImportSteps
    <3>3. CASE name \notin Firms
      BY <3>1, <3>3, NewJobs, NamedEntry DEF Names
    <3>4. QED
      BY <3>2, <3>3
  <2>6. QED
    BY <2>1, <2>2, <2>3, <2>4, <2>5
<1>2. job' \in [Processes -> Job] /\ \A q \in Processes : WellFormed(job'[q])
  BY <1>1, JobTypes
<1>3. (\A q \in Processes : WellFormed(job[q]))'
  BY <1>2 DEF WellFormed, Job, Blob, Entry, Names, Items, Row
<1>4. CASE Connect(p)
  <2>1. StateType'
    BY <1>4, TypeParts DEF StateType, Connect, Request, provider, crm, history
  <2>2. QED
    BY <1>2, <1>3, <2>1, TypeParts
<1>5. CASE UseCredentials(p)
  <2>1. StateType'
    BY <1>5, TypeParts DEF StateType, UseCredentials, Request, provider, crm, history, credentials
  <2>2. QED
    BY <1>2, <1>3, <2>1, TypeParts
<1>6. CASE SaveContact(p)
  <2>0. PICK e \in Inputs : \E item \in {Stored(e.item), Reformatted(Stored(e.item))} :
          /\ rows' = [rows EXCEPT ![e.person] = 1]
          /\ held' = IF item = NoItem THEN held
                     ELSE held \cup {<<[name |-> e.person, n |-> 1], item>>}
    BY <1>6, SavedContact
  <2>1. PICK item \in {Stored(e.item), Reformatted(Stored(e.item))} :
          /\ rows' = [rows EXCEPT ![e.person] = 1]
          /\ held' = IF item = NoItem THEN held
                     ELSE held \cup {<<[name |-> e.person, n |-> 1], item>>}
    BY <2>0
  <2>2. e.person \in Names /\ item \in Items \cup {NoItem}
    BY InputTypes, SpellingTypes, NoItemStays
  <2>3. [name |-> e.person, n |-> 1] \in Row
    BY <2>2 DEF Row
  <2>4. rows' \in [Names -> Nat]
    BY <2>1, <2>2 DEF TypeInv, TypeOK
  <2>5. held' \subseteq Row \X Items /\ held \subseteq held'
    BY <2>1, <2>2, <2>3 DEF TypeInv, TypeOK
  <2>6. begun' \in Nat /\ overlapped' \in BOOLEAN
    <3>1. begun' = begun + 1 /\ begun \in Nat
      BY <1>6 DEF SaveContact, Request, TypeInv, TypeOK
    <3>2. overlapped' = (overlapped \/ \E q \in Processes : Importing(q))
      BY <1>6 DEF SaveContact
    <3>3. overlapped' \in BOOLEAN
      BY <3>2
    <3>4. QED
      BY <3>1, <3>3
  <2>7. StateType'
    BY <1>6, <2>4, <2>5, <2>6, TypeParts DEF StateType, SaveContact, provider, credentials
  <2>8. QED
    BY <1>2, <1>3, <2>7, TypeParts
<1>7. CASE TakeImport(p)
  <2>1. StateType'
    BY <1>7, TypeParts, SMT DEF StateType, TakeImport, provider, crm, credentials
  <2>2. QED
    BY <1>2, <1>3, <2>1, TypeParts
<1>8. CASE SaveAgain(p)
  <2>1. held' \subseteq Row \X Items /\ twice' \subseteq held'
    BY <1>8, ResavedType DEF TypeInv, TypeOK
  <2>2. begun' \in Nat
    <3>1. begun' = begun + 1 /\ begun \in Nat
      BY <1>8 DEF SaveAgain, Request, TypeInv, TypeOK
    <3>2. QED
      BY <3>1
  <2>3. StateType'
    BY <1>8, <2>1, <2>2, TypeParts DEF StateType, SaveAgain, provider, credentials, history
  <2>4. QED
    BY <1>2, <1>3, <2>3, TypeParts
<1>9. QED
  BY <1>4, <1>5, <1>6, <1>7, <1>8

LEMMA AccountType == ASSUME TypeInv, NEW p \in Processes, SaveAccount(p) PROVE TypeInv'
<1>1. PICK f \in Firms : /\ rows' \in {rows, [rows EXCEPT ![f] = 1]}
                         /\ prospects' \in {prospects, prospects \cup {f}}
  BY DEF SaveAccount
<1>2. rows' \in [Names -> Nat] /\ prospects' \subseteq Firms
  BY <1>1 DEF TypeInv, TypeOK, Names
<1>3. begun' \in Nat
  BY SMT DEF SaveAccount, Request, TypeInv, TypeOK
<1>4. overlapped' = (overlapped \/ \E q \in Processes : Importing(q))
  BY DEF SaveAccount
<1>5. overlapped' \in BOOLEAN /\ job' = job
  BY <1>4 DEF SaveAccount
<1>6. StateType'
  BY <1>2, <1>3, <1>5, TypeParts DEF StateType, SaveAccount, provider, credentials
<1>7. QED
  BY <1>5, <1>6, TypeParts DEF WellFormed, Job, Blob, Entry, Names, Items, Row

LEMMA PutType == ASSUME TypeInv, NEW p \in Processes, PutNewCredentials(p) PROVE TypeInv'
<1>1. job' \in [Processes -> Job] /\ \A q \in Processes : WellFormed(job'[q])
  BY RecordTypes, JobTypes DEF PutNewCredentials
<1>2. (\A q \in Processes : WellFormed(job[q]))'
  BY <1>1 DEF WellFormed, Job, Blob, Entry, Names, Items, Row
<1>3. blob' \in Blob
  BY RecordTypes DEF PutNewCredentials
<1>4. StateType'
  BY <1>3, TypeParts DEF StateType, PutNewCredentials, provider, crm
<1>5. QED
  BY <1>1, <1>2, <1>4, TypeParts

\* What the provider issues, answers or not.
LEMMA IssueType ==
    ASSUME TypeInv, NEW p \in Processes, job[p].at \in Loaded, NEW s \in {"keep", "install"},
           Issue(p, s)
    PROVE  /\ granted' = granted + 1 /\ UNCHANGED lost
           /\ job' \in [Processes -> Job] /\ \A q \in Processes : WellFormed(job'[q])
<1>1. job[p] \in Job /\ job[p].cred \in Blob /\ granted \in Nat
  BY DEF TypeInv, TypeOK, WellFormed
<1> DEFINE c == [job[p].cred EXCEPT !.grant = granted + 1]
           j == [[job[p] EXCEPT !.cred = c] EXCEPT !.at = s]
<1>2. c \in Blob
  BY <1>1 DEF Blob
<1>3. [job[p] EXCEPT !.cred = c] \in Job
  BY <1>1, <1>2, JobField
<1>4. j \in Job
  BY <1>3, JobField DEF Steps
<1>5. j.at = s /\ j.cred = c
  BY <1>1 DEF Job
<1>6. WellFormed(j)
  BY <1>2, <1>4, <1>5 DEF WellFormed, Loaded, ImportSteps
<1>7. Become(p, j)
  BY DEF Issue
<1>8. QED
  BY <1>6, <1>7, JobTypes DEF Issue

LEMMA ProviderType ==
    ASSUME TypeInv, NEW p \in Processes, Refresh(p) \/ ExchangeCode(p)
    PROVE  TypeInv'
<1>1. job[p] \in Job /\ job[p].at \in Loaded /\ granted \in Nat /\ expired \subseteq 1 .. granted
  BY DEF TypeInv, TypeOK, Refresh, ExchangeCode, At, Loaded
<1>2. \/ Issue(p, "keep") \/ Issue(p, "install")
      \/ /\ granted' \in {granted, granted + 1} /\ (lost' = lost \/ lost' = TRUE)
         /\ Become(p, Idle) \/ Become(p, [job[p] EXCEPT !.at = "none"])
  BY <1>1 DEF Refresh, ExchangeCode, NoAnswer, Finish, Goto
<1>3. /\ granted' \in Nat /\ granted <= granted' /\ lost' \in BOOLEAN
      /\ job' \in [Processes -> Job] /\ \A q \in Processes : WellFormed(job'[q])
  <2>1. lost \in BOOLEAN
    BY DEF TypeInv, TypeOK
  <2>2. CASE Issue(p, "keep") \/ Issue(p, "install")
    BY <1>1, <2>1, <2>2, IssueType
  <2>3. CASE /\ granted' \in {granted, granted + 1} /\ (lost' = lost \/ lost' = TRUE)
             /\ Become(p, Idle) \/ Become(p, [job[p] EXCEPT !.at = "none"])
    <3>1. granted' \in Nat /\ granted <= granted'
      BY <1>1, <2>3
    <3>2. lost' \in BOOLEAN
      BY <2>1, <2>3
    <3>3. WellFormed(Idle) /\ WellFormed([job[p] EXCEPT !.at = "none"])
      BY <1>1, RecordTypes, GoType
    <3>4. PICK j : WellFormed(j) /\ Become(p, j)
      BY <2>3, <3>3
    <3>5. job' \in [Processes -> Job] /\ \A q \in Processes : WellFormed(job'[q])
      BY <3>4, JobTypes
    <3>6. QED
      BY <3>1, <3>2, <3>5
  <2>4. QED
    BY <1>2, <2>2, <2>3
<1>4. expired \subseteq 1 .. granted'
  BY <1>1, <1>3
<1>5. StateType'
  BY <1>3, <1>4, TypeParts DEF StateType, Refresh, ExchangeCode, credentials, crm
<1>6. (\A q \in Processes : WellFormed(job[q]))'
  BY <1>3 DEF WellFormed, Job, Blob, Entry, Names, Items, Row
<1>7. QED
  BY <1>3, <1>5, <1>6, TypeParts

\* The store is written: the others know less than they think.
LEMMA StoreType ==
    ASSUME TypeInv, NEW p \in Processes,
           InstallToken(p) \/ SaveSetting(p) \/ KeepToken(p)
    PROVE  TypeInv'
<1>1. job[p] \in Job /\ WellFormed(job[p]) /\ job[p].cred \in Blob
  BY DEF TypeInv, TypeOK, InstallToken, SaveSetting, KeepToken, At, WellFormed, Loaded
<1>2. \A auto \in BOOLEAN : [job[p].cred EXCEPT !.auto = auto] \in Blob
  BY <1>1 DEF Blob
<1>3. WellFormed([job[p] EXCEPT !.at = "queue"]) /\ WellFormed(Idle)
  BY <1>1, GoType, RecordTypes
<1>4. WellFormed([job[p] EXCEPT !.stale = FALSE, !.at = "use"])
  <2> DEFINE k == [job[p] EXCEPT !.stale = FALSE]
             j == [k EXCEPT !.at = "use"]
  <2>1. k \in Job
    BY <1>1, JobField
  <2>2. j \in Job
    BY <2>1, JobField DEF Steps
  <2>3. j.at = "use" /\ j.cred = job[p].cred
    BY <1>1 DEF Job
  <2>4. WellFormed(j)
    BY <1>1, <2>2, <2>3 DEF WellFormed, ImportSteps
  <2>5. QED
    BY <2>4
<1>5. /\ blob' \in Blob \cup {NoBlob}
      /\ raced' \in BOOLEAN /\ wanted' \in BOOLEAN /\ lost' \in BOOLEAN
  BY <1>1, <1>2 DEF TypeInv, TypeOK, InstallToken, SaveSetting, KeepToken, Store
<1>6. PICK j : /\ WellFormed(j)
               /\ \/ Become(p, j)
                  \/ job' = [q \in Processes |-> IF q = p THEN j ELSE Outdated(q)]
  BY <1>3, <1>4 DEF InstallToken, SaveSetting, KeepToken, Store, Finish
<1>7. job' \in [Processes -> Job] /\ \A q \in Processes : WellFormed(job'[q])
  BY <1>6, JobTypes
<1>8. (\A q \in Processes : WellFormed(job[q]))'
  BY <1>7 DEF WellFormed, Job, Blob, Entry, Names, Items, Row
<1>9. StateType'
  BY <1>5, TypeParts
     DEF StateType, InstallToken, SaveSetting, KeepToken, provider, crm
<1>10. QED
  BY <1>7, <1>8, <1>9, TypeParts

LEMMA QueueType == ASSUME TypeInv, NEW p \in Processes, QueueImport(p) PROVE TypeInv'
<1>1. job' \in [Processes -> Job] /\ \A q \in Processes : WellFormed(job'[q])
  BY RecordTypes, JobTypes DEF QueueImport, Finish
<1>2. (\A q \in Processes : WellFormed(job[q]))'
  BY <1>1 DEF WellFormed, Job, Blob, Entry, Names, Items, Row
<1>3. StateType'
  BY TypeParts DEF StateType, QueueImport, credentials, provider, crm, history
<1>4. QED
  BY <1>1, <1>2, <1>3, TypeParts

\* Moneybird's address book stays a list of entries.
LEMMA BookType ==
    ASSUME TypeInv
    PROVE  /\ \A e \in Entry : <<e>> \o book \in Seq(Entry) /\ Append(book, e) \in Seq(Entry)
           /\ \A i \in 1 .. Len(book) : \A x \in Items :
                 [book EXCEPT ![i].item = x] \in Seq(Entry)
           /\ \A i \in 1 .. Len(book) :
                 SubSeq(book, 1, i - 1) \o SubSeq(book, i + 1, Len(book)) \in Seq(Entry)
<1>1. book \in Seq(Entry) /\ Len(book) \in Nat
  BY DEF TypeInv, TypeOK
<1>2. ASSUME NEW e \in Entry
      PROVE  <<e>> \o book \in Seq(Entry) /\ Append(book, e) \in Seq(Entry)
  <2>1. <<e>> \in Seq(Entry)
    OBVIOUS
  <2>2. QED
    BY <1>1, <2>1, ConcatProperties, AppendProperties
<1>3. ASSUME NEW i \in 1 .. Len(book), NEW x \in Items
      PROVE  [book EXCEPT ![i].item = x] \in Seq(Entry)
  <2>1. book[i] \in Entry
    BY <1>1
  <2>2. [book[i] EXCEPT !.item = x] \in Entry
    BY <2>1 DEF Entry
  <2>3. QED
    BY <1>1, <2>2, ExceptSeq
<1>4. ASSUME NEW i \in 1 .. Len(book)
      PROVE  SubSeq(book, 1, i - 1) \o SubSeq(book, i + 1, Len(book)) \in Seq(Entry)
  <2>1. SubSeq(book, 1, i - 1) \in Seq(Entry) /\ SubSeq(book, i + 1, Len(book)) \in Seq(Entry)
    BY <1>1, SubSeqProperties
  <2>2. QED
    BY <2>1, ConcatProperties
<1>5. QED
  BY <1>2, <1>3, <1>4

LEMMA PushType == ASSUME TypeInv, NEW p \in Processes, PushContact(p) PROVE TypeInv'
<1>1. job[p].entry \in Entry /\ job[p].entry.item \in Items \cup {NoItem}
  BY JobParts DEF TypeInv, TypeOK, Entry
<1>2. \/ Become(p, Idle)
      \/ job' = [q \in Processes |-> IF q = p THEN Idle ELSE MissedSomething(q)]
  BY DEF PushContact, BookChanges, Finish
<1>3. job' \in [Processes -> Job] /\ \A q \in Processes : WellFormed(job'[q])
  BY <1>2, RecordTypes, JobTypes
<1>4. (\A q \in Processes : WellFormed(job[q]))'
  BY <1>3 DEF WellFormed, Job, Blob, Entry, Names, Items, Row
<1>5. book' \in Seq(Entry)
  <2>1. book \in Seq(Entry)
    BY DEF TypeInv, TypeOK
  <2>2. \/ UNCHANGED book
        \/ book' = <<job[p].entry>> \o book
        \/ book' = Append(book, job[p].entry)
        \/ /\ job[p].entry.item # NoItem
           /\ \E i \in Hits(p) : book' = [book EXCEPT ![i].item = job[p].entry.item]
    BY DEF PushContact, BookChanges
  <2>3. QED
    BY <1>1, <2>1, <2>2, BookType DEF Hits
<1>6. StateType'
  BY <1>5, TypeParts DEF StateType, PushContact, credentials, provider, crm, history
<1>7. QED
  BY <1>3, <1>4, <1>6, TypeParts

LEMMA CrashType == ASSUME TypeInv, NEW p \in Processes, Crash(p) PROVE TypeInv'
<1>1. job' \in [Processes -> Job] /\ \A q \in Processes : WellFormed(job'[q])
  BY RecordTypes, JobTypes DEF Crash, Finish
<1>2. (\A q \in Processes : WellFormed(job[q]))'
  BY <1>1 DEF WellFormed, Job, Blob, Entry, Names, Items, Row
<1>3. StateType'
  BY TypeParts, SMT DEF StateType, Crash, credentials, provider, crm
<1>4. QED
  BY <1>1, <1>2, <1>3, TypeParts

LEMMA EnvironmentType == ASSUME TypeInv, TokenExpires \/ EntryDeleted PROVE TypeInv'
<1>1. job \in [Processes -> Job] /\ \A q \in Processes : WellFormed(job[q])
  BY DEF TypeInv, TypeOK
<1>2. CASE TokenExpires
  <2>1. expired' \subseteq 1 .. granted
    BY <1>2 DEF TokenExpires, TypeInv, TypeOK
  <2>2. StateType' /\ job' = job
    BY <1>2, <2>1, TypeParts DEF StateType, TokenExpires, credentials, crm, history
  <2>3. QED
    BY <1>1, <2>2, TypeParts DEF WellFormed, Job, Blob, Entry, Names, Items, Row
<1>3. CASE EntryDeleted
  <2>1. job' \in [Processes -> Job] /\ \A q \in Processes : WellFormed(job'[q])
    BY <1>1, <1>3, FlagsType DEF EntryDeleted, WellFormed
  <2>2. (\A q \in Processes : WellFormed(job[q]))'
    BY <2>1 DEF WellFormed, Job, Blob, Entry, Names, Items, Row
  <2>3. book' \in Seq(Entry)
    BY <1>3, BookType DEF EntryDeleted
  <2>4. StateType'
    BY <1>3, <2>3, TypeParts DEF StateType, EntryDeleted, credentials, provider, crm, history
  <2>5. QED
    BY <2>1, <2>2, <2>4, TypeParts
<1>4. QED
  BY <1>2, <1>3

LEMMA InitType == Init => TypeInv
<1> SUFFICES ASSUME Init PROVE TypeInv
  OBVIOUS
<1>1. StateType
  <2>1. blob \in Blob \cup {NoBlob} /\ granted \in Nat /\ details \in BOOLEAN /\ wanted \in BOOLEAN
    <3>1. [grant |-> 1, auto |-> TRUE] \in Blob
      BY DEF Blob
    <3>2. CASE details = FALSE /\ blob = NoBlob /\ granted = 0 /\ wanted = FALSE
      BY <3>2
    <3>3. CASE details = TRUE /\ granted = 1 /\ wanted = TRUE /\ blob = [grant |-> 1, auto |-> TRUE]
      BY <3>1, <3>3
    <3>4. QED
      BY <3>2, <3>3 DEF Init
  <2>2. scenario \in Scenarios /\ book \in Seq(Entry)
    BY MoneybirdAssumption DEF Init
  <2>3. QED
    BY <2>1, <2>2 DEF Init, StateType
<1>2. job \in [Processes -> Job] /\ \A q \in Processes : WellFormed(job[q])
  BY RecordTypes DEF Init, WellFormed
<1>3. QED
  BY <1>1, <1>2, TypeParts

LEMMA NextType == TypeInv /\ [Next]_vars => TypeInv'
<1> SUFFICES ASSUME TypeInv, [Next]_vars PROVE TypeInv'
  OBVIOUS
<1>1. CASE UNCHANGED vars
  <2>1. StateType'
    BY <1>1, TypeParts DEF StateType, vars, allButJob, credentials, provider, crm, history
  <2>2. job' = job
    BY <1>1 DEF vars
  <2>3. QED
    BY <2>1, <2>2, TypeParts DEF WellFormed, Job, Blob, Entry, Names, Items, Row
<1>2. ASSUME NEW p \in Processes, Step(p) PROVE TypeInv'
  BY <1>2, PutType, LoadType, ProviderType, StoreType, SimpleTypes, QueueType,
     SearchType, PushType, StartImportType, FetchType, FindContactType,
     FindAccountType, FindDetailsType, CommitType, RollBackType DEF Step
<1>3. ASSUME NEW p \in Processes,
             \/ Connect(p) \/ UseCredentials(p) \/ SaveContact(p) \/ SaveAgain(p)
             \/ SaveAccount(p) \/ TakeImport(p) \/ Crash(p)
      PROVE  TypeInv'
  BY <1>3, BeginType, AccountType, CrashType
<1>4. QED
  BY <1>1, <1>2, <1>3, EnvironmentType DEF Next

\* Every variable has its type, for any processes, names, address books and bounds.
THEOREM TypeCorrect == Spec => []TypeOK
<1>1. TypeInv => TypeOK
  BY DEF TypeInv
<1>2. QED
  BY <1>1, InitType, NextType, PTL DEF Spec

-----------------------------------------------------------------------------
(* The connection.  What a process has loaded is what is stored unless it  *)
(* knows to be stale; and as long as one that is not stale is about to     *)
(* store new tokens, some process holds the provider's last ones.          *)

Holding == {"keep", "install"}

Holder(q) == job[q].at \in Holding /\ job[q].cred.grant = granted

LoadedIsStored ==
    \A q \in Processes : job[q].at \in Loaded /\ ~job[q].stale =>
        /\ blob # NoBlob
        /\ job[q].cred.auto = blob.auto
        /\ job[q].at \in {"refresh", "use"} => job[q].cred.grant = blob.grant

LastIsHeld ==
    ~lost => \/ \E q \in Processes : Holder(q)
             \/ \A q \in Processes : job[q].at \in Holding => job[q].stale

ConnectionInv == ConnectionKept /\ LoadedIsStored /\ LastIsHeld

SameTokens(q) ==
    job'[q].at = job[q].at /\ job'[q].cred = job[q].cred /\ job'[q].stale = job[q].stale

\* What q has in hand after a step that does not write.
Reads(q) ==
    \/ SameTokens(q)
    \/ /\ job[q].at \notin Holding
       /\ \/ job'[q].at \notin Loaded
          \/ /\ job'[q].at \in {"refresh", "use"}
             /\ job'[q].cred = blob /\ blob # NoBlob

LEMMA ReadsKept ==
    ASSUME ConnectionInv, UNCHANGED <<blob, granted, wanted, raced, lost>>,
           \A q \in Processes : Reads(q)
    PROVE  ConnectionInv'
<1>1. \A q \in Processes : job[q].at \in Holding <=> job'[q].at \in Holding
  BY DEF Reads, SameTokens, Holding, Loaded
<1>2. \A q \in Processes : job[q].at \in Holding => SameTokens(q)
  BY DEF Reads
<1>3. \A q \in Processes : Holder(q) => Holder(q)'
  BY <1>1, <1>2 DEF Holder, SameTokens
<1>4. ConnectionKept'
  BY <1>1, <1>2 DEF ConnectionInv, ConnectionKept, Holding, SameTokens
<1>5. LoadedIsStored'
  BY DEF ConnectionInv, LoadedIsStored, Reads, SameTokens
<1>6. LastIsHeld'
  BY <1>1, <1>2, <1>3 DEF ConnectionInv, LastIsHeld, SameTokens
<1>7. QED
  BY <1>4, <1>5, <1>6 DEF ConnectionInv

\* p, which does not hold new tokens, goes where it has no use for tokens.
LEMMA AwayKept ==
    ASSUME TypeInv, ConnectionInv, NEW p \in Processes, job[p].at \notin Holding,
           NEW j, j.at \notin Loaded,
           \/ Become(p, j)
           \/ job' = [q \in Processes |-> IF q = p THEN j ELSE MissedSomething(q)],
           UNCHANGED <<blob, granted, wanted, raced, lost>>
    PROVE  ConnectionInv'
<1>1. job \in [Processes -> Job]
  BY DEF TypeInv, TypeOK
<1>2. \A q \in Processes \ {p} : job'[q] = job[q] \/ job'[q] = [job[q] EXCEPT !.smooth = FALSE]
  BY <1>1 DEF Become, MissedSomething
<1>3. \A q \in Processes : [job[q] EXCEPT !.smooth = FALSE].at = job[q].at
                           /\ [job[q] EXCEPT !.smooth = FALSE].cred = job[q].cred
                           /\ [job[q] EXCEPT !.smooth = FALSE].stale = job[q].stale
  BY <1>1 DEF Job
<1>4. \A q \in Processes \ {p} : SameTokens(q)
  BY <1>2, <1>3 DEF SameTokens
<1>5. job'[p] = j
  BY <1>1 DEF Become
<1>6. \A q \in Processes : Reads(q)
  BY <1>4, <1>5 DEF Reads
<1>7. QED
  BY <1>6, ReadsKept

\* The jobs that steps away from the tokens lead to.
LEMMA AwaySteps ==
    ASSUME TypeInv, ConnectionInv, NEW p \in Processes,
           \/ Connect(p) \/ UseCredentials(p) \/ SaveContact(p) \/ TakeImport(p)
           \/ NoCredentials(p) \/ ShowEstimates(p) \/ PushOrNot(p) \/ EndImport(p)
           \/ QueueImport(p) \/ Search(p) \/ PushContact(p) \/ StartImport(p)
           \/ FetchPage(p) \/ FindContact(p) \/ FindAccount(p) \/ FindDetails(p)
           \/ Commit(p) \/ RollBack(p)
    PROVE  ConnectionInv'
<1>1. job[p] \in Job /\ Idle.at = "idle"
  BY DEF TypeInv, TypeOK, Idle
<1>2. UNCHANGED <<blob, granted, wanted, raced, lost>>
  BY DEF Connect, UseCredentials, SaveContact, TakeImport, NoCredentials, ShowEstimates,
         PushOrNot, EndImport, QueueImport, Search, PushContact, StartImport, FetchPage,
         FindContact, FindAccount, FindDetails, Commit, RollBack, allButJob, credentials,
         provider, history
<1>3. job[p].at \notin Holding
  BY <1>1
     DEF Connect, UseCredentials, SaveContact, TakeImport, NoCredentials, ShowEstimates,
         PushOrNot, EndImport, QueueImport, Search, PushContact, StartImport, FetchPage,
         FindContact, FindAccount, FindDetails, Commit, RollBack, Request, At, Holding
<1> DEFINE Away(j) == /\ j.at \notin Loaded
                      /\ \/ Become(p, j)
                         \/ job' = [q \in Processes |-> IF q = p THEN j
                                                        ELSE MissedSomething(q)]
<1>4. CASE \/ Connect(p) \/ UseCredentials(p) \/ SaveContact(p) \/ TakeImport(p)
  <2>1. \A k : [Idle EXCEPT !.kind = k, !.at = "load"].at = "load"
               /\ [Idle EXCEPT !.kind = k, !.at = "put"].at = "put"
    BY DEF Idle
  <2>2. \A e : [Idle EXCEPT !.kind = "save", !.at = "load", !.entry = e].at = "load"
    BY DEF Idle
  <2>3. \E j : Away(j)
    BY <1>4, <2>1, <2>2 DEF Connect, UseCredentials, SaveContact, TakeImport, Loaded
  <2>4. QED
    BY <1>2, <1>3, <2>3, AwayKept
<1>5. CASE \/ NoCredentials(p) \/ ShowEstimates(p) \/ PushOrNot(p) \/ EndImport(p)
           \/ QueueImport(p) \/ Search(p) \/ PushContact(p)
  <2>1. [job[p] EXCEPT !.at = "search"].at = "search"
        /\ [job[p] EXCEPT !.found = Hits(p) # {}, !.at = "push"].at = "push"
    BY <1>1, SMTT(30) DEF Job
  <2>2. Away(Idle) \/ Away([job[p] EXCEPT !.at = "search"])
        \/ Away([job[p] EXCEPT !.found = Hits(p) # {}, !.at = "push"])
    BY <1>1, <1>5, <2>1
       DEF NoCredentials, ShowEstimates, PushOrNot, EndImport, QueueImport, Search,
           PushContact, BookChanges, Finish, Goto, Loaded
  <2>3. QED
    BY <1>2, <1>3, <2>2, AwayKept
<1>6. CASE StartImport(p) \/ FetchPage(p)
  <2>1. [job[p] EXCEPT !.stale = FALSE, !.page = 1, !.at = "fetch"].at = "fetch"
        /\ [job[p] EXCEPT !.at = "ended"].at = "ended"
        /\ \A e : [job[p] EXCEPT !.entry = e, !.at = "contact"].at = "contact"
        /\ [job[p] EXCEPT !.refused = TRUE, !.smooth = FALSE,
                          !.page = IF LastPage(p) THEN @ ELSE @ + 1].at = job[p].at
    BY <1>1 DEF Job
  <2>2. \E j : Away(j)
    <3>1. CASE StartImport(p)
      BY <2>1, <3>1 DEF StartImport, Loaded
    <3>2. CASE FetchPage(p) /\ (Finish(p) \/ Goto(p, "ended"))
      BY <1>1, <2>1, <3>2 DEF Finish, Goto, Loaded
    <3>3. CASE FetchPage(p) /\ Become(p, [job[p] EXCEPT !.entry = book[job[p].page], !.at = "contact"])
      BY <2>1, <3>3 DEF Loaded
    <3>4. CASE FetchPage(p) /\ Become(p, [job[p] EXCEPT !.refused = TRUE, !.smooth = FALSE,
                                          !.page = IF LastPage(p) THEN @ ELSE @ + 1])
      BY <2>1, <3>4 DEF FetchPage, At, Loaded
    <3>5. QED
      BY <1>6, <3>1, <3>2, <3>3, <3>4 DEF FetchPage
  <2>3. QED
    BY <1>2, <1>3, <2>2, AwayKept
<1>7. CASE FindContact(p) \/ FindAccount(p) \/ FindDetails(p) \/ Commit(p) \/ RollBack(p)
  <2>1. /\ \A r : [job[p] EXCEPT !.person = r, !.at = "account"].at = "account"
        /\ \A r : [job[p] EXCEPT !.firm = r, !.at = "details"].at = "details"
        /\ [job[p] EXCEPT !.at = "details"].at = "details"
        /\ \A b : [job[p] EXCEPT !.at = "commit", !.found = b].at = "commit"
        /\ \A r : [job[p] EXCEPT !.page = @ + 1, !.at = "fetch", !.firm = r, !.found = FALSE].at
                   = "fetch"
        /\ [job[p] EXCEPT !.page = @ + 1, !.at = "fetch", !.found = FALSE, !.smooth = FALSE].at
                   = "fetch"
    BY <1>1 DEF Job
  <2>2. \E j : Away(j)
    <3>1. CASE FindContact(p)
      BY <2>1, <3>1 DEF FindContact, Loaded
    <3>2. CASE FindAccount(p)
      BY <2>1, <3>2 DEF FindAccount, Goto, Loaded
    <3>3. CASE FindDetails(p)
      BY <2>1, <3>3 DEF FindDetails, NextPage, Loaded
    <3>4. CASE Commit(p)
      BY <2>1, <3>4 DEF Commit, NextPage, Loaded
    <3>5. CASE RollBack(p)
      BY <2>1, <3>5 DEF RollBack, Loaded
    <3>6. QED
      BY <1>7, <3>1, <3>2, <3>3, <3>4, <3>5
  <2>3. QED
    BY <1>2, <1>3, <2>2, AwayKept
<1>8. QED
  BY <1>4, <1>5, <1>6, <1>7

\* So do the requests that save something again, or an account.
LEMMA AgainKept ==
    ASSUME TypeInv, ConnectionInv, NEW p \in Processes, SaveAgain(p) \/ SaveAccount(p)
    PROVE  ConnectionInv'
<1>1. UNCHANGED <<blob, granted, wanted, raced, lost>>
  BY DEF SaveAgain, SaveAccount, credentials, provider, history
<1>2. CASE SaveAccount(p)
  <2>1. UNCHANGED job
    BY <1>2 DEF SaveAccount
  <2>2. QED
    BY <1>1, <2>1, ReadsKept DEF Reads, SameTokens
<1>3. CASE SaveAgain(p)
  <2>1. job[p].at \notin Holding
    <3>1. job[p] = Idle
      BY <1>3 DEF SaveAgain, Request
    <3>2. QED
      BY <3>1 DEF Idle, Holding
  <2>2. PICK name \in Names :
          Become(p, IF name \in Firms THEN Idle
                    ELSE [Idle EXCEPT !.kind = "save", !.at = "load",
                          !.entry = [NoEntry EXCEPT !.person = name]])
    BY <1>3 DEF SaveAgain
  <2>3. Idle.at \notin Loaded
        /\ \A e : [Idle EXCEPT !.kind = "save", !.at = "load", !.entry = e].at \notin Loaded
    BY DEF Idle, Loaded
  <2>4. \E j : j.at \notin Loaded /\ Become(p, j)
    BY <2>2, <2>3
  <2>5. QED
    BY <1>1, <2>1, <2>4, AwayKept
<1>4. QED
  BY <1>2, <1>3

LEMMA LoadKept ==
    ASSUME TypeInv, ConnectionInv, NEW p \in Processes, LoadCredentials(p)
    PROVE  ConnectionInv'
<1>1. job \in [Processes -> Job] /\ job[p] \in Job /\ job[p].at = "load" /\ Idle.at = "idle"
  BY DEF TypeInv, TypeOK, LoadCredentials, Idle
<1>2. UNCHANGED <<blob, granted, wanted, raced, lost>>
  BY DEF LoadCredentials, allButJob, credentials, provider, history
<1>3. CASE Finish(p) \/ Goto(p, "none")
  <2>1. [job[p] EXCEPT !.at = "none"].at = "none"
    BY <1>1 DEF Job
  <2>2. QED
    BY <1>1, <1>2, <1>3, <2>1, AwayKept DEF Finish, Goto, Loaded, Holding
<1>4. CASE details /\ blob # NoBlob
  <2> DEFINE s == IF blob.grant \in expired THEN "refresh" ELSE "use"
             j == [job[p] EXCEPT !.cred = blob, !.stale = FALSE, !.at = s]
  <2>1. Become(p, j)
    BY <1>4 DEF LoadCredentials
  <2>2. j.cred = blob /\ j.at \in {"refresh", "use"}
    BY <1>1 DEF Job
  <2>3. job'[p] = j /\ \A q \in Processes \ {p} : job'[q] = job[q]
    BY <1>1, <2>1 DEF Become
  <2>4. \A q \in Processes : Reads(q)
    BY <1>1, <1>4, <2>2, <2>3 DEF Reads, SameTokens, Holding
  <2>5. QED
    BY <1>2, <2>4, ReadsKept
<1>5. QED
  BY <1>3, <1>4 DEF LoadCredentials

\* New tokens are held by the process that asked for them, or lost.
LEMMA IssueKept ==
    ASSUME TypeInv, ConnectionInv, NEW p \in Processes, Refresh(p) \/ ExchangeCode(p)
    PROVE  ConnectionInv'
<1>1. /\ job \in [Processes -> Job] /\ job[p] \in Job /\ granted \in Nat
      /\ job[p].at \in {"refresh", "use"} /\ job[p].cred \in Blob /\ Idle.at = "idle"
  BY DEF TypeInv, TypeOK, WellFormed, Loaded, Refresh, ExchangeCode, At, Idle
<1>2. UNCHANGED <<blob, wanted, raced>>
  BY DEF Refresh, ExchangeCode, credentials
<1>3. ASSUME NEW s \in Holding, Issue(p, s) PROVE ConnectionInv'
  <2> DEFINE j == [job[p] EXCEPT !.cred.grant = granted + 1, !.at = s]
  <2>1. /\ j.at = s /\ j.cred.grant = granted + 1 /\ j.cred.auto = job[p].cred.auto
        /\ j.stale = job[p].stale
    BY <1>1 DEF Job, Blob
  <2>2. job'[p] = j /\ \A q \in Processes \ {p} : job'[q] = job[q]
    BY <1>1, <1>3 DEF Issue, Become
  <2>3. granted' = granted + 1 /\ lost' = lost
    BY <1>3 DEF Issue
  <2>4. Holder(p)'
    BY <2>1, <2>2, <2>3 DEF Holder
  <2>5. ConnectionKept'
    BY <1>2, <2>3, <2>4 DEF ConnectionKept, ConnectionInv, Holder, Holding
  <2>6. LoadedIsStored'
    BY <1>1, <1>2, <2>1, <2>2, ZenonT(60) DEF LoadedIsStored, ConnectionInv, Loaded, Holding
  <2>7. QED
    BY <2>4, <2>5, <2>6 DEF ConnectionInv, LastIsHeld
<1>4. CASE /\ Become(p, Idle) \/ Become(p, [job[p] EXCEPT !.at = "none"])
           /\ UNCHANGED <<granted, lost>>
  <2>1. [job[p] EXCEPT !.at = "none"].at = "none"
    BY <1>1 DEF Job
  <2>2. QED
    BY <1>1, <1>2, <1>4, <2>1, AwayKept DEF Loaded, Holding
<1>5. CASE Become(p, Idle) /\ lost' = TRUE
  <2>1. job'[p] = Idle /\ \A q \in Processes \ {p} : job'[q] = job[q]
    BY <1>1, <1>5 DEF Become
  <2>2. LoadedIsStored'
    BY <1>1, <1>2, <2>1 DEF LoadedIsStored, ConnectionInv, Loaded
  <2>3. ConnectionKept' /\ LastIsHeld'
    BY <1>5 DEF ConnectionKept, LastIsHeld
  <2>4. QED
    BY <2>2, <2>3 DEF ConnectionInv
<1>6. \/ Issue(p, "keep") \/ Issue(p, "install")
      \/ /\ Become(p, Idle) \/ Become(p, [job[p] EXCEPT !.at = "none"])
         /\ UNCHANGED <<granted, lost>>
      \/ Become(p, Idle) /\ lost' = TRUE
  BY DEF Refresh, ExchangeCode, NoAnswer, Finish, Goto
<1>7. QED
  BY <1>3, <1>4, <1>5, <1>6 DEF Holding

\* Tokens or a setting are written: what the others have loaded is stale now.
LEMMA WriteKept ==
    ASSUME TypeInv, ConnectionInv, NEW p \in Processes, NEW c \in Blob, NEW j,
           job' = [q \in Processes |-> IF q = p THEN j ELSE Outdated(q)],
           blob' = c, UNCHANGED <<granted, lost>>,
           j.at \notin Holding,
           j.at \in Loaded => j.cred = c,
           ~raced' /\ ~lost => c.auto = wanted',
           ~raced' /\ ~lost =>
               \/ c.grant \in {0, granted}
               \/ \E q \in Processes \ {p} : Holder(q)
    PROVE  ConnectionInv'
<1>1. job \in [Processes -> Job] /\ NoBlob \notin Blob
  <2>1. DOMAIN NoBlob = {"grant"}
    BY DEF NoBlob
  <2>2. \A b \in Blob : DOMAIN b = {"grant", "auto"}
    BY DEF Blob
  <2>3. QED
    BY <2>1, <2>2 DEF TypeInv, TypeOK
<1>2. \A q \in Processes : [job[q] EXCEPT !.stale = TRUE].at = job[q].at
                           /\ [job[q] EXCEPT !.stale = TRUE].cred = job[q].cred
                           /\ [job[q] EXCEPT !.stale = TRUE].stale
  BY <1>1 DEF Job
<1>3. \A q \in Processes \ {p} : /\ job'[q].at = job[q].at /\ job'[q].cred = job[q].cred
                                 /\ job[q].at \in Loaded => job'[q].stale
  BY <1>2 DEF Outdated, Loaded
<1>4. job'[p] = j
  OBVIOUS
<1>5. \A q \in Processes \ {p} : Holder(q) => Holder(q)'
  BY <1>3 DEF Holder
<1>6. ConnectionKept'
  BY <1>5 DEF ConnectionKept, Holder, Holding
<1>7. LoadedIsStored'
  BY <1>1, <1>3, <1>4 DEF LoadedIsStored
<1>8. LastIsHeld'
  BY <1>3, <1>4 DEF LastIsHeld, Holding, Loaded
<1>9. QED
  BY <1>6, <1>7, <1>8 DEF ConnectionInv

LEMMA StoreKept ==
    ASSUME TypeInv, ConnectionInv, NEW p \in Processes,
           \/ PutNewCredentials(p) \/ KeepToken(p) \/ InstallToken(p) \/ SaveSetting(p)
    PROVE  ConnectionInv'
<1>1. /\ job \in [Processes -> Job] /\ job[p] \in Job /\ Idle.at = "idle"
      /\ job[p].at \in Loaded => job[p].cred \in Blob
  BY DEF TypeInv, TypeOK, WellFormed, Idle
<1>2. ASSUME job[p].at \in Holding, ~raced, ~lost, ~job[p].stale
      PROVE  /\ job[p].cred.auto = wanted
             /\ \/ job[p].cred.grant = granted
                \/ \E q \in Processes \ {p} : Holder(q)
  <2>1. blob # NoBlob /\ job[p].cred.auto = blob.auto
    BY <1>2 DEF ConnectionInv, LoadedIsStored, Loaded, Holding
  <2>2. PICK q \in Processes : Holder(q)
    BY <1>2 DEF ConnectionInv, LastIsHeld
  <2>3. QED
    BY <1>2, <2>1, <2>2 DEF ConnectionInv, ConnectionKept, Holder
<1>3. CASE PutNewCredentials(p)
  <2> DEFINE c == [grant |-> 0, auto |-> FALSE]
  <2>1. c \in Blob
    BY DEF Blob
  <2>2. /\ job' = [q \in Processes |-> IF q = p THEN Idle ELSE Outdated(q)]
        /\ blob' = c /\ UNCHANGED <<granted, lost>> /\ wanted' = FALSE
    BY <1>3 DEF PutNewCredentials, provider
  <2>3. QED
    BY <1>1, <2>1, <2>2, WriteKept DEF Holding, Loaded
<1>4. CASE KeepToken(p) /\ lost' = TRUE /\ Finish(p)
  <2>1. job'[p] = Idle /\ \A q \in Processes \ {p} : job'[q] = job[q]
    BY <1>1, <1>4 DEF Become, Finish
  <2>2. LoadedIsStored'
    <3>1. [job[p] EXCEPT !.stale = FALSE, !.at = "use"].at = "use"
      BY <1>1 DEF Job
    <3>2. blob' = blob
      BY <1>1, <1>4, <2>1, <3>1 DEF KeepToken, Store
    <3>3. QED
      BY <1>1, <2>1, <3>2 DEF LoadedIsStored, ConnectionInv, Loaded
  <2>3. QED
    BY <1>4, <2>2 DEF ConnectionInv, ConnectionKept, LastIsHeld
<1>5. CASE KeepToken(p) /\ Store(p, job[p].cred, [job[p] EXCEPT !.stale = FALSE, !.at = "use"])
  <2> DEFINE j == [job[p] EXCEPT !.stale = FALSE, !.at = "use"]
  <2>1. j.at = "use" /\ j.cred = job[p].cred
    BY <1>1 DEF Job
  <2>2. job[p].at \in Holding /\ job[p].cred \in Blob
    BY <1>1, <1>5 DEF KeepToken, Holding, Loaded
  <2>3. UNCHANGED <<granted, wanted>>
    BY <1>5 DEF KeepToken, provider
  <2>4. CASE lost' = lost
    BY <1>2, <1>5, <2>1, <2>2, <2>3, <2>4, WriteKept DEF Store, Holding
  <2>5. CASE lost' # lost
    BY <1>4, <1>5, <2>5 DEF KeepToken
  <2>6. QED
    BY <2>4, <2>5
<1>6. CASE InstallToken(p)
  <2>1. job[p].at \in Holding /\ job[p].cred \in Blob
    BY <1>1, <1>6 DEF InstallToken, At, Holding, Loaded
  <2>2. UNCHANGED <<granted, wanted, lost>>
    BY <1>6 DEF InstallToken, provider
  <2>3. QED
    BY <1>1, <1>2, <1>6, <2>1, <2>2, WriteKept DEF InstallToken, Store, Holding, Loaded
<1>7. CASE SaveSetting(p)
  <2>1. PICK auto \in BOOLEAN :
          /\ Store(p, [job[p].cred EXCEPT !.auto = auto], [job[p] EXCEPT !.at = "queue"])
          /\ wanted' = auto
    BY <1>7 DEF SaveSetting
  <2> DEFINE c == [job[p].cred EXCEPT !.auto = auto]
             j == [job[p] EXCEPT !.at = "queue"]
  <2>2. job[p].at = "use" /\ job[p].cred \in Blob
    BY <1>1, <1>7 DEF SaveSetting, At, Loaded
  <2>3. c \in Blob /\ c.auto = auto /\ c.grant = job[p].cred.grant
    BY <2>2 DEF Blob
  <2>4. j.at = "queue"
    BY <1>1 DEF Job
  <2>5. UNCHANGED <<granted, lost>>
    BY <1>7 DEF SaveSetting, provider
  <2>6. ASSUME ~raced', ~lost
        PROVE  c.grant \in {0, granted} \/ \E q \in Processes \ {p} : Holder(q)
    <3>1. ~raced /\ ~job[p].stale
      BY <2>1, <2>6 DEF Store
    <3>2. blob # NoBlob /\ c.grant = blob.grant
      BY <2>2, <2>3, <3>1 DEF ConnectionInv, LoadedIsStored, Loaded
    <3>3. blob.grant \in {0, granted} \/ \E q \in Processes : Holder(q)
      BY <2>6, <3>1, <3>2 DEF ConnectionInv, ConnectionKept, Holder, Holding
    <3>4. ~Holder(p)
      BY <2>2 DEF Holder, Holding
    <3>5. QED
      BY <3>2, <3>3, <3>4
  <2>7. QED
    BY <2>1, <2>3, <2>4, <2>5, <2>6, WriteKept DEF Store, Holding, Loaded
<1>8. QED
  BY <1>3, <1>4, <1>5, <1>6, <1>7 DEF KeepToken

LEMMA CrashKept ==
    ASSUME TypeInv, ConnectionInv, NEW p \in Processes, Crash(p)
    PROVE  ConnectionInv'
<1>1. job \in [Processes -> Job] /\ Idle.at = "idle"
  BY DEF TypeInv, TypeOK, Idle
<1>2. UNCHANGED <<blob, granted, wanted, raced>> /\ Become(p, Idle)
  BY DEF Crash, credentials, provider, Finish
<1>3. CASE job[p].at \notin Holding
  <2>1. lost' = lost
    BY <1>3 DEF Crash, Holding, TypeInv, TypeOK
  <2>2. QED
    BY <1>1, <1>2, <1>3, <2>1, AwayKept DEF Loaded
<1>4. CASE job[p].at \in Holding
  <2>1. lost'
    BY <1>4 DEF Crash, Holding
  <2>2. job'[p] = Idle /\ \A q \in Processes \ {p} : job'[q] = job[q]
    BY <1>1, <1>2 DEF Become
  <2>3. LoadedIsStored'
    BY <1>1, <1>2, <2>2 DEF LoadedIsStored, ConnectionInv, Loaded
  <2>4. QED
    BY <2>1, <2>3 DEF ConnectionInv, ConnectionKept, LastIsHeld
<1>5. QED
  BY <1>3, <1>4

LEMMA ConnectionStep == TypeInv /\ ConnectionInv /\ [Next]_vars => ConnectionInv'
<1> SUFFICES ASSUME TypeInv, ConnectionInv, [Next]_vars PROVE ConnectionInv'
  OBVIOUS
<1>1. job \in [Processes -> Job]
  BY DEF TypeInv, TypeOK
<1>2. CASE UNCHANGED vars \/ TokenExpires
  <2>1. UNCHANGED <<blob, granted, wanted, raced, lost, job>>
    BY <1>2 DEF vars, allButJob, credentials, provider, history, TokenExpires
  <2>2. QED
    BY <2>1, ReadsKept DEF Reads, SameTokens
<1>3. CASE EntryDeleted
  <2>1. UNCHANGED <<blob, granted, wanted, raced, lost>>
    BY <1>3 DEF EntryDeleted, credentials, provider, history
  <2>2. \A q \in Processes : [job[q] EXCEPT !.smooth = FALSE].at = job[q].at
                             /\ [job[q] EXCEPT !.smooth = FALSE].cred = job[q].cred
                             /\ [job[q] EXCEPT !.smooth = FALSE].stale = job[q].stale
    BY <1>1 DEF Job
  <2>3. \A q \in Processes : SameTokens(q)
    BY <1>3, <2>2 DEF EntryDeleted, MissedSomething, SameTokens
  <2>4. QED
    BY <2>1, <2>3, ReadsKept DEF Reads
<1>4. ASSUME NEW p \in Processes, Step(p) PROVE ConnectionInv'
  BY <1>4, StoreKept, LoadKept, IssueKept, AwaySteps DEF Step
<1>5. ASSUME NEW p \in Processes,
             \/ Connect(p) \/ UseCredentials(p) \/ SaveContact(p) \/ SaveAgain(p)
             \/ SaveAccount(p) \/ TakeImport(p) \/ Crash(p)
      PROVE  ConnectionInv'
  BY <1>5, AwaySteps, AgainKept, CrashKept
<1>6. QED
  BY <1>2, <1>3, <1>4, <1>5 DEF Next

LEMMA ConnectionInit == Init => ConnectionInv
<1> SUFFICES ASSUME Init PROVE ConnectionInv
  OBVIOUS
<1>1. \A q \in Processes : job[q].at = "idle"
  BY DEF Init, Idle
<1>2. ConnectionKept
  <2>1. CASE blob = NoBlob
    BY <2>1 DEF ConnectionKept
  <2>2. CASE granted = 1 /\ wanted = TRUE /\ blob = [grant |-> 1, auto |-> TRUE]
    BY <2>2 DEF ConnectionKept
  <2>3. QED
    BY <2>1, <2>2 DEF Init
<1>3. QED
  BY <1>1, <1>2 DEF ConnectionInv, LoadedIsStored, LastIsHeld, Loaded, Holding

\* Whatever number of processes refresh, connect and save the setting at once: the
\* tokens and the setting only get lost to a record that was stored over another one
\* or when what received new tokens failed.
THEOREM ConnectionIsKept == Spec => []ConnectionKept
<1>1. ConnectionInv => ConnectionKept
  BY DEF ConnectionInv
<1>2. QED
  BY <1>1, InitType, NextType, ConnectionInit, ConnectionStep, PTL DEF Spec

-----------------------------------------------------------------------------
(* The import.  Most steps leave what is stored alone and take nothing up  *)
(* that an import looked up.                                               *)

Placed == {"account", "details", "commit"}

SameWork(q) ==
    /\ job'[q].kind = job[q].kind /\ job'[q].at = job[q].at
    /\ job'[q].entry = job[q].entry /\ job'[q].found = job[q].found
    /\ job'[q].person = job[q].person /\ job'[q].firm = job[q].firm

Drops(i, o) ==
    /\ o.person \in {i.person, NoRow} /\ o.firm \in {i.firm, NoRow}
    /\ o.at \notin Placed
    /\ o.kind = "import" => i.kind = "import"
    /\ o.kind = "save" => i.kind = "save" /\ o.entry = i.entry
    /\ o.entry \in {i.entry, NoEntry} \/ \E k \in 1 .. Len(book) : o.entry = book[k]

QuietWork == \A q \in Processes : SameWork(q) \/ Drops(job[q], job'[q])

LEMMA FlagsWork ==
    ASSUME NEW j \in Job,
           NEW k \in {j, [j EXCEPT !.stale = TRUE], [j EXCEPT !.smooth = FALSE]}
    PROVE  /\ k.kind = j.kind /\ k.at = j.at /\ k.entry = j.entry /\ k.found = j.found
           /\ k.person = j.person /\ k.firm = j.firm
BY DEF Job

\* The same of a process's job before and after.
LEMMA FlagsSameWork ==
    ASSUME NEW q, job[q] \in Job,
           job'[q] \in {job[q], [job[q] EXCEPT !.stale = TRUE], [job[q] EXCEPT !.smooth = FALSE]}
    PROVE  SameWork(q)
<1>1. PICK j \in Job : j = job[q]
  OBVIOUS
<1>2. PICK k \in {j, [j EXCEPT !.stale = TRUE], [j EXCEPT !.smooth = FALSE]} : k = job'[q]
  BY <1>1
<1>3. QED
  BY <1>1, <1>2, FlagsWork, ZenonT(60) DEF SameWork

\* Only one job changes but for flags.
LEMMA OthersWork ==
    ASSUME TypeInv, NEW p \in Processes, NEW j,
           \/ Become(p, j)
           \/ job' = [q \in Processes |-> IF q = p THEN j ELSE Outdated(q)]
           \/ job' = [q \in Processes |-> IF q = p THEN j ELSE MissedSomething(q)]
    PROVE  job'[p] = j /\ \A q \in Processes \ {p} : SameWork(q)
<1>1. job \in [Processes -> Job]
  BY DEF TypeInv, TypeOK
<1>2. job'[p] = j
  BY <1>1 DEF Become
<1>3. ASSUME NEW q \in Processes \ {p} PROVE SameWork(q)
  <2>1. job'[q] \in {job[q], [job[q] EXCEPT !.stale = TRUE], [job[q] EXCEPT !.smooth = FALSE]}
    BY <1>1 DEF Become, Outdated, MissedSomething
  <2>2. QED
    BY <1>1, <2>1, FlagsSameWork
<1>4. QED
  BY <1>2, <1>3

\* A job that ends, and one that begins.
LEMMA IdleDrops ==
    ASSUME NEW i \in Job
    PROVE  /\ Drops(i, Idle)
           /\ \A k \in {"connect", "authorize", "setting", "read"} : \A s \in {"put", "load"} :
                 Drops(i, [Idle EXCEPT !.kind = k, !.at = s])
BY DEF Drops, Idle, Placed

\* A job that goes on without what an import has looked up.
LEMMA OnDrops ==
    ASSUME NEW i \in Job, NEW o, o.at \notin Placed, o.kind = i.kind,
           o.person = i.person, o.firm \in {i.firm, NoRow}, o.entry = i.entry
    PROVE  Drops(i, o)
BY DEF Drops

LEMMA RequestsQuiet ==
    ASSUME TypeInv, NEW p \in Processes,
           \/ Connect(p) \/ PutNewCredentials(p) \/ UseCredentials(p) \/ LoadCredentials(p)
           \/ Refresh(p) \/ KeepToken(p) \/ NoCredentials(p) \/ ExchangeCode(p)
           \/ InstallToken(p) \/ SaveSetting(p) \/ QueueImport(p) \/ ShowEstimates(p)
           \/ PushOrNot(p) \/ Search(p) \/ PushContact(p) \/ EndImport(p) \/ Crash(p)
    PROVE  QuietWork
<1>1. job[p] \in Job
  BY DEF TypeInv, TypeOK
<1> DEFINE To(j) == \/ Become(p, j)
                    \/ job' = [q \in Processes |-> IF q = p THEN j ELSE Outdated(q)]
                    \/ job' = [q \in Processes |-> IF q = p THEN j ELSE MissedSomething(q)]
<1>2. ASSUME NEW j, To(j), Drops(job[p], j) PROVE QuietWork
  BY <1>2, OthersWork DEF QuietWork
<1>3. CASE Connect(p) \/ UseCredentials(p)
  <2>1. \E k \in {"connect", "authorize", "setting", "read"} : \E s \in {"put", "load"} :
           Become(p, [Idle EXCEPT !.kind = k, !.at = s])
    BY <1>3 DEF Connect, UseCredentials
  <2>2. QED
    BY <1>1, <1>2, <2>1, IdleDrops
<1>4. CASE LoadCredentials(p)
  <2> DEFINE s == IF blob.grant \in expired THEN "refresh" ELSE "use"
             j == [job[p] EXCEPT !.cred = blob, !.stale = FALSE, !.at = s]
             k == [job[p] EXCEPT !.at = "none"]
  <2>1. Drops(job[p], k)
    <3>1. /\ k.at = "none" /\ k.kind = job[p].kind /\ k.person = job[p].person
          /\ k.firm = job[p].firm /\ k.entry = job[p].entry
      BY <1>1 DEF Job
    <3>2. QED
      BY <1>1, <3>1, OnDrops DEF Placed
  <2>2. Drops(job[p], j)
    <3>1. /\ j.at \in {"refresh", "use"} /\ j.kind = job[p].kind /\ j.person = job[p].person
          /\ j.firm = job[p].firm /\ j.entry = job[p].entry
      BY <1>1 DEF Job
    <3>2. QED
      BY <1>1, <3>1, OnDrops DEF Placed
  <2>3. Become(p, k) \/ Become(p, Idle) \/ Become(p, j)
    BY <1>4 DEF LoadCredentials, Goto, Finish
  <2>4. QED
    BY <1>1, <1>2, <2>1, <2>2, <2>3, IdleDrops
<1>5. CASE Refresh(p) \/ ExchangeCode(p)
  <2> DEFINE j(s) == [job[p] EXCEPT !.cred.grant = granted + 1, !.at = s]
             k == [job[p] EXCEPT !.at = "none"]
  <2>1. Drops(job[p], k)
    <3>1. /\ k.at = "none" /\ k.kind = job[p].kind /\ k.person = job[p].person
          /\ k.firm = job[p].firm /\ k.entry = job[p].entry
      BY <1>1 DEF Job
    <3>2. QED
      BY <1>1, <3>1, OnDrops DEF Placed
  <2>2. \A s \in Holding : Drops(job[p], j(s))
    <3>1. \A s \in Holding :
             /\ j(s).at = s /\ j(s).kind = job[p].kind /\ j(s).person = job[p].person
             /\ j(s).firm = job[p].firm /\ j(s).entry = job[p].entry
      BY <1>1 DEF Job
    <3>2. QED
      BY <1>1, <3>1, OnDrops DEF Placed, Holding
  <2>3. Become(p, k) \/ Become(p, Idle) \/ \E s \in Holding : Become(p, j(s))
    BY <1>5 DEF Refresh, ExchangeCode, Issue, NoAnswer, Goto, Finish, Holding
  <2>4. QED
    BY <1>1, <1>2, <2>1, <2>2, <2>3, IdleDrops
<1>6. CASE KeepToken(p) \/ SaveSetting(p)
  <2> DEFINE j == [job[p] EXCEPT !.stale = FALSE, !.at = "use"]
             k == [job[p] EXCEPT !.at = "queue"]
  <2>1. Drops(job[p], k)
    <3>1. /\ k.at = "queue" /\ k.kind = job[p].kind /\ k.person = job[p].person
          /\ k.firm = job[p].firm /\ k.entry = job[p].entry
      BY <1>1 DEF Job
    <3>2. QED
      BY <1>1, <3>1, OnDrops DEF Placed
  <2>2. Drops(job[p], j)
    <3>1. /\ j.at = "use" /\ j.kind = job[p].kind /\ j.person = job[p].person
          /\ j.firm = job[p].firm /\ j.entry = job[p].entry
      BY <1>1 DEF Job
    <3>2. QED
      BY <1>1, <3>1, OnDrops DEF Placed
  <2>3. To(Idle) \/ To(j) \/ To(k)
    BY <1>6 DEF KeepToken, SaveSetting, Store, Finish
  <2>4. QED
    BY <1>1, <1>2, <2>1, <2>2, <2>3, IdleDrops
<1>7. CASE PushOrNot(p) \/ Search(p)
  <2> DEFINE j == [job[p] EXCEPT !.found = Hits(p) # {}, !.at = "push"]
             k == [job[p] EXCEPT !.at = "search"]
  <2>1. Drops(job[p], k)
    <3>1. /\ k.at = "search" /\ k.kind = job[p].kind /\ k.person = job[p].person
          /\ k.firm = job[p].firm /\ k.entry = job[p].entry
      BY <1>1 DEF Job
    <3>2. QED
      BY <1>1, <3>1, OnDrops DEF Placed
  <2>2. Drops(job[p], j)
    <3>1. /\ j.at = "push" /\ j.kind = job[p].kind /\ j.person = job[p].person
          /\ j.firm = job[p].firm /\ j.entry = job[p].entry
      BY <1>1 DEF Job
    <3>2. QED
      BY <1>1, <3>1, OnDrops DEF Placed
  <2>3. To(Idle) \/ To(j) \/ To(k)
    BY <1>7 DEF PushOrNot, Search, Goto, Finish
  <2>4. QED
    BY <1>1, <1>2, <2>1, <2>2, <2>3, IdleDrops
<1>8. CASE \/ PutNewCredentials(p) \/ NoCredentials(p) \/ InstallToken(p) \/ QueueImport(p)
           \/ ShowEstimates(p) \/ PushContact(p) \/ EndImport(p) \/ Crash(p)
  <2>1. To(Idle)
    BY <1>8 DEF PutNewCredentials, NoCredentials, InstallToken, QueueImport, ShowEstimates,
                PushContact, EndImport, Crash, Store, BookChanges, Finish
  <2>2. QED
    BY <1>1, <1>2, <2>1, IdleDrops
<1>9. QED
  BY <1>3, <1>4, <1>5, <1>6, <1>7, <1>8

LEMMA ImportQuiet ==
    ASSUME TypeInv, NEW p \in Processes,
           StartImport(p) \/ FetchPage(p) \/ RollBack(p)
           \/ (FindDetails(p) /\ Owner(p) = NoRow)
    PROVE  QuietWork
<1>1. job[p] \in Job /\ job[p].page \in Nat /\ book \in Seq(Entry)
  BY JobParts DEF TypeInv, TypeOK
<1>2. ASSUME NEW j, Become(p, j), Drops(job[p], j) PROVE QuietWork
  BY <1>2, OthersWork DEF QuietWork
<1>3. CASE StartImport(p) \/ RollBack(p)
  <2> DEFINE j == [job[p] EXCEPT !.stale = FALSE, !.page = 1, !.at = "fetch"]
             k == [job[p] EXCEPT !.page = @ + 1, !.at = "fetch", !.found = FALSE,
                                 !.smooth = FALSE]
  <2>1. /\ j.at = "fetch" /\ j.kind = job[p].kind /\ j.person = job[p].person
        /\ j.firm = job[p].firm /\ j.entry = job[p].entry
    BY <1>1 DEF Job
  <2>2. /\ k.at = "fetch" /\ k.kind = job[p].kind /\ k.person = job[p].person
        /\ k.firm = job[p].firm /\ k.entry = job[p].entry
    BY <1>1 DEF Job
  <2>3. Drops(job[p], j) /\ Drops(job[p], k)
    BY <1>1, <2>1, <2>2, OnDrops DEF Placed
  <2>4. Become(p, j) \/ Become(p, k)
    BY <1>3 DEF StartImport, RollBack
  <2>5. QED
    BY <1>2, <2>3, <2>4
<1>4. CASE FindDetails(p) /\ Owner(p) = NoRow
  <2> DEFINE j == [job[p] EXCEPT !.page = @ + 1, !.at = "fetch", !.firm = NoRow, !.found = FALSE]
  <2>1. /\ j.at = "fetch" /\ j.kind = job[p].kind /\ j.person = job[p].person
        /\ j.firm = NoRow /\ j.entry = job[p].entry
    BY <1>1 DEF Job
  <2>2. Drops(job[p], j)
    BY <1>1, <2>1, OnDrops DEF Placed
  <2>3. Become(p, j)
    BY <1>4 DEF FindDetails, NextPage
  <2>4. QED
    BY <1>2, <2>2, <2>3
<1>5. CASE FetchPage(p)
  <2>1. job[p].kind = "import" /\ job[p].at = "fetch"
    BY <1>5 DEF FetchPage, At
  <2>2. CASE Finish(p)
    BY <1>1, <1>2, <2>2, IdleDrops DEF Finish
  <2>3. CASE Goto(p, "ended")
    <3> DEFINE j == [job[p] EXCEPT !.at = "ended"]
    <3>1. /\ j.at = "ended" /\ j.kind = job[p].kind /\ j.person = job[p].person
          /\ j.firm = job[p].firm /\ j.entry = job[p].entry
      BY <1>1 DEF Job
    <3>2. Drops(job[p], j)
      BY <1>1, <3>1, OnDrops DEF Placed
    <3>3. QED
      BY <1>2, <2>3, <3>2 DEF Goto
  <2>4. CASE /\ ~LastPage(p)
             /\ Become(p, [job[p] EXCEPT !.entry = book[job[p].page], !.at = "contact"])
    <3> DEFINE j == [job[p] EXCEPT !.entry = book[job[p].page], !.at = "contact"]
    <3>1. /\ j.at = "contact" /\ j.kind = "import" /\ j.person = job[p].person
          /\ j.firm = job[p].firm /\ j.entry = book[job[p].page]
      BY <1>1, <2>1 DEF Job
    <3>2. job[p].page \in 1 .. Len(book)
      BY <1>1, <2>1, <2>4 DEF LastPage, TypeInv, WellFormed, ImportSteps
    <3>3. Drops(job[p], j)
      BY <2>1, <3>1, <3>2 DEF Drops, Placed
    <3>4. QED
      BY <1>2, <2>4, <3>3
  <2>5. CASE Become(p, [job[p] EXCEPT !.refused = TRUE, !.smooth = FALSE,
                                      !.page = IF LastPage(p) THEN @ ELSE @ + 1])
    <3> DEFINE j == [job[p] EXCEPT !.refused = TRUE, !.smooth = FALSE,
                                   !.page = IF LastPage(p) THEN @ ELSE @ + 1]
    <3>1. /\ j.at = job[p].at /\ j.kind = job[p].kind /\ j.person = job[p].person
          /\ j.firm = job[p].firm /\ j.entry = job[p].entry
      BY <1>1 DEF Job
    <3>2. Drops(job[p], j)
      BY <1>1, <2>1, <3>1, OnDrops, ZenonT(60) DEF Placed
    <3>3. QED
      BY <1>2, <2>5, <3>2
  <2>6. QED
    BY <1>5, <2>2, <2>3, <2>4, <2>5 DEF FetchPage
<1>6. QED
  BY <1>3, <1>4, <1>5

-----------------------------------------------------------------------------
(* Nothing is stored twice.  What an import holds of an object it has      *)
(* looked up or stored is true of the rows until it is used, if nobody     *)
(* else stores anything.                                                   *)

Numbered(r, names) == r # NoRow => r.name \in names /\ r.n <= rows[r.name]

RowsInv ==
    /\ \A h \in held : 1 <= h[1].n /\ h[1].n <= rows[h[1].name]
    /\ \A p \in Processes : /\ Numbered(job[p].person, People)
                            /\ Numbered(job[p].firm, Firms)

\* An object that is yet to be created does not exist.
Fresh(r) == r # NoRow /\ r.n = 0 => rows[r.name] = 0

\* Another detail turns into this one when it is stored or its owner is saved.
Respelt(i) == \E k \in Items \ {i} : i \in Spellings(k)

\* The detail that a job is about to store is not there, unless it is respelt.
Missing(j, o, things) ==
    j.at = "commit" /\ ~j.found =>
        <<o, Stored(j.entry.item)>> \notin things \/ Respelt(Stored(j.entry.item))

AloneInv ==
    ~overlapped =>
        /\ \A n \in Names : rows[n] <= 1
        /\ \A h \in twice : Respelt(h[2])
        /\ \A p, q \in Processes : Importing(p) /\ Importing(q) => p = q
        /\ \A p \in Processes : Importing(p) =>
              /\ Fresh(job[p].firm)
              /\ job[p].at \in Placed => Fresh(job[p].person)
              /\ Missing(job[p], Owner(p), held)

LEMMA QuietRows ==
    ASSUME RowsInv, AloneInv, QuietWork, UNCHANGED <<rows, held, twice, overlapped>>
    PROVE  RowsInv' /\ AloneInv'
<1>1. RowsInv'
  BY DEF RowsInv, Numbered, QuietWork, SameWork, Drops
<1>2. \A q \in Processes : Importing(q)' => Importing(q)
  BY DEF QuietWork, SameWork, Drops, Importing
<1>3. ASSUME NEW q \in Processes, ~overlapped, Importing(q)'
      PROVE  /\ Fresh(job[q].firm)'
             /\ job'[q].at \in Placed => Fresh(job[q].person)'
             /\ Missing(job'[q], Owner(q)', held')
  <2>1. Importing(q)
    BY <1>2, <1>3
  <2>2. CASE SameWork(q)
    BY <1>3, <2>1, <2>2 DEF AloneInv, SameWork, Fresh, Owner, Missing
  <2>3. CASE Drops(job[q], job'[q])
    BY <1>3, <2>1, <2>3 DEF AloneInv, Drops, Fresh, Placed, Missing
  <2>4. QED
    BY <2>2, <2>3 DEF QuietWork
<1>4. AloneInv'
  BY <1>2, <1>3 DEF AloneInv, Respelt
<1>5. QED
  BY <1>1, <1>4

\* Look-ups and what they find.
LEMMA FoundWork ==
    ASSUME TypeInv, NEW p \in Processes,
           FindContact(p) \/ FindAccount(p) \/ (FindDetails(p) /\ Owner(p) # NoRow)
    PROVE  /\ \A q \in Processes \ {p} : SameWork(q)
           /\ job'[p].kind = "import" /\ job[p].kind = "import"
           /\ job'[p].entry = job[p].entry /\ job[p].entry \in Entry
           /\ FindContact(p) =>
                 /\ job'[p].at = "account" /\ job'[p].firm = job[p].firm
                 /\ IF job[p].entry.person = Nobody THEN job'[p].person = NoRow
                    ELSE LookUp(job[p].entry.person, job'[p].person)
           /\ FindAccount(p) =>
                 /\ job'[p].at = "details" /\ job'[p].person = job[p].person
                 /\ IF job[p].entry.firm = NoFirm THEN job'[p].firm = job[p].firm
                    ELSE LookUp(job[p].entry.firm, job'[p].firm)
           /\ FindDetails(p) =>
                 /\ job'[p].at = "commit"
                 /\ job'[p].person = job[p].person /\ job'[p].firm = job[p].firm
                 /\ Missing(job'[p], Owner(p), held)
<1>1. job[p] \in Job /\ job[p].kind = "import"
  BY DEF TypeInv, TypeOK, WellFormed, FindContact, FindAccount, FindDetails, ImportSteps
<1>2. /\ job[p].entry \in Entry /\ job[p].entry.item \in Items \cup {NoItem}
      /\ job[p].person \in Row \cup {NoRow} /\ job[p].firm \in Row \cup {NoRow}
  BY <1>1, JobParts DEF Entry
<1> DEFINE c(r) == [job[p] EXCEPT !.person = r, !.at = "account"]
           a(r) == [job[p] EXCEPT !.firm = r, !.at = "details"]
           b == [job[p] EXCEPT !.at = "details"]
           found == \/ job[p].entry.item = NoItem
                    \/ job[p].entry.item \in Emails \cup Phones /\ <<Owner(p), job[p].entry.item>> \in held
                    \/ job[p].entry.item \in Addresses /\ \E h \in held : h[2] = job[p].entry.item
           d == [job[p] EXCEPT !.at = "commit", !.found = found]
<1>3. CASE FindContact(p)
  <2>1. PICK r : /\ Become(p, c(r))
                 /\ IF job[p].entry.person = Nobody THEN r = NoRow
                    ELSE LookUp(job[p].entry.person, r)
    BY <1>3 DEF FindContact
  <2>2. /\ c(r).kind = "import" /\ c(r).at = "account" /\ c(r).person = r
        /\ c(r).firm = job[p].firm /\ c(r).entry = job[p].entry
    BY <1>1 DEF Job
  <2>3. job'[p] = c(r) /\ \A q \in Processes \ {p} : SameWork(q)
    BY <2>1, OthersWork
  <2>4. ~FindAccount(p) /\ ~FindDetails(p)
    BY <1>3 DEF FindContact, FindAccount, FindDetails
  <2>5. QED
    BY <1>1, <1>2, <2>1, <2>2, <2>3, <2>4
<1>4. CASE FindAccount(p)
  <2>1. CASE job[p].entry.firm = NoFirm
    <3>1. /\ b.kind = "import" /\ b.at = "details" /\ b.person = job[p].person
          /\ b.firm = job[p].firm /\ b.entry = job[p].entry
      BY <1>1 DEF Job
    <3>2. Become(p, b)
      BY <1>4, <2>1 DEF FindAccount, Goto
    <3>3. job'[p] = b /\ \A q \in Processes \ {p} : SameWork(q)
      BY <3>2, OthersWork
    <3>4. ~FindContact(p) /\ ~FindDetails(p)
      BY <1>4 DEF FindContact, FindAccount, FindDetails
    <3>5. QED
      BY <1>1, <1>2, <2>1, <3>1, <3>3, <3>4
  <2>2. CASE job[p].entry.firm # NoFirm
    <3>1. PICK r : Become(p, a(r)) /\ LookUp(job[p].entry.firm, r)
      BY <1>4, <2>2 DEF FindAccount
    <3>2. /\ a(r).kind = "import" /\ a(r).at = "details" /\ a(r).firm = r
          /\ a(r).person = job[p].person /\ a(r).entry = job[p].entry
      BY <1>1 DEF Job
    <3>3. job'[p] = a(r) /\ \A q \in Processes \ {p} : SameWork(q)
      BY <3>1, OthersWork
    <3>4. ~FindContact(p) /\ ~FindDetails(p)
      BY <1>4 DEF FindContact, FindAccount, FindDetails
    <3>5. QED
      BY <1>1, <1>2, <2>2, <3>1, <3>2, <3>3, <3>4
  <2>3. QED
    BY <2>1, <2>2
<1>5. CASE FindDetails(p) /\ Owner(p) # NoRow
  <2>1. Become(p, d)
    BY <1>5 DEF FindDetails
  <2>2. /\ d.kind = "import" /\ d.at = "commit" /\ d.firm = job[p].firm /\ d.found = found
        /\ d.person = job[p].person /\ d.entry = job[p].entry
    BY <1>1 DEF Job
  <2>3. job'[p] = d /\ \A q \in Processes \ {p} : SameWork(q)
    BY <2>1, OthersWork
  <2>4. ~FindContact(p) /\ ~FindAccount(p)
    BY <1>5 DEF FindContact, FindAccount, FindDetails
  <2>5. /\ ~found => <<Owner(p), job[p].entry.item>> \notin held
        /\ ~found => job[p].entry.item \in Items
    <3>1. \A h \in held : h[2] = <<Owner(p), job[p].entry.item>>[2] => h[2] = job[p].entry.item
      OBVIOUS
    <3>2. QED
      BY <1>2, <3>1 DEF Items
  <2>6. ASSUME ~found, Stored(job[p].entry.item) # job[p].entry.item
        PROVE  Respelt(Stored(job[p].entry.item))
    BY <2>5, <2>6, SpellingTypes DEF Respelt
  <2>7. Missing(d, Owner(p), held)
    BY <2>2, <2>5, <2>6 DEF Missing
  <2>8. QED
    BY <1>1, <1>2, <2>2, <2>3, <2>4, <2>7
<1>6. QED
  BY <1>3, <1>4, <1>5

LEMMA FindRows ==
    ASSUME TypeInv, RowsInv, AloneInv, NEW p \in Processes,
           FindContact(p) \/ FindAccount(p) \/ (FindDetails(p) /\ Owner(p) # NoRow)
    PROVE  RowsInv' /\ AloneInv'
<1>1. UNCHANGED <<rows, held, twice, overlapped>>
  BY DEF FindContact, FindAccount, FindDetails, allButJob, crm, history
<1>2. /\ \A q \in Processes \ {p} : SameWork(q)
      /\ job'[p].kind = "import" /\ job[p].kind = "import"
  BY FoundWork
<1>3. Numbered(job'[p].person, People) /\ Numbered(job'[p].firm, Firms)
  <2>1. job[p].entry.person \in People \cup {Nobody} /\ job[p].entry.firm \in Firms \cup {NoFirm}
    BY FoundWork DEF Entry
  <2>2. Numbered(job[p].person, People) /\ Numbered(job[p].firm, Firms)
    BY DEF RowsInv
  <2>3. \A n \in Names : \A r : LookUp(n, r) => r.name = n /\ r.n <= rows[n]
    BY LookUpType
  <2>4. CASE FindContact(p)
    <3>1. job'[p].firm = job[p].firm
      BY <2>4, FoundWork
    <3>2. \/ job'[p].person = NoRow
          \/ /\ job[p].entry.person \in People
             /\ LookUp(job[p].entry.person, job'[p].person)
      BY <2>1, <2>4, FoundWork
    <3>3. Numbered(job'[p].person, People)
      BY <2>3, <3>2 DEF Numbered, Names
    <3>4. QED
      BY <2>2, <3>1, <3>3
  <2>5. CASE FindAccount(p)
    <3>1. job'[p].person = job[p].person
      BY <2>5, FoundWork
    <3>2. \/ job'[p].firm = job[p].firm
          \/ /\ job[p].entry.firm \in Firms
             /\ LookUp(job[p].entry.firm, job'[p].firm)
      BY <2>1, <2>5, FoundWork
    <3>3. Numbered(job'[p].firm, Firms)
      BY <2>2, <2>3, <3>2 DEF Numbered, Names
    <3>4. QED
      BY <2>2, <3>1, <3>3
  <2>6. CASE FindDetails(p) /\ Owner(p) # NoRow
    BY <2>2, <2>6, FoundWork
  <2>7. QED
    BY <2>4, <2>5, <2>6
<1>4. RowsInv'
  BY <1>1, <1>2, <1>3 DEF RowsInv, Numbered, SameWork
<1>5. ASSUME ~overlapped
      PROVE  /\ Fresh(job'[p].firm)
             /\ job'[p].at \in Placed => Fresh(job'[p].person)
             /\ Missing(job'[p], Owner(p)', held)
  <2>1. job[p].entry.person \in People \cup {Nobody} /\ job[p].entry.firm \in Firms \cup {NoFirm}
    BY FoundWork DEF Entry
  <2>2. Fresh(job[p].firm) /\ (job[p].at \in Placed => Fresh(job[p].person))
    BY <1>2, <1>5 DEF AloneInv, Importing
  <2>3. \A n \in Names : \A r : LookUp(n, r) => r.name = n /\ (r.n = 0 <=> rows[n] = 0)
    BY LookUpType
  <2>4. CASE FindContact(p)
    <3>1. job'[p].firm = job[p].firm /\ job'[p].at = "account"
      BY <2>4, FoundWork
    <3>2. \/ job'[p].person = NoRow
          \/ /\ job[p].entry.person \in People
             /\ LookUp(job[p].entry.person, job'[p].person)
      BY <2>1, <2>4, FoundWork
    <3>3. Fresh(job'[p].person)
      BY <2>3, <3>2 DEF Fresh, Names
    <3>4. QED
      BY <2>2, <3>1, <3>3 DEF Missing
  <2>5. CASE FindAccount(p)
    <3>1. job'[p].person = job[p].person /\ job'[p].at = "details" /\ job[p].at = "account"
      BY <2>5, FoundWork DEF FindAccount
    <3>2. \/ job'[p].firm = job[p].firm
          \/ /\ job[p].entry.firm \in Firms
             /\ LookUp(job[p].entry.firm, job'[p].firm)
      BY <2>1, <2>5, FoundWork
    <3>3. Fresh(job'[p].firm)
      BY <2>2, <2>3, <3>2 DEF Fresh, Names
    <3>4. QED
      BY <2>2, <3>1, <3>3 DEF Placed, Missing
  <2>6. CASE FindDetails(p) /\ Owner(p) # NoRow
    <3>1. job[p].at = "details"
      BY <2>6 DEF FindDetails
    <3>2. Owner(p)' = Owner(p)
      BY <2>6, FoundWork DEF Owner
    <3>3. QED
      BY <2>2, <2>6, <3>1, <3>2, FoundWork DEF Placed
  <2>7. QED
    BY <2>4, <2>5, <2>6
<1>6. AloneInv'
  <2> SUFFICES ASSUME ~overlapped PROVE AloneInv'
    BY <1>1 DEF AloneInv
  <2>1. \A q \in Processes : Importing(q)' <=> Importing(q)
    BY <1>2 DEF SameWork, Importing
  <2>2. \A q \in Processes : Importing(q)' => q = p
    BY <1>2, <2>1 DEF AloneInv, Importing
  <2>3. Fresh(job[p].firm)' /\ (job'[p].at \in Placed => Fresh(job[p].person)')
    BY <1>1, <1>5 DEF Fresh
  <2>4. Missing(job'[p], Owner(p)', held')
    BY <1>1, <1>5
  <2>5. (\A n \in Names : rows[n] <= 1)' /\ \A h \in twice' : Respelt(h[2])
    BY <1>1 DEF AloneInv
  <2>6. QED
    BY <2>2, <2>3, <2>4, <2>5 DEF AloneInv, Respelt
<1>7. QED
  BY <1>4, <1>6

\* Nothing is stored beside an import unless that is recorded.
LEMMA BesideRows ==
    ASSUME TypeInv, RowsInv, AloneInv, NEW p \in Processes, SaveContact(p) \/ TakeImport(p)
    PROVE  RowsInv' /\ AloneInv'
<1>1. /\ job \in [Processes -> Job] /\ rows \in [Names -> Nat] /\ held \subseteq Row \X Items
      /\ job[p] = Idle
  BY DEF TypeInv, TypeOK, SaveContact, TakeImport, Request
<1>2. overlapped' = (overlapped \/ \E q \in Processes : Importing(q)) /\ UNCHANGED twice
  BY DEF SaveContact, TakeImport, crm
<1>3. PICK j : /\ Become(p, j) /\ j.person = NoRow /\ j.firm = NoRow
               /\ j.at = "load" /\ (j.kind = "import" => TakeImport(p))
  <2>1. CASE SaveContact(p)
    <3>1. \A e : LET j == [Idle EXCEPT !.kind = "save", !.at = "load", !.entry = e]
                 IN  j.person = NoRow /\ j.firm = NoRow /\ j.at = "load" /\ j.kind = "save"
      BY DEF Idle
    <3>2. QED
      BY <2>1, <3>1, PushedEntry
  <2>2. CASE TakeImport(p)
    <3>1. LET j == [Idle EXCEPT !.kind = "import", !.at = "load"]
          IN  j.person = NoRow /\ j.firm = NoRow /\ j.at = "load"
      BY DEF Idle
    <3>2. QED
      BY <2>2, <3>1 DEF TakeImport
  <2>3. QED
    BY <2>1, <2>2
<1>4. job'[p] = j /\ \A q \in Processes \ {p} : SameWork(q)
  BY <1>3, OthersWork
<1>5. /\ \A n \in Names : rows[n] <= rows'[n]
      /\ ~overlapped => \A n \in Names : rows'[n] <= 1
      /\ \A h \in held' : 1 <= h[1].n /\ h[1].n <= rows'[h[1].name]
  <2>1. CASE TakeImport(p)
    <3>1. UNCHANGED <<rows, held>>
      BY <2>1 DEF TakeImport, crm
    <3>2. QED
      BY <1>1, <3>1 DEF RowsInv, AloneInv
  <2>2. CASE SaveContact(p)
    <3>0. PICK e \in Inputs : \E item :
            /\ rows[e.person] = 0
            /\ rows' = [rows EXCEPT ![e.person] = 1]
            /\ held' = IF item = NoItem THEN held
                       ELSE held \cup {<<[name |-> e.person, n |-> 1], item>>}
      BY <2>2, SavedContact
    <3>1. PICK item :
            /\ rows[e.person] = 0
            /\ rows' = [rows EXCEPT ![e.person] = 1]
            /\ held' = IF item = NoItem THEN held
                       ELSE held \cup {<<[name |-> e.person, n |-> 1], item>>}
      BY <3>0
    <3>2. e.person \in Names
      BY InputTypes
    <3>3. /\ \A n \in Names : rows'[n] = IF n = e.person THEN 1 ELSE rows[n]
          /\ \A n \in Names : rows[n] <= rows'[n]
      BY <1>1, <3>1, <3>2
    <3>4. ~overlapped => \A n \in Names : rows'[n] <= 1
      BY <3>3 DEF AloneInv
    <3>5. ASSUME NEW h \in held PROVE 1 <= h[1].n /\ h[1].n <= rows'[h[1].name]
      <4>1. h[1].n \in Nat /\ h[1].name \in Names
        BY <1>1 DEF Row
      <4>2. 1 <= h[1].n /\ h[1].n <= rows[h[1].name] /\ rows[h[1].name] <= rows'[h[1].name]
        BY <3>3, <4>1 DEF RowsInv
      <4>3. rows[h[1].name] \in Nat /\ rows'[h[1].name] \in Nat
        BY <1>1, <3>3, <4>1
      <4>4. QED
        BY <4>1, <4>2, <4>3
    <3>6. LET h == <<[name |-> e.person, n |-> 1], item>>
          IN  1 <= h[1].n /\ h[1].n <= rows'[h[1].name]
      BY <3>2, <3>3
    <3>7. QED
      BY <3>1, <3>3, <3>4, <3>5, <3>6
  <2>3. QED
    BY <2>1, <2>2
<1>6. RowsInv'
  <2>1. ASSUME NEW q \in Processes
        PROVE  Numbered(job[q].person, People)' /\ Numbered(job[q].firm, Firms)'
    <3>1. CASE q = p
      BY <1>3, <1>4, <3>1 DEF Numbered
    <3>2. CASE q # p
      <4>1. job'[q].person = job[q].person /\ job'[q].firm = job[q].firm
        BY <1>4, <3>2 DEF SameWork
      <4>2. Numbered(job[q].person, People) /\ Numbered(job[q].firm, Firms)
        BY DEF RowsInv
      <4>3. job[q].person \in Row \cup {NoRow} /\ job[q].firm \in Row \cup {NoRow}
        BY <1>1, JobParts
      <4>4. ASSUME NEW r \in Row, r.n <= rows[r.name] PROVE r.n <= rows'[r.name]
        <5>1. /\ r.n \in Nat /\ rows[r.name] \in Nat /\ rows[r.name] <= rows'[r.name]
              /\ rows'[r.name] \in Nat
          BY <1>1, <1>5, BeginType DEF Row, TypeInv, TypeOK
        <5>2. QED
          BY <4>4, <5>1
      <4>5. QED
        BY <4>1, <4>2, <4>3, <4>4 DEF Numbered
    <3>3. QED
      BY <3>1, <3>2
  <2>2. QED
    BY <1>5, <2>1 DEF RowsInv
<1>7. AloneInv'
  <2> SUFFICES ASSUME ~overlapped' PROVE AloneInv'
    BY DEF AloneInv
  <2>1. ~overlapped /\ \A q \in Processes : ~Importing(q)
    BY <1>2
  <2>2. \A q \in Processes : Importing(q)' => q = p
    BY <1>4, <2>1 DEF Importing, SameWork
  <2>3. Fresh(job[p].firm)' /\ job'[p].at = "load"
    BY <1>3, <1>4 DEF Fresh
  <2>4. (\A n \in Names : rows[n] <= 1)' /\ \A h \in twice' : Respelt(h[2])
    BY <1>2, <1>5, <2>1 DEF AloneInv
  <2>5. QED
    BY <2>2, <2>3, <2>4 DEF AloneInv, Placed, Missing, Respelt
<1>8. QED
  BY <1>6, <1>7

\* Saving an object again gives its details other spellings; it starts a push.
LEMMA AgainWork ==
    ASSUME TypeInv, NEW p \in Processes, SaveAgain(p)
    PROVE  /\ \A q \in Processes \ {p} : SameWork(q)
           /\ job[p] = Idle /\ job'[p].person = NoRow /\ job'[p].firm = NoRow
           /\ job'[p].at \in {"idle", "load"} /\ job'[p].kind \in {"idle", "save"}
           /\ job'[p].entry.item = NoItem
           /\ job'[p].kind = "save" => job'[p].entry.person # Nobody
<1>1. PICK name \in Names :
         Become(p, IF name \in Firms THEN Idle
                   ELSE [Idle EXCEPT !.kind = "save", !.at = "load",
                         !.entry = [NoEntry EXCEPT !.person = name]])
  BY DEF SaveAgain
<1> DEFINE e == [NoEntry EXCEPT !.person = name]
           j == [Idle EXCEPT !.kind = "save", !.at = "load", !.entry = e]
<1>2. e.item = NoItem /\ e.person = name
  BY DEF NoEntry
<1>3. /\ j.person = NoRow /\ j.firm = NoRow /\ j.at = "load" /\ j.kind = "save"
      /\ j.entry = e
  BY DEF Idle
<1>4. /\ Idle.person = NoRow /\ Idle.firm = NoRow /\ Idle.at = "idle" /\ Idle.kind = "idle"
      /\ Idle.entry.item = NoItem
  BY DEF Idle, NoEntry
<1>5. Become(p, Idle) \/ Become(p, j)
  BY <1>1
<1>6. job[p] = Idle /\ name # Nobody
  BY MoneybirdAssumption DEF SaveAgain, Request
<1> HIDE DEF e, j
<1>7. CASE Become(p, Idle)
  <2>1. job'[p] = Idle /\ \A q \in Processes \ {p} : SameWork(q)
    BY <1>7, OthersWork
  <2>2. QED
    BY <1>4, <1>6, <2>1
<1>8. CASE Become(p, j)
  <2>1. job'[p] = j /\ \A q \in Processes \ {p} : SameWork(q)
    BY <1>8, OthersWork
  <2>2. QED
    BY <1>2, <1>3, <1>6, <2>1
<1>9. QED
  BY <1>5, <1>7, <1>8

LEMMA AgainRows ==
    ASSUME TypeInv, RowsInv, AloneInv, NEW p \in Processes, SaveAgain(p)
    PROVE  RowsInv' /\ AloneInv'
<1>1. UNCHANGED <<rows, overlapped>>
  BY DEF SaveAgain, history
<1>2. /\ held \subseteq Row \X Items /\ held' \subseteq Row \X Items /\ twice' \subseteq held'
      /\ \A g \in held' : \E h \in held : g[1] = h[1] /\ g[2] \in {h[2], Reformatted(h[2])}
      /\ \A g \in twice' : g \in twice \/ \E h \in held : g[2] = Reformatted(h[2]) /\ g[2] # h[2]
  BY ResavedType DEF TypeInv, TypeOK
<1>3. ASSUME NEW h \in held, Reformatted(h[2]) # h[2] PROVE Respelt(Reformatted(h[2]))
  <2>1. h[2] \in Items
    BY <1>2
  <2>2. QED
    BY <1>3, <2>1, SpellingTypes DEF Respelt
<1>4. RowsInv'
  <2>1. \A h \in held' : 1 <= h[1].n /\ h[1].n <= rows[h[1].name]
    BY <1>2 DEF RowsInv
  <2>2. ASSUME NEW q \in Processes
        PROVE  Numbered(job[q].person, People)' /\ Numbered(job[q].firm, Firms)'
    <3>1. CASE q = p
      BY <3>1, AgainWork DEF Numbered
    <3>2. CASE q # p
      BY <1>1, <3>2, AgainWork DEF RowsInv, SameWork, Numbered
    <3>3. QED
      BY <3>1, <3>2
  <2>3. QED
    BY <1>1, <2>1, <2>2 DEF RowsInv
<1>5. ASSUME ~overlapped, NEW q \in Processes, Importing(q)'
      PROVE  /\ Fresh(job[q].firm)'
             /\ job'[q].at \in Placed => Fresh(job[q].person)'
             /\ Missing(job'[q], Owner(q)', held')
             /\ Importing(q)
  <2>1. q # p /\ SameWork(q)
    BY <1>5, AgainWork DEF Importing
  <2>2. Importing(q)
    BY <1>5, <2>1 DEF Importing, SameWork
  <2>3. Fresh(job[q].firm)' /\ (job'[q].at \in Placed => Fresh(job[q].person)')
    BY <1>1, <1>5, <2>1, <2>2 DEF AloneInv, Fresh, SameWork
  <2>4. Missing(job[q], Owner(q), held)
    BY <1>5, <2>2 DEF AloneInv
  <2> DEFINE o == Owner(q)
             i == Stored(job[q].entry.item)
  <2>5. /\ Owner(q)' = o /\ job'[q].entry = job[q].entry /\ job'[q].at = job[q].at
        /\ job'[q].found = job[q].found
    BY <2>1 DEF Owner, SameWork
  <2>6. ASSUME <<o, i>> \notin held, <<o, i>> \in held' PROVE Respelt(i)
    <3>1. PICK h \in held : o = h[1] /\ i \in {h[2], Reformatted(h[2])}
      BY <1>2, <2>6
    <3>2. h = <<h[1], h[2]>>
      BY <1>2
    <3>3. QED
      BY <1>3, <2>6, <3>1, <3>2
  <2>7. Missing(job'[q], Owner(q)', held')
    BY <2>4, <2>5, <2>6 DEF Missing
  <2>8. QED
    BY <2>2, <2>3, <2>7
<1>6. ASSUME ~overlapped PROVE \A h \in twice' : Respelt(h[2])
  BY <1>2, <1>3, <1>6 DEF AloneInv
<1>7. AloneInv'
  BY <1>1, <1>5, <1>6 DEF AloneInv, Respelt
<1>8. QED
  BY <1>4, <1>7

\* Nor is an account saved beside an import unless that is recorded.
LEMMA AccountRows ==
    ASSUME TypeInv, RowsInv, AloneInv, NEW p \in Processes, SaveAccount(p)
    PROVE  RowsInv' /\ AloneInv'
<1>1. PICK f \in Firms : rows[f] = 0 /\ rows' \in {rows, [rows EXCEPT ![f] = 1]}
  BY DEF SaveAccount
<1>2. /\ UNCHANGED <<held, twice, job>>
      /\ overlapped' = (overlapped \/ \E q \in Processes : Importing(q))
  BY DEF SaveAccount
<1>3. /\ rows \in [Names -> Nat] /\ rows' \in [Names -> Nat] /\ f \in Names
      /\ held \subseteq Row \X Items /\ job \in [Processes -> Job]
  BY <1>1 DEF TypeInv, TypeOK, Names
<1>4. \A n \in Names : /\ rows[n] \in Nat /\ rows'[n] \in Nat /\ rows[n] <= rows'[n]
                       /\ rows[n] <= 1 => rows'[n] <= 1
  BY <1>1, <1>3
<1>5. \A r \in Row : /\ r.n <= rows[r.name] => r.n <= rows'[r.name]
                     /\ r.name \in Names
  BY <1>4 DEF Row
<1>6. RowsInv'
  <2>1. \A h \in held : h[1] \in Row /\ 1 <= h[1].n /\ h[1].n <= rows'[h[1].name]
    BY <1>3, <1>5 DEF RowsInv
  <2>2. ASSUME NEW q \in Processes
        PROVE  Numbered(job[q].person, People)' /\ Numbered(job[q].firm, Firms)'
    <3>1. job[q].person \in Row \cup {NoRow} /\ job[q].firm \in Row \cup {NoRow}
      BY <1>3, JobParts
    <3>2. QED
      BY <1>2, <1>5, <3>1 DEF RowsInv, Numbered
  <2>3. QED
    BY <1>2, <2>1, <2>2 DEF RowsInv
<1>7. ASSUME ~overlapped' PROVE ~overlapped /\ \A q \in Processes : ~Importing(q)' /\ ~Importing(q)
  BY <1>2, <1>7 DEF Importing
<1>8. AloneInv'
  BY <1>2, <1>4, <1>7 DEF AloneInv, Respelt
<1>9. QED
  BY <1>6, <1>8

\* The transaction of an entry: what it writes, of whom, and what the job becomes.
LEMMA CommitWork ==
    ASSUME TypeInv, RowsInv, NEW p \in Processes, Commit(p)
    PROVE  LET touched == {Owner(p)} \cup
                          (IF job[p].entry.firm # NoFirm THEN {job[p].firm} ELSE {})
           IN  /\ job[p].kind = "import" /\ job[p].at = "commit"
               /\ Owner(p) \in Row /\ touched \subseteq Row
               /\ \A q \in Processes \ {p} : SameWork(q)
               /\ job'[p].kind = "import" /\ job'[p].at = "fetch"
               /\ job'[p].entry = job[p].entry /\ job'[p].person = job[p].person
               /\ job'[p].firm = IF job[p].firm \in touched THEN Saved(job[p].firm)
                                 ELSE job[p].firm
               /\ \A n \in Names : rows'[n] = IF New(n) \in touched THEN rows[n] + 1 ELSE rows[n]
<1>1. /\ WellFormed(job[p]) /\ job[p] \in Job /\ job[p].at = "commit" /\ NoRow \notin Row
      /\ job[p].person \in Row \cup {NoRow} /\ job[p].firm \in Row \cup {NoRow}
  BY JobParts, RecordTypes DEF Commit, TypeInv, TypeOK
<1> DEFINE touched == {Owner(p)} \cup
                      (IF job[p].entry.firm # NoFirm THEN {job[p].firm} ELSE {})
           f == IF job[p].firm \in touched THEN Saved(job[p].firm) ELSE job[p].firm
           j == [job[p] EXCEPT !.page = @ + 1, !.at = "fetch", !.firm = f, !.found = FALSE]
<1>2. job[p].kind = "import" /\ Owner(p) \in Row /\ touched \subseteq Row
  BY <1>1 DEF WellFormed, Owner, ImportSteps
<1>3. Become(p, j)
  BY DEF Commit, NextPage
<1>4. job'[p] = j /\ \A q \in Processes \ {p} : SameWork(q)
  BY <1>3, OthersWork
<1>5. /\ j.kind = job[p].kind /\ j.at = "fetch" /\ j.entry = job[p].entry
      /\ j.person = job[p].person /\ j.firm = f
  BY <1>1 DEF Job
<1>6. \A n \in Names : rows'[n] = IF New(n) \in touched THEN rows[n] + 1 ELSE rows[n]
  BY DEF Commit
<1>7. QED
  BY <1>1, <1>2, <1>4, <1>5, <1>6

LEMMA CommitRows ==
    ASSUME TypeInv, RowsInv, AloneInv, NEW p \in Processes, Commit(p)
    PROVE  RowsInv' /\ AloneInv'
<1> DEFINE touched == {Owner(p)} \cup
                      (IF job[p].entry.firm # NoFirm THEN {job[p].firm} ELSE {})
           detail == <<Saved(Owner(p)), Stored(job[p].entry.item)>>
<1>1. /\ job \in [Processes -> Job] /\ rows \in [Names -> Nat] /\ held \subseteq Row \X Items
      /\ rows' \in [Names -> Nat] /\ NoRow \notin Row
  BY CommitType, RecordTypes DEF TypeInv, TypeOK
<1>2. /\ job[p].kind = "import" /\ job[p].at = "commit"
      /\ Owner(p) \in Row /\ touched \subseteq Row
      /\ \A q \in Processes \ {p} : SameWork(q)
      /\ job'[p].kind = "import" /\ job'[p].at = "fetch"
      /\ job'[p].entry = job[p].entry /\ job'[p].person = job[p].person
      /\ job'[p].firm = IF job[p].firm \in touched THEN Saved(job[p].firm) ELSE job[p].firm
      /\ \A n \in Names : rows'[n] = IF New(n) \in touched THEN rows[n] + 1 ELSE rows[n]
  BY CommitWork
<1>3. /\ overlapped' = overlapped
      /\ held' = IF job[p].found THEN held ELSE held \cup {detail}
      /\ twice' = IF job[p].found THEN twice ELSE twice \cup ({detail} \cap held)
  BY DEF Commit, history
<1>4. \A r \in Row : /\ r.name \in Names /\ r.n \in Nat
                     /\ rows[r.name] \in Nat /\ rows'[r.name] \in Nat
                     /\ rows[r.name] <= rows'[r.name]
                     /\ (r.n = 0 <=> r = New(r.name))
  <2> SUFFICES ASSUME NEW r \in Row
               PROVE  /\ r.name \in Names /\ r.n \in Nat
                      /\ rows[r.name] \in Nat /\ rows'[r.name] \in Nat
                      /\ rows[r.name] <= rows'[r.name]
                      /\ (r.n = 0 <=> r = New(r.name))
    OBVIOUS
  <2>1. r.name \in Names /\ r.n \in Nat
    BY DEF Row
  <2>2. rows[r.name] \in Nat /\ rows'[r.name] \in Nat /\ rows[r.name] <= rows'[r.name]
    BY <1>1, <1>2, <2>1
  <2>3. r.n = 0 <=> r = New(r.name)
    BY DEF Row, New
  <2>4. QED
    BY <2>1, <2>2, <2>3
<1>5. /\ Numbered(job[p].person, People) /\ Numbered(job[p].firm, Firms)
      /\ job[p].person \in Row \cup {NoRow} /\ job[p].firm \in Row \cup {NoRow}
  BY <1>1, JobParts DEF RowsInv
<1>6. \A r \in touched : r.n <= rows[r.name]
  <2>1. touched \subseteq {job[p].person, job[p].firm} /\ NoRow \notin touched
    BY <1>1, <1>2 DEF Owner
  <2>2. QED
    BY <1>5, <2>1 DEF Numbered
<1>7. \A r \in touched : 1 <= Saved(r).n /\ Saved(r).n <= rows'[r.name] /\ Saved(r).name = r.name
  <2> SUFFICES ASSUME NEW r \in touched
               PROVE  1 <= Saved(r).n /\ Saved(r).n <= rows'[r.name] /\ Saved(r).name = r.name
    OBVIOUS
  <2>1. r \in Row /\ r.name \in Names
    BY <1>2, <1>4
  <2>2. Saved(r).name = r.name /\ Saved(r).n = IF r.n = 0 THEN rows[r.name] + 1 ELSE r.n
    BY <2>1, SavedType
  <2>3. r.n = 0 => rows'[r.name] = rows[r.name] + 1
    BY <1>2, <1>4, <2>1
  <2>4. r.n \in Nat /\ rows[r.name] \in Nat /\ rows[r.name] <= rows'[r.name] /\ rows'[r.name] \in Nat
        /\ r.n <= rows[r.name]
    BY <1>4, <1>6, <2>1
  <2>5. QED
    BY <2>2, <2>3, <2>4
<1>8. \A r \in Row : r.n <= rows[r.name] => r.n <= rows'[r.name]
  BY <1>4
<1>9. RowsInv'
  <2>1. ASSUME NEW h \in held' PROVE 1 <= h[1].n /\ h[1].n <= rows'[h[1].name]
    <3>1. CASE h \in held
      BY <1>1, <1>8, <3>1 DEF RowsInv
    <3>2. CASE h = detail
      BY <1>7, <3>2
    <3>3. QED
      BY <1>3, <3>1, <3>2
  <2>2. ASSUME NEW q \in Processes \ {p}
        PROVE  Numbered(job[q].person, People)' /\ Numbered(job[q].firm, Firms)'
    <3>1. job'[q].person = job[q].person /\ job'[q].firm = job[q].firm
      BY <1>2 DEF SameWork
    <3>2. Numbered(job[q].person, People) /\ Numbered(job[q].firm, Firms)
      BY DEF RowsInv
    <3>3. job[q].person \in Row \cup {NoRow} /\ job[q].firm \in Row \cup {NoRow}
      BY <1>1, JobParts
    <3>4. QED
      BY <1>8, <3>1, <3>2, <3>3 DEF Numbered
  <2>3. Numbered(job[p].person, People)'
    BY <1>2, <1>5, <1>8 DEF Numbered
  <2>4. Numbered(job[p].firm, Firms)'
    <3>1. CASE job[p].firm \in touched
      <4>1. job[p].firm.name \in Firms
        BY <1>1, <1>2, <1>5, <3>1 DEF Numbered
      <4>2. QED
        BY <1>2, <1>7, <3>1, <4>1 DEF Numbered
    <3>2. CASE job[p].firm \notin touched
      BY <1>2, <1>5, <1>8, <3>2 DEF Numbered
    <3>3. QED
      BY <3>1, <3>2
  <2>5. QED
    BY <2>1, <2>2, <2>3, <2>4 DEF RowsInv
<1>10. AloneInv'
  <2> SUFFICES ASSUME ~overlapped PROVE AloneInv'
    BY <1>3 DEF AloneInv
  <2>1. /\ Fresh(job[p].firm) /\ Fresh(job[p].person)
        /\ ~job[p].found => \/ <<Owner(p), Stored(job[p].entry.item)>> \notin held
                            \/ Respelt(Stored(job[p].entry.item))
        /\ \A q \in Processes : Importing(q) => q = p
        /\ \A h \in twice : Respelt(h[2])
        /\ \A n \in Names : rows[n] <= 1
    BY <1>2 DEF AloneInv, Importing, Placed, Missing
  <2>2. \A q \in Processes : Importing(q)' => q = p
    BY <1>2, <2>1 DEF Importing, SameWork
  <2>3. \A r \in touched : Fresh(r)
    BY <2>1 DEF Owner
  <2>4. \A n \in Names : rows'[n] <= 1
    <3> SUFFICES ASSUME NEW n \in Names PROVE rows'[n] <= 1
      OBVIOUS
    <3>1. CASE New(n) \in touched
      <4>1. rows[n] = 0
        BY <1>1, <1>2, <2>3, <3>1 DEF Fresh, New
      <4>2. QED
        BY <1>2, <3>1, <4>1
    <3>2. CASE New(n) \notin touched
      BY <1>2, <2>1, <3>2
    <3>3. QED
      BY <3>1, <3>2
  <2>5. ~job[p].found => detail \notin held \/ Respelt(Stored(job[p].entry.item))
    <3>1. CASE Owner(p).n = 0
      <4>1. Saved(Owner(p)).n = 1 /\ Saved(Owner(p)).name = Owner(p).name
            /\ rows[Owner(p).name] = 0
        BY <1>1, <1>2, <2>3, <3>1, SavedType DEF Fresh
      <4>2. \A h \in held : h[1] # Saved(Owner(p))
        BY <4>1 DEF RowsInv
      <4>3. QED
        BY <4>2
    <3>2. CASE Owner(p).n # 0
      BY <2>1, <3>2 DEF Saved
    <3>3. QED
      BY <3>1, <3>2
  <2>6. \A h \in twice' : Respelt(h[2])
    <3>1. detail[2] = Stored(job[p].entry.item)
      OBVIOUS
    <3>2. QED
      BY <1>3, <2>1, <2>5, <3>1
  <2>7. Fresh(job[p].firm)'
    <3>1. CASE job[p].firm \in touched
      BY <1>2, <1>7, <3>1 DEF Fresh
    <3>2. CASE job[p].firm \notin touched
      <4>1. CASE job[p].firm = NoRow
        BY <1>2, <3>2, <4>1 DEF Fresh
      <4>2. CASE job[p].firm # NoRow
        <5>1. job[p].firm \in Row /\ job[p].firm.name \in Firms
          BY <1>5, <4>2 DEF Numbered
        <5>2. Owner(p) = job[p].person /\ job[p].person # NoRow /\ job[p].entry.firm = NoFirm
          BY <3>2 DEF Owner
        <5>3. Owner(p).name \in People
          BY <1>5, <5>2 DEF Numbered
        <5>4. New(job[p].firm.name) # Owner(p)
          BY <5>1, <5>3, MoneybirdAssumption DEF New
        <5>5. New(job[p].firm.name) \notin touched
          BY <5>2, <5>4
        <5>6. rows'[job[p].firm.name] = rows[job[p].firm.name]
          BY <1>2, <1>4, <5>1, <5>5
        <5>7. QED
          BY <1>2, <2>1, <3>2, <5>6 DEF Fresh
      <4>3. QED
        BY <4>1, <4>2
    <3>3. QED
      BY <3>1, <3>2
  <2>8. QED
    BY <1>2, <2>2, <2>4, <2>6, <2>7 DEF AloneInv, Placed, Missing, Respelt
<1>11. QED
  BY <1>9, <1>10

LEMMA RowsStep == TypeInv /\ RowsInv /\ AloneInv /\ [Next]_vars => RowsInv' /\ AloneInv'
<1> SUFFICES ASSUME TypeInv, RowsInv, AloneInv, [Next]_vars PROVE RowsInv' /\ AloneInv'
  OBVIOUS
<1>1. CASE UNCHANGED vars \/ TokenExpires \/ EntryDeleted
  <2>1. UNCHANGED <<rows, held, twice, overlapped>>
    BY <1>1 DEF vars, allButJob, crm, history, TokenExpires, EntryDeleted
  <2>2. job' = job \/ job' = [q \in Processes |-> MissedSomething(q)]
    BY <1>1 DEF vars, TokenExpires, EntryDeleted
  <2>3. \A q \in Processes : job[q] \in Job /\ job'[q] \in {job[q], [job[q] EXCEPT !.smooth = FALSE]}
    BY <2>2 DEF MissedSomething, TypeInv, TypeOK
  <2>4. \A q \in Processes : SameWork(q)
    BY <2>3, FlagsSameWork
  <2>5. QED
    BY <2>1, <2>4, QuietRows DEF QuietWork
<1>2. ASSUME NEW p \in Processes,
             \/ Connect(p) \/ PutNewCredentials(p) \/ UseCredentials(p) \/ LoadCredentials(p)
             \/ Refresh(p) \/ KeepToken(p) \/ NoCredentials(p) \/ ExchangeCode(p)
             \/ InstallToken(p) \/ SaveSetting(p) \/ QueueImport(p) \/ ShowEstimates(p)
             \/ PushOrNot(p) \/ Search(p) \/ PushContact(p) \/ EndImport(p) \/ Crash(p)
             \/ StartImport(p) \/ FetchPage(p) \/ RollBack(p)
             \/ (FindDetails(p) /\ Owner(p) = NoRow)
      PROVE  RowsInv' /\ AloneInv'
  <2>1. UNCHANGED <<rows, held, twice, overlapped>>
    BY <1>2
       DEF Connect, PutNewCredentials, UseCredentials, LoadCredentials, Refresh, KeepToken,
           NoCredentials, ExchangeCode, InstallToken, SaveSetting, QueueImport, ShowEstimates,
           PushOrNot, Search, PushContact, EndImport, Crash, StartImport, FetchPage, RollBack,
           FindDetails, allButJob, crm, history
  <2>2. QuietWork
    BY <1>2, RequestsQuiet, ImportQuiet
  <2>3. QED
    BY <2>1, <2>2, QuietRows
<1>3. ASSUME NEW p \in Processes, Step(p) PROVE RowsInv' /\ AloneInv'
  BY <1>2, <1>3, FindRows, CommitRows DEF Step
<1>4. ASSUME NEW p \in Processes,
             \/ Connect(p) \/ UseCredentials(p) \/ SaveContact(p) \/ SaveAgain(p)
             \/ SaveAccount(p) \/ TakeImport(p) \/ Crash(p)
      PROVE  RowsInv' /\ AloneInv'
  BY <1>2, <1>4, BesideRows, AgainRows, AccountRows
<1>5. QED
  BY <1>1, <1>3, <1>4 DEF Next

LEMMA RowsInit == Init => RowsInv /\ AloneInv
BY DEF Init, RowsInv, AloneInv, Idle, Numbered, Importing

\* Importing again, after whatever was refused, failed or died, creates no contact,
\* customer or detail a second time, unless a detail's spelling changes in Lily: for
\* any address book, as long as imports do not run beside each other or beside a
\* user who saves something new.
THEOREM NothingTwice == Spec => []NoDuplicates
<1>1. AloneInv => NoDuplicates
  BY DEF AloneInv, NoDuplicates, Respelt
<1>2. QED
  BY <1>1, InitType, NextType, RowsInit, RowsStep, PTL DEF Spec

-----------------------------------------------------------------------------
(* Nothing is found on strangers.  The entries that Moneybird and an       *)
(* import have were in the address book or saved by a user, but for the    *)
(* company that Moneybird knows of a person; and an import has the objects *)
(* its entry names.                                                        *)

Sources == Inputs \cup {scenario.book[i] : i \in 1 .. Len(scenario.book)}

Fits(e, h) ==
    /\ e.item # NoItem /\ h[2] \in Spellings(e.item)
    /\ Named(e) => h[1].name \in {e.person, e.firm}

Known(b) ==
    b.item # NoItem =>
        \E e \in Sources : /\ e.item = b.item
                           /\ Named(e) => Named(b) /\ Lead(b) \in {e.person, e.firm}

InHand(j) ==
    /\ j.kind = "save" => j.entry.person # Nobody
    /\ j.at \in Placed => IF j.entry.person = Nobody THEN j.person = NoRow
                          ELSE j.person # NoRow /\ j.person.name = j.entry.person
    /\ j.at \in {"details", "commit"} /\ j.entry.firm # NoFirm =>
           j.firm.name = j.entry.firm

StrangersInv ==
    /\ \A h \in held : \E e \in Sources : Fits(e, h)
    /\ \A i \in 1 .. Len(book) : Known(book[i])
    /\ \A p \in Processes : Known(job[p].entry) /\ InHand(job[p])

LEMMA QuietStrangers ==
    ASSUME StrangersInv, QuietWork, UNCHANGED <<held, scenario>>,
           \A i \in 1 .. Len(book') : Known(book'[i])
    PROVE  StrangersInv'
<1>1. Sources' = Sources
  BY DEF Sources
<1>2. (\A h \in held : \E e \in Sources : Fits(e, h))'
  BY <1>1 DEF StrangersInv, Fits
<1>3. (\A i \in 1 .. Len(book) : Known(book[i]))'
  BY <1>1 DEF Known
<1>4. ASSUME NEW q \in Processes PROVE Known(job'[q].entry) /\ InHand(job'[q])
  <2>1. Known(job[q].entry) /\ InHand(job[q])
    BY DEF StrangersInv
  <2>2. CASE SameWork(q)
    BY <2>1, <2>2 DEF SameWork, InHand
  <2>3. CASE Drops(job[q], job'[q])
    <3>1. Known(NoEntry)
      BY DEF Known, NoEntry
    <3>2. Known(job'[q].entry)
      BY <2>1, <2>3, <3>1 DEF Drops, StrangersInv
    <3>3. InHand(job'[q])
      BY <2>1, <2>3 DEF Drops, InHand, Placed
    <3>4. QED
      BY <3>2, <3>3
  <2>4. QED
    BY <2>2, <2>3 DEF QuietWork
<1>5. (\A p \in Processes : Known(job[p].entry) /\ InHand(job[p]))'
  BY <1>1, <1>4 DEF Known, InHand
<1>6. QED
  BY <1>2, <1>3, <1>5 DEF StrangersInv

LEMMA FindStrangers ==
    ASSUME TypeInv, StrangersInv, NEW p \in Processes,
           FindContact(p) \/ FindAccount(p) \/ (FindDetails(p) /\ Owner(p) # NoRow)
    PROVE  StrangersInv'
<1>1. UNCHANGED <<held, scenario, book>>
  BY DEF FindContact, FindAccount, FindDetails, allButJob, crm
<1>2. Sources' = Sources
  BY <1>1 DEF Sources
<1>3. /\ \A q \in Processes \ {p} : SameWork(q)
      /\ job'[p].kind = "import" /\ job[p].kind = "import"
      /\ job'[p].entry = job[p].entry /\ job[p].entry \in Entry
  BY FoundWork
<1>4. InHand(job[p]) /\ Known(job[p].entry)
  BY DEF StrangersInv
<1>5. /\ job[p].entry.person \in People \cup {Nobody} /\ job[p].entry.firm \in Firms \cup {NoFirm}
      /\ NoRow \notin Row
  BY <1>3, RecordTypes DEF Entry
<1>6. \A n \in Names : \A r : LookUp(n, r) => r \in Row /\ r.name = n
  BY LookUpType
<1>7. InHand(job'[p])
  <2>1. CASE FindContact(p)
    <3>1. job'[p].at = "account"
      BY <2>1, FoundWork
    <3>2. IF job[p].entry.person = Nobody THEN job'[p].person = NoRow
          ELSE LookUp(job[p].entry.person, job'[p].person)
      BY <2>1, FoundWork
    <3>3. IF job[p].entry.person = Nobody THEN job'[p].person = NoRow
          ELSE job'[p].person # NoRow /\ job'[p].person.name = job[p].entry.person
      BY <1>5, <1>6, <3>2 DEF Names
    <3>4. QED
      BY <1>3, <3>1, <3>3 DEF InHand
  <2>2. CASE FindAccount(p)
    <3>1. job[p].at = "account" /\ job'[p].at = "details" /\ job'[p].person = job[p].person
      BY <2>2, FoundWork DEF FindAccount
    <3>2. job[p].entry.firm # NoFirm => LookUp(job[p].entry.firm, job'[p].firm)
      BY <2>2, FoundWork
    <3>3. job[p].entry.firm # NoFirm => job'[p].firm.name = job[p].entry.firm
      BY <1>5, <1>6, <3>2 DEF Names
    <3>4. QED
      BY <1>3, <1>4, <3>1, <3>3 DEF InHand, Placed
  <2>3. CASE FindDetails(p) /\ Owner(p) # NoRow
    <3>1. /\ job[p].at = "details" /\ job'[p].at = "commit"
          /\ job'[p].person = job[p].person /\ job'[p].firm = job[p].firm
      BY <2>3, FoundWork DEF FindDetails
    <3>2. QED
      BY <1>3, <1>4, <3>1, SMTT(30) DEF InHand, Placed
  <2>4. QED
    BY <2>1, <2>2, <2>3
<1>8. ASSUME NEW q \in Processes PROVE Known(job'[q].entry) /\ InHand(job'[q])
  <2>1. CASE q = p
    BY <1>3, <1>4, <1>7, <2>1
  <2>2. CASE q # p
    <3>1. SameWork(q) /\ Known(job[q].entry) /\ InHand(job[q])
      BY <1>3, <2>2 DEF StrangersInv
    <3>2. QED
      BY <3>1 DEF SameWork, InHand
  <2>3. QED
    BY <2>1, <2>2
<1>9. (\A q \in Processes : Known(job[q].entry) /\ InHand(job[q]))'
  BY <1>2, <1>8 DEF Known, InHand
<1>10. QED
  BY <1>1, <1>2, <1>9 DEF StrangersInv, Known, Fits

\* What a transaction adds belongs to the person or company of its entry.
LEMMA CommitStrangers ==
    ASSUME TypeInv, RowsInv, StrangersInv, NEW p \in Processes, Commit(p)
    PROVE  StrangersInv'
<1> DEFINE e == job[p].entry
           detail == <<Saved(Owner(p)), Stored(e.item)>>
<1>1. /\ job[p].at = "commit" /\ Owner(p) \in Row
      /\ \A q \in Processes \ {p} : SameWork(q)
      /\ job'[p].kind = "import" /\ job'[p].at = "fetch" /\ job'[p].entry = job[p].entry
  BY CommitWork
<1>2. UNCHANGED <<scenario, book>> /\ held' \subseteq IF job[p].found THEN held ELSE held \cup {detail}
  BY DEF Commit
<1>3. Sources' = Sources
  BY <1>2 DEF Sources
<1>4. Known(e) /\ InHand(job[p])
  BY DEF StrangersInv
<1>5. ASSUME ~job[p].found PROVE \E s \in Sources : Fits(s, detail)
  <2>1. e.item # NoItem
    BY <1>1, <1>5 DEF TypeInv, WellFormed
  <2>2. PICK s \in Sources : /\ s.item = e.item
                             /\ Named(s) => Named(e) /\ Lead(e) \in {s.person, s.firm}
    BY <1>4, <2>1 DEF Known
  <2>3. Named(e) => Owner(p).name = Lead(e)
    BY <1>1, <1>4 DEF Named, InHand, Placed, Owner, Lead
  <2>4. Saved(Owner(p)).name = Owner(p).name
    BY <1>1, SavedType
  <2>5. detail[1] = Saved(Owner(p)) /\ detail[2] \in Spellings(e.item)
    BY DEF Spellings
  <2>6. /\ s.item # NoItem /\ detail[2] \in Spellings(s.item)
        /\ Named(s) => detail[1].name \in {s.person, s.firm}
    BY <2>1, <2>2, <2>3, <2>4, <2>5
  <2>8. Fits(s, detail)
    BY <2>6 DEF Fits
  <2>7. QED
    BY <2>8
<1>6. \A h \in held' : \E s \in Sources : Fits(s, h)
  BY <1>2, <1>5 DEF StrangersInv
<1>7. ASSUME NEW q \in Processes PROVE Known(job'[q].entry) /\ InHand(job'[q])
  <2>1. CASE q = p
    BY <1>1, <1>4, <2>1 DEF InHand, Placed
  <2>2. CASE q # p
    <3>1. SameWork(q) /\ Known(job[q].entry) /\ InHand(job[q])
      BY <1>1, <2>2 DEF StrangersInv
    <3>2. QED
      BY <3>1 DEF SameWork, InHand
  <2>3. QED
    BY <2>1, <2>2
<1>8. (\A q \in Processes : Known(job[q].entry) /\ InHand(job[q]))'
  BY <1>3, <1>7 DEF Known, InHand
<1>9. (\A h \in held : \E s \in Sources : Fits(s, h))'
  BY <1>3, <1>6 DEF Fits
<1>10. (\A i \in 1 .. Len(book) : Known(book[i]))'
  BY <1>2, <1>3 DEF StrangersInv, Known
<1>11. QED
  BY <1>8, <1>9, <1>10 DEF StrangersInv

LEMMA BesideStrangers ==
    ASSUME TypeInv, StrangersInv, NEW p \in Processes, SaveContact(p) \/ TakeImport(p)
    PROVE  StrangersInv'
<1>1. UNCHANGED <<scenario, book>>
  BY DEF SaveContact, TakeImport
<1>2. Sources' = Sources
  BY <1>1 DEF Sources
<1>3. PICK j : /\ Become(p, j) /\ j.at = "load" /\ Known(j.entry)
               /\ j.kind = "save" => j.entry.person # Nobody
  <2>1. CASE SaveContact(p)
    <3>1. PICK o \in Entry : /\ \E e \in Inputs : Pushed(e, o)
                             /\ Become(p, [Idle EXCEPT !.kind = "save", !.at = "load", !.entry = o])
      BY <2>1, PushedEntry
    <3>2. LET j == [Idle EXCEPT !.kind = "save", !.at = "load", !.entry = o]
          IN  j.at = "load" /\ j.entry = o
      BY DEF Idle
    <3>3. PICK e \in Inputs : Pushed(e, o)
      BY <3>1
    <3>4. o.person = e.person /\ o.firm = e.firm /\ o.item \in {e.item, NoItem}
          /\ e.person # Nobody /\ e \in Sources
      BY <3>3, MoneybirdAssumption DEF Sources, Pushed
    <3>5. Known(o) /\ o.person # Nobody
      BY <3>4 DEF Known, Named, Lead
    <3>6. QED
      BY <3>1, <3>2, <3>5
  <2>2. CASE TakeImport(p)
    <3>1. LET j == [Idle EXCEPT !.kind = "import", !.at = "load"]
          IN  j.at = "load" /\ j.entry = NoEntry /\ j.kind = "import"
      BY DEF Idle
    <3>2. Known(NoEntry)
      BY DEF Known, NoEntry
    <3>3. QED
      BY <2>2, <3>1, <3>2 DEF TakeImport
  <2>3. QED
    BY <2>1, <2>2
<1>4. job'[p] = j /\ \A q \in Processes \ {p} : SameWork(q)
  BY <1>3, OthersWork
<1>5. ASSUME NEW q \in Processes PROVE Known(job'[q].entry) /\ InHand(job'[q])
  <2>1. CASE q = p
    BY <1>3, <1>4, <2>1 DEF InHand, Placed
  <2>2. CASE q # p
    <3>1. SameWork(q) /\ Known(job[q].entry) /\ InHand(job[q])
      BY <1>4, <2>2 DEF StrangersInv
    <3>2. QED
      BY <3>1 DEF SameWork, InHand
  <2>3. QED
    BY <2>1, <2>2
<1>6. \A h \in held' : \E s \in Sources : Fits(s, h)
  <2>1. CASE SaveContact(p)
    <3>1. PICK e \in Inputs : \E item \in {Stored(e.item), Reformatted(Stored(e.item))} :
            held' = IF item = NoItem THEN held
                    ELSE held \cup {<<[name |-> e.person, n |-> 1], item>>}
      BY <2>1, SavedContact
    <3>2. PICK item \in {Stored(e.item), Reformatted(Stored(e.item))} :
            held' = IF item = NoItem THEN held
                    ELSE held \cup {<<[name |-> e.person, n |-> 1], item>>}
      BY <3>1
    <3>3. ASSUME item # NoItem PROVE Fits(e, <<[name |-> e.person, n |-> 1], item>>)
      <4>1. e.item # NoItem /\ e.item \in Items
        BY <3>3, InputTypes, NoItemStays
      <4>2. item \in Spellings(e.item)
        BY <4>1, SpellingTypes
      <4>3. QED
        BY <4>1, <4>2 DEF Fits
    <3>4. e \in Sources
      BY DEF Sources
    <3>5. QED
      BY <3>2, <3>3, <3>4 DEF StrangersInv
  <2>2. CASE TakeImport(p)
    BY <2>2 DEF TakeImport, crm, StrangersInv
  <2>3. QED
    BY <2>1, <2>2
<1>7. (\A q \in Processes : Known(job[q].entry) /\ InHand(job[q]))'
  BY <1>2, <1>5 DEF Known, InHand
<1>8. (\A h \in held : \E s \in Sources : Fits(s, h))'
  BY <1>2, <1>6 DEF Fits
<1>9. (\A i \in 1 .. Len(book) : Known(book[i]))'
  BY <1>1, <1>2 DEF StrangersInv, Known
<1>10. QED
  BY <1>7, <1>8, <1>9 DEF StrangersInv

\* Saving something again leaves a detail with its owner.
LEMMA AgainStrangers ==
    ASSUME TypeInv, StrangersInv, NEW p \in Processes, SaveAgain(p)
    PROVE  StrangersInv'
<1>1. UNCHANGED <<scenario, book>> /\ held \subseteq Row \X Items
  BY DEF SaveAgain, TypeInv, TypeOK
<1>2. Sources' = Sources
  BY <1>1 DEF Sources
<1>3. \A g \in held' : \E h \in held : g[1] = h[1] /\ g[2] \in {h[2], Reformatted(h[2])}
  BY ResavedType DEF TypeInv, TypeOK
<1>4. \A e \in Sources : e.item \in Items \cup {NoItem}
  <2>1. scenario.book \in Seq(Entry)
    BY MoneybirdAssumption DEF TypeInv, TypeOK
  <2>2. \A e \in Sources : e \in Entry
    BY <2>1, InputTypes DEF Sources
  <2>3. QED
    BY <2>2 DEF Entry
<1>5. ASSUME NEW g \in held' PROVE \E e \in Sources : Fits(e, g)
  <2>1. PICK h \in held : g[1] = h[1] /\ g[2] \in {h[2], Reformatted(h[2])}
    BY <1>3
  <2>2. PICK e \in Sources : Fits(e, h)
    BY DEF StrangersInv
  <2>3. e.item \in Items /\ h[2] \in Spellings(e.item)
    BY <1>4, <2>2 DEF Fits
  <2>4. g[2] \in Spellings(e.item)
    BY <2>1, <2>3, SpellingTypes
  <2>5. QED
    BY <2>1, <2>2, <2>4 DEF Fits
<1>6. ASSUME NEW q \in Processes PROVE Known(job'[q].entry) /\ InHand(job'[q])
  <2>1. CASE q = p
    BY <2>1, AgainWork DEF Known, InHand, Placed
  <2>2. CASE q # p
    <3>1. SameWork(q) /\ Known(job[q].entry) /\ InHand(job[q])
      BY <2>2, AgainWork DEF StrangersInv
    <3>2. QED
      BY <3>1 DEF SameWork, InHand
  <2>3. QED
    BY <2>1, <2>2
<1>7. (\A q \in Processes : Known(job[q].entry) /\ InHand(job[q]))'
  BY <1>2, <1>6 DEF Known, InHand
<1>8. (\A h \in held : \E e \in Sources : Fits(e, h))'
  BY <1>2, <1>5 DEF Fits
<1>9. (\A i \in 1 .. Len(book) : Known(book[i]))'
  BY <1>1, <1>2 DEF StrangersInv, Known
<1>10. QED
  BY <1>7, <1>8, <1>9 DEF StrangersInv

\* What users save and change at Moneybird, and what is deleted there.
LEMMA BookStrangers ==
    ASSUME TypeInv, StrangersInv,
           EntryDeleted \/ \E p \in Processes : PushContact(p)
    PROVE  /\ \A i \in 1 .. Len(book') : Known(book'[i])
           /\ UNCHANGED <<held, scenario>>
<1>1. book \in Seq(Entry) /\ Len(book) \in Nat /\ \A i \in 1 .. Len(book) : Known(book[i])
  BY DEF TypeInv, TypeOK, StrangersInv
<1>2. UNCHANGED <<held, scenario>>
  BY DEF EntryDeleted, PushContact, crm
<1>3. CASE EntryDeleted
  <2>1. PICK k \in 1 .. Len(book) :
          book' = SubSeq(book, 1, k - 1) \o SubSeq(book, k + 1, Len(book))
    BY <1>3 DEF EntryDeleted
  <2> DEFINE s == SubSeq(book, 1, k - 1)
             t == SubSeq(book, k + 1, Len(book))
  <2>2. /\ s \in Seq(Entry) /\ Len(s) = k - 1
        /\ \A i \in 1 .. k - 1 : s[i] = book[i]
    BY <1>1, SubSeqProperties
  <2>3. /\ t \in Seq(Entry) /\ Len(t) = Len(book) - k
        /\ \A i \in 1 .. Len(book) - k : t[i] = book[k + i]
    BY <1>1, SubSeqProperties
  <2>4. /\ Len(s \o t) = Len(s) + Len(t)
        /\ \A i \in 1 .. Len(s) + Len(t) : (s \o t)[i] = IF i <= Len(s) THEN s[i] ELSE t[i - Len(s)]
    BY <2>2, <2>3, ConcatProperties
  <2>5. book' = s \o t
    BY <2>1
  <2> HIDE DEF s, t
  <2>6. \A i \in 1 .. Len(s \o t) : \E m \in 1 .. Len(book) : (s \o t)[i] = book[m]
    <3> SUFFICES ASSUME NEW i \in 1 .. Len(s \o t)
                 PROVE  \E m \in 1 .. Len(book) : (s \o t)[i] = book[m]
      OBVIOUS
    <3>1. i \in 1 .. Len(book) - 1 /\ (s \o t)[i] = IF i <= k - 1 THEN s[i] ELSE t[i - (k - 1)]
      BY <1>1, <2>2, <2>3, <2>4
    <3>2. CASE i <= k - 1
      <4>1. (s \o t)[i] = book[i]
        BY <1>1, <2>2, <3>1, <3>2
      <4>2. QED
        BY <1>1, <3>1, <4>1
    <3>3. CASE ~(i <= k - 1)
      <4>1. i - (k - 1) \in 1 .. Len(book) - k /\ k + (i - (k - 1)) \in 1 .. Len(book)
        BY <1>1, <3>1, <3>3
      <4>2. (s \o t)[i] = book[k + (i - (k - 1))]
        BY <2>3, <3>1, <3>3, <4>1
      <4>3. QED
        BY <4>1, <4>2
    <3>4. QED
      BY <3>2, <3>3
  <2>7. QED
    BY <1>1, <1>2, <2>5, <2>6
<1>4. ASSUME NEW p \in Processes, PushContact(p)
      PROVE  \A i \in 1 .. Len(book') : Known(book'[i])
  <2> DEFINE e == job[p].entry
  <2>1. /\ e \in Entry /\ e.item \in Items \cup {NoItem} /\ Known(e)
        /\ e.person # Nobody
    BY <1>4, JobParts, MoneybirdAssumption
       DEF TypeInv, TypeOK, Entry, StrangersInv, InHand, PushContact, WellFormed
  <2>2. CASE UNCHANGED book
    BY <1>1, <2>2
  <2>3. CASE book' = <<e>> \o book
    <3>1. \A i \in 1 .. Len(book') : book'[i] = IF i = 1 THEN e ELSE book[i - 1]
      BY <1>1, <2>1, <2>3, ConcatProperties
    <3>2. Len(book') = Len(book) + 1
      BY <1>1, <2>1, <2>3, ConcatProperties
    <3>3. QED
      BY <1>1, <2>1, <3>1, <3>2
  <2>4. CASE book' = Append(book, e)
    BY <1>1, <2>1, <2>4, AppendProperties
  <2>5. ASSUME e.item # NoItem, NEW k \in Hits(p), book' = [book EXCEPT ![k].item = e.item]
        PROVE  \A i \in 1 .. Len(book') : Known(book'[i])
    <3>1. /\ k \in 1 .. Len(book) /\ book[k] \in Entry /\ book[k].person = e.person
      BY <1>1 DEF Hits
    <3> DEFINE b == [book[k] EXCEPT !.item = e.item]
    <3>2. b.item = e.item /\ b.person = e.person
      BY <3>1 DEF Entry
    <3>3. Known(b)
      BY <2>1, <3>2 DEF Known, Named, Lead
    <3>4. Len(book') = Len(book) /\ \A i \in 1 .. Len(book) : book'[i] = IF i = k THEN b ELSE book[i]
      BY <1>1, <2>5, <3>1
    <3>5. QED
      BY <1>1, <3>3, <3>4
  <2>6. QED
    BY <1>4, <2>2, <2>3, <2>4, <2>5 DEF PushContact, BookChanges
<1>5. QED
  BY <1>2, <1>3, <1>4

LEMMA StrangersStep ==
    TypeInv /\ RowsInv /\ StrangersInv /\ [Next]_vars => StrangersInv'
<1> SUFFICES ASSUME TypeInv, RowsInv, StrangersInv, [Next]_vars PROVE StrangersInv'
  OBVIOUS
<1>1. CASE UNCHANGED vars \/ TokenExpires \/ EntryDeleted
  <2>1. job' = job \/ job' = [q \in Processes |-> MissedSomething(q)]
    BY <1>1 DEF vars, TokenExpires, EntryDeleted
  <2>2. \A q \in Processes : job[q] \in Job /\ job'[q] \in {job[q], [job[q] EXCEPT !.smooth = FALSE]}
    BY <2>1 DEF MissedSomething, TypeInv, TypeOK
  <2>3. QuietWork
    BY <2>2, FlagsSameWork DEF QuietWork
  <2>4. /\ UNCHANGED <<held, scenario>>
        /\ \A i \in 1 .. Len(book') : Known(book'[i])
    <3>1. CASE EntryDeleted
      BY <3>1, BookStrangers
    <3>2. CASE UNCHANGED vars \/ TokenExpires
      <4>1. UNCHANGED <<held, scenario, book>>
        BY <3>2 DEF vars, allButJob, crm, TokenExpires
      <4>2. QED
        BY <4>1 DEF StrangersInv
    <3>3. QED
      BY <1>1, <3>1, <3>2
  <2>5. QED
    BY <2>3, <2>4, QuietStrangers
<1>2. ASSUME NEW p \in Processes,
             \/ Connect(p) \/ PutNewCredentials(p) \/ UseCredentials(p) \/ LoadCredentials(p)
             \/ Refresh(p) \/ KeepToken(p) \/ NoCredentials(p) \/ ExchangeCode(p)
             \/ InstallToken(p) \/ SaveSetting(p) \/ QueueImport(p) \/ ShowEstimates(p)
             \/ PushOrNot(p) \/ Search(p) \/ EndImport(p) \/ Crash(p)
             \/ StartImport(p) \/ FetchPage(p) \/ RollBack(p)
             \/ (FindDetails(p) /\ Owner(p) = NoRow)
      PROVE  StrangersInv'
  <2>1. UNCHANGED <<held, scenario, book>>
    BY <1>2
       DEF Connect, PutNewCredentials, UseCredentials, LoadCredentials, Refresh, KeepToken,
           NoCredentials, ExchangeCode, InstallToken, SaveSetting, QueueImport, ShowEstimates,
           PushOrNot, Search, EndImport, Crash, StartImport, FetchPage, RollBack,
           FindDetails, allButJob, crm
  <2>2. QuietWork
    BY <1>2, RequestsQuiet, ImportQuiet
  <2>3. QED
    BY <2>1, <2>2, QuietStrangers DEF StrangersInv
<1>3. ASSUME NEW p \in Processes, PushContact(p) PROVE StrangersInv'
  BY <1>3, RequestsQuiet, BookStrangers, QuietStrangers
<1>4. ASSUME NEW p \in Processes, Step(p) PROVE StrangersInv'
  BY <1>2, <1>3, <1>4, FindStrangers, CommitStrangers DEF Step
<1>5. ASSUME NEW p \in Processes,
             \/ Connect(p) \/ UseCredentials(p) \/ SaveContact(p) \/ SaveAgain(p)
             \/ TakeImport(p) \/ Crash(p)
      PROVE  StrangersInv'
  BY <1>2, <1>5, BesideStrangers, AgainStrangers
<1>6. ASSUME NEW p \in Processes, SaveAccount(p) PROVE StrangersInv'
  <2>1. UNCHANGED <<held, scenario, book, job>>
    BY <1>6 DEF SaveAccount
  <2>2. Sources' = Sources
    BY <2>1 DEF Sources
  <2>3. QED
    BY <2>1, <2>2 DEF StrangersInv, Known, InHand, Fits
<1>7. QED
  BY <1>1, <1>4, <1>5, <1>6 DEF Next

LEMMA StrangersInit == Init => StrangersInv
<1> SUFFICES ASSUME Init PROVE StrangersInv
  OBVIOUS
<1>1. book = scenario.book /\ held = {} /\ \A q \in Processes : job[q] = Idle
  BY DEF Init
<1>2. \A i \in 1 .. Len(book) : Known(book[i])
  BY <1>1 DEF Known, Sources, Named, Lead
<1>3. Known(Idle.entry) /\ InHand(Idle)
  BY DEF Known, InHand, Idle, NoEntry, Placed
<1>4. QED
  BY <1>1, <1>2, <1>3 DEF StrangersInv

\* An email address or a postal address is stored with a person or company of an
\* entry that has it, for any address book: what the loop leaves in its variables
\* only shows for entries that name nobody.
THEOREM NothingOnOthers == Spec => []NothingOnStrangers
<1>1. StrangersInv => NothingOnStrangers
  BY DEF StrangersInv, NothingOnStrangers, Sources, Fits
<1>2. QED
  BY <1>1, InitType, NextType, RowsInit, RowsStep, StrangersInit, StrangersStep, PTL DEF Spec

-----------------------------------------------------------------------------
(* An import that comes to its end.  Until then it has stored what comes   *)
(* before its page; the page it works on is the one it has in hand, unless *)
(* the address book has changed; and a detail it has found is there.       *)

AtEntry == {"contact", "account", "details", "commit"}

HasSpelling(o, i) == \E h \in held : h[1] = o /\ h[2] \in Spellings(i)

ReadingInv(j) ==
    j.at \in ImportSteps /\ j.smooth =>
        /\ \A i \in 1 .. Len(book) : i < j.page /\ Named(book[i]) => EntryStored(book[i])
        /\ j.at \in AtEntry => j.page <= Len(book) /\ j.entry = book[j.page]
        /\ j.at = "ended" => j.page > Len(book)
        /\ j.at = "commit" /\ j.found /\ j.entry.item \in Emails \cup Phones =>
               HasSpelling(IF j.person # NoRow THEN j.person ELSE j.firm, j.entry.item)
        /\ j.at = "commit" /\ j.found /\ j.entry.item \in Addresses =>
               \E h \in held : h[2] = j.entry.item

ImportInv == \A p \in Processes : ReadingInv(job[p])

\* What is stored stays, a detail in some spelling.
Kept(h) == \E g \in held' : g[1] = h[1] /\ g[2] \in {h[2], Reformatted(h[2])}
Grows ==
    /\ \A n \in Names : rows[n] <= rows'[n]
    /\ links \subseteq links'
    /\ \A h \in held : Kept(h)

LEMMA StaysKept == ASSUME held \subseteq held' PROVE \A h \in held : Kept(h)
BY DEF Kept

LEMMA HeldStays ==
    ASSUME Grows, NEW i \in Items
    PROVE  /\ \A o : HasSpelling(o, i) => HasSpelling(o, i)'
           /\ \A n : (\E h \in held : h[1].name = n /\ h[2] \in Spellings(i))
                      => \E h \in held' : h[1].name = n /\ h[2] \in Spellings(i)
           /\ i \in Addresses /\ (\E h \in held : h[2] = i) => \E h \in held' : h[2] = i
<1>1. ASSUME NEW h \in held, h[2] \in Spellings(i)
      PROVE  \E g \in held' : g[1] = h[1] /\ g[2] \in Spellings(i)
  <2>1. PICK g \in held' : g[1] = h[1] /\ g[2] \in {h[2], Reformatted(h[2])}
    BY DEF Grows, Kept
  <2>2. QED
    BY <1>1, <2>1, SpellingTypes
<1>2. ASSUME NEW h \in held, h[2] = i, i \in Addresses PROVE \E g \in held' : g[2] = i
  <2>1. PICK g \in held' : g[2] \in {h[2], Reformatted(h[2])}
    BY DEF Grows, Kept
  <2>2. Reformatted(i) = i
    BY <1>2, MoneybirdAssumption DEF Reformatted
  <2>3. QED
    BY <1>2, <2>1, <2>2
<1>3. ASSUME NEW o, HasSpelling(o, i) PROVE HasSpelling(o, i)'
  BY <1>1, <1>3 DEF HasSpelling
<1>4. QED
  BY <1>1, <1>2, <1>3

LEMMA StoredStays ==
    ASSUME TypeInv, TypeInv', Grows, NEW e \in Entry, EntryStored(e)
    PROVE  EntryStored(e)'
<1>1. rows \in [Names -> Nat] /\ rows' \in [Names -> Nat]
  BY DEF TypeInv, TypeOK
<1>2. /\ e.person \in People \cup {Nobody} /\ e.firm \in Firms \cup {NoFirm}
  BY DEF Entry
<1>3. e.person # Nobody => rows'[e.person] > 0
  BY <1>1, <1>2 DEF EntryStored, Grows, Names
<1>4. e.firm # NoFirm => rows'[e.firm] > 0
  BY <1>1, <1>2 DEF EntryStored, Grows, Names
<1>5. e.item \in Emails \cup Phones => StoredIn(e, Lead(e))'
  BY HeldStays DEF EntryStored, StoredIn, Items
<1>6. e.item \in Addresses => \E h \in held' : h[2] = e.item
  BY HeldStays DEF EntryStored, Items
<1>7. e.person # Nobody /\ e.firm # NoFirm =>
         \E l \in links' : l[1].name = e.person /\ l[2].name = e.firm
  BY DEF EntryStored, Grows
<1>8. QED
  BY <1>3, <1>4, <1>5, <1>6, <1>7 DEF EntryStored

\* A job that keeps its place, with the flags that a change of the book sets.
ReadsAlong(q) ==
    /\ job'[q].at = job[q].at /\ job'[q].page = job[q].page
    /\ job'[q].entry = job[q].entry /\ job'[q].found = job[q].found
    /\ job'[q].person = job[q].person /\ job'[q].firm = job[q].firm
    /\ job'[q].at \in ImportSteps /\ job'[q].smooth => job[q].smooth /\ book' = book

\* A step of p, which leaves other jobs their places.
Moves(p, j) ==
    \/ Become(p, j) /\ book' = book
    \/ /\ job' = [q \in Processes |-> IF q = p THEN j ELSE Outdated(q)]
       /\ book' = book
    \/ job' = [q \in Processes |-> IF q = p THEN j ELSE MissedSomething(q)]

LEMMA MissedAlong ==
    ASSUME TypeInv, NEW q \in Processes, job'[q] = MissedSomething(q)
    PROVE  ReadsAlong(q)
<1>1. job[q] \in Job /\ (job[q].at \in ImportSteps => job[q].kind = "import")
  BY DEF TypeInv, TypeOK, WellFormed
<1>2. CASE Importing(q)
  <2>1. job'[q] = [job[q] EXCEPT !.smooth = FALSE]
    BY <1>2 DEF MissedSomething
  <2>2. QED
    BY <1>1, <2>1 DEF ReadsAlong, Job
<1>3. CASE ~Importing(q)
  BY <1>1, <1>3 DEF MissedSomething, ReadsAlong, Importing
<1>4. QED
  BY <1>2, <1>3

LEMMA OthersAlong ==
    ASSUME TypeInv, NEW p \in Processes, NEW j, Moves(p, j)
    PROVE  job'[p] = j /\ \A q \in Processes \ {p} : ReadsAlong(q)
<1>1. job \in [Processes -> Job]
  BY DEF TypeInv, TypeOK
<1>2. job'[p] = j
  BY <1>1 DEF Moves, Become
<1>3. ASSUME NEW q \in Processes \ {p} PROVE ReadsAlong(q)
  <2>1. CASE job'[q] = job[q] /\ book' = book
    BY <2>1 DEF ReadsAlong
  <2>2. CASE job'[q] = [job[q] EXCEPT !.stale = TRUE] /\ book' = book
    BY <1>1, <2>2 DEF ReadsAlong, Job
  <2>3. CASE job'[q] = MissedSomething(q)
    BY <2>3, MissedAlong
  <2>4. \/ job'[q] = job[q] /\ book' = book
        \/ job'[q] = [job[q] EXCEPT !.stale = TRUE] /\ book' = book
        \/ job'[q] = MissedSomething(q)
    BY <1>1 DEF Moves, Become, Outdated
  <2>5. QED
    BY <2>1, <2>2, <2>3, <2>4
<1>4. QED
  BY <1>2, <1>3

LEMMA AlongKeeps ==
    ASSUME TypeInv, TypeInv', Grows, NEW q \in Processes, ReadsAlong(q), ReadingInv(job[q])
    PROVE  ReadingInv(job[q])'
<1> SUFFICES ASSUME job'[q].at \in ImportSteps, job'[q].smooth PROVE ReadingInv(job[q])'
  BY DEF ReadingInv
<1>1. job[q].at \in ImportSteps /\ job[q].smooth /\ book' = book
  BY DEF ReadsAlong
<1>2. \A i \in 1 .. Len(book) : book[i] \in Entry
  BY DEF TypeInv, TypeOK
<1>3. \A i \in 1 .. Len(book) : EntryStored(book[i]) => EntryStored(book[i])'
  <2> SUFFICES ASSUME NEW i \in 1 .. Len(book), EntryStored(book[i]) PROVE EntryStored(book[i])'
    OBVIOUS
  <2>1. PICK e \in Entry : e = book[i]
    BY <1>2
  <2>2. EntryStored(e)'
    BY <2>1, StoredStays
  <2>3. e = book'[i]
    BY <1>1, <2>1
  <2>4. QED
    BY <2>2, <2>3
<1>4. job'[q].at = "commit" /\ job'[q].found /\ job'[q].entry.item \in Emails \cup Phones =>
         HasSpelling(IF job[q].person # NoRow THEN job[q].person ELSE job[q].firm,
                     job[q].entry.item)'
  <2>1. /\ job'[q].at = job[q].at /\ job'[q].found = job[q].found
        /\ job'[q].entry = job[q].entry /\ job'[q].person = job[q].person
        /\ job'[q].firm = job[q].firm
    BY DEF ReadsAlong
  <2> DEFINE o == IF job[q].person # NoRow THEN job[q].person ELSE job[q].firm
  <2>2. ASSUME job[q].at = "commit", job[q].found, job[q].entry.item \in Emails \cup Phones
        PROVE  HasSpelling(o, job[q].entry.item)
    BY <1>1, <2>2 DEF ReadingInv
  <2>3. ASSUME NEW c, NEW i, i \in Emails \cup Phones, HasSpelling(c, i)
        PROVE  \E h \in held' : h[1] = c /\ h[2] \in Spellings(i)
    BY <2>3, HeldStays DEF Items, HasSpelling
  <2>4. ASSUME job[q].at = "commit", job[q].found, job[q].entry.item \in Emails \cup Phones
        PROVE  \E h \in held' : h[1] = o /\ h[2] \in Spellings(job[q].entry.item)
    BY <2>2, <2>3, <2>4
  <2> DEFINE o2 == IF job'[q].person # NoRow THEN job'[q].person ELSE job'[q].firm
  <2>5. o2 = o
    BY <2>1
  <2>6. job'[q].at = "commit" /\ job'[q].found /\ job'[q].entry.item \in Emails \cup Phones =>
           \E h \in held' : h[1] = o2 /\ h[2] \in Spellings(job'[q].entry.item)
    BY <2>1, <2>4, <2>5
  <2>7. QED
    BY <2>6 DEF HasSpelling
<1>5. job'[q].at = "commit" /\ job'[q].found /\ job'[q].entry.item \in Addresses =>
         \E h \in held' : h[2] = job'[q].entry.item
  BY <1>1, HeldStays DEF ReadingInv, ReadsAlong, Items
<1>6. QED
  BY <1>1, <1>3, <1>4, <1>5 DEF ReadingInv, ReadsAlong

\* Entries before the next page, if that is stored whose page it was.
LEMMA PageKeeps ==
    ASSUME TypeInv, TypeInv', Grows, NEW p \in Processes, ReadingInv(job[p]),
           job[p].at \in AtEntry, book' = book,
           job'[p].at = "fetch", job'[p].page = job[p].page + 1,
           job'[p].smooth => job[p].smooth,
           NEW d \in Entry, d = job[p].entry, Named(d) => EntryStored(d)'
    PROVE  ReadingInv(job[p])'
<1> SUFFICES ASSUME job'[p].smooth PROVE ReadingInv(job[p])'
  BY DEF ReadingInv
<1>1. job[p].at \in ImportSteps /\ job[p].smooth
  BY DEF ImportSteps, AtEntry
<1>2. /\ \A i \in 1 .. Len(book) : i < job[p].page /\ Named(book[i]) => EntryStored(book[i])
      /\ job[p].page <= Len(book) /\ job[p].entry = book[job[p].page]
  BY <1>1 DEF ReadingInv
<1>3. job[p].page \in Nat /\ \A i \in 1 .. Len(book) : book[i] \in Entry
  BY JobParts DEF TypeInv, TypeOK
<1>4. ASSUME NEW i \in 1 .. Len(book), i < job[p].page + 1, Named(book[i])
      PROVE  EntryStored(book[i])'
  <2>1. PICK e \in Entry : e = book[i]
    BY <1>3
  <2>2. e = book'[i]
    BY <2>1
  <2>3. CASE i = job[p].page
    <3>1. e = d /\ Named(d)
      BY <1>2, <1>4, <2>1, <2>3
    <3>2. QED
      BY <2>2, <3>1
  <2>4. CASE i # job[p].page
    <3>1. EntryStored(e)
      BY <1>2, <1>3, <1>4, <2>1, <2>4
    <3>2. EntryStored(e)'
      BY <3>1, StoredStays
    <3>3. QED
      BY <2>2, <3>2
  <2>5. QED
    BY <2>3, <2>4
<1>5. QED
  BY <1>4 DEF ReadingInv, AtEntry, Named

\* Steps of requests, and ends of imports: p reads no page afterwards.
LEMMA AwayMoves ==
    ASSUME TypeInv, NEW p \in Processes,
           \/ Connect(p) \/ PutNewCredentials(p) \/ UseCredentials(p) \/ SaveContact(p)
           \/ SaveAgain(p) \/ TakeImport(p) \/ LoadCredentials(p) \/ Refresh(p) \/ KeepToken(p)
           \/ NoCredentials(p) \/ ExchangeCode(p) \/ InstallToken(p) \/ SaveSetting(p)
           \/ QueueImport(p) \/ ShowEstimates(p) \/ PushOrNot(p) \/ Search(p)
           \/ PushContact(p) \/ EndImport(p) \/ Crash(p)
    PROVE  \E j : Moves(p, j) /\ j.at \notin ImportSteps
<1>1. job[p] \in Job
  BY DEF TypeInv, TypeOK
<1>2. Idle.at \notin ImportSteps
  BY DEF Idle, ImportSteps
<1>3. CASE Connect(p) \/ UseCredentials(p) \/ TakeImport(p)
  <2>1. PICK k \in Requests \cup {"import"}, s \in {"put", "load"} : Become(p, [Idle EXCEPT !.kind = k, !.at = s])
    BY <1>3 DEF Connect, UseCredentials, TakeImport, Requests
  <2>2. book' = book
    BY <1>3 DEF Connect, UseCredentials, TakeImport, Requests
  <2>3. [Idle EXCEPT !.kind = k, !.at = s].at \notin ImportSteps
    BY DEF Idle, ImportSteps
  <2>4. QED
    BY <2>1, <2>2, <2>3 DEF Moves
<1>4. CASE SaveContact(p)
  <2>1. PICK e \in Entry : Become(p, [Idle EXCEPT !.kind = "save", !.at = "load", !.entry = e])
    BY <1>4, PushedEntry
  <2>2. [Idle EXCEPT !.kind = "save", !.at = "load", !.entry = e].at \notin ImportSteps
    BY DEF Idle, ImportSteps
  <2>3. QED
    BY <1>4, <2>1, <2>2 DEF Moves, SaveContact
<1>12. CASE SaveAgain(p)
  <2>1. PICK name \in Names :
          Become(p, IF name \in Firms THEN Idle
                    ELSE [Idle EXCEPT !.kind = "save", !.at = "load",
                          !.entry = [NoEntry EXCEPT !.person = name]])
    BY <1>12 DEF SaveAgain
  <2>2. \A e : [Idle EXCEPT !.kind = "save", !.at = "load", !.entry = e].at \notin ImportSteps
    BY DEF Idle, ImportSteps
  <2>3. book' = book
    BY <1>12 DEF SaveAgain
  <2>4. \E j : Become(p, j) /\ j.at \notin ImportSteps
    BY <1>2, <2>1, <2>2
  <2>5. QED
    BY <2>3, <2>4 DEF Moves
<1>5. CASE LoadCredentials(p)
  <2> DEFINE s == IF blob.grant \in expired THEN "refresh" ELSE "use"
             j == [job[p] EXCEPT !.cred = blob, !.stale = FALSE, !.at = s]
             k == [job[p] EXCEPT !.at = "none"]
  <2>1. j.at \notin ImportSteps /\ k.at \notin ImportSteps
    BY <1>1 DEF Job, ImportSteps
  <2>2. Become(p, k) \/ Become(p, Idle) \/ Become(p, j)
    BY <1>5 DEF LoadCredentials, Goto, Finish
  <2>3. QED
    BY <1>2, <1>5, <2>1, <2>2 DEF Moves, LoadCredentials, allButJob
<1>6. CASE Refresh(p) \/ ExchangeCode(p)
  <2> DEFINE j(s) == [job[p] EXCEPT !.cred.grant = granted + 1, !.at = s]
             k == [job[p] EXCEPT !.at = "none"]
  <2>1. k.at \notin ImportSteps /\ \A s \in Holding : j(s).at \notin ImportSteps
    BY <1>1 DEF Job, ImportSteps, Holding
  <2>2. Become(p, k) \/ Become(p, Idle) \/ \E s \in Holding : Become(p, j(s))
    BY <1>6 DEF Refresh, ExchangeCode, Issue, NoAnswer, Goto, Finish, Holding
  <2>3. book' = book
    BY <1>6 DEF Refresh, ExchangeCode
  <2>4. QED
    BY <1>2, <2>1, <2>2, <2>3 DEF Moves
<1>7. CASE KeepToken(p) \/ SaveSetting(p)
  <2> DEFINE j == [job[p] EXCEPT !.stale = FALSE, !.at = "use"]
             k == [job[p] EXCEPT !.at = "queue"]
  <2>1. j.at \notin ImportSteps /\ k.at \notin ImportSteps
    BY <1>1 DEF Job, ImportSteps
  <2>2. book' = book
    BY <1>7 DEF KeepToken, SaveSetting
  <2>3. Moves(p, Idle) \/ Moves(p, j) \/ Moves(p, k)
    BY <1>7, <2>2 DEF KeepToken, SaveSetting, Store, Finish, Moves
  <2>4. QED
    BY <1>2, <2>1, <2>3
<1>8. CASE PushOrNot(p) \/ Search(p)
  <2> DEFINE j == [job[p] EXCEPT !.found = Hits(p) # {}, !.at = "push"]
             k == [job[p] EXCEPT !.at = "search"]
  <2>1. j.at \notin ImportSteps /\ k.at \notin ImportSteps
    BY <1>1 DEF Job, ImportSteps
  <2>2. Become(p, Idle) \/ Become(p, j) \/ Become(p, k)
    BY <1>8 DEF PushOrNot, Search, Goto, Finish
  <2>3. book' = book
    BY <1>8 DEF PushOrNot, Search, allButJob
  <2>4. QED
    BY <1>2, <2>1, <2>2, <2>3 DEF Moves
<1>9. CASE \/ PutNewCredentials(p) \/ NoCredentials(p) \/ InstallToken(p) \/ QueueImport(p)
           \/ ShowEstimates(p) \/ EndImport(p) \/ Crash(p)
  <2>1. book' = book
    BY <1>9 DEF PutNewCredentials, NoCredentials, InstallToken, QueueImport, ShowEstimates,
                EndImport, Crash, allButJob
  <2>2. Moves(p, Idle)
    BY <1>9, <2>1 DEF PutNewCredentials, NoCredentials, InstallToken, QueueImport,
                ShowEstimates, EndImport, Crash, Store, Finish, Moves
  <2>3. QED
    BY <1>2, <2>2
<1>10. CASE PushContact(p)
  <2>1. (Become(p, Idle) /\ book' = book) \/ \E b : BookChanges(p, b)
    BY <1>10 DEF PushContact, Finish
  <2>2. Moves(p, Idle)
    BY <2>1 DEF BookChanges, Moves
  <2>3. QED
    BY <1>2, <2>2
<1>11. QED
  BY <1>3, <1>4, <1>5, <1>6, <1>7, <1>8, <1>9, <1>10, <1>12

\* They take nothing out of the store; a contact that a user saves is new.
LEMMA AwayGrows ==
    ASSUME TypeInv, NEW p \in Processes,
           \/ Connect(p) \/ PutNewCredentials(p) \/ UseCredentials(p) \/ SaveContact(p)
           \/ SaveAgain(p) \/ TakeImport(p) \/ LoadCredentials(p) \/ Refresh(p) \/ KeepToken(p)
           \/ NoCredentials(p) \/ ExchangeCode(p) \/ InstallToken(p) \/ SaveSetting(p)
           \/ QueueImport(p) \/ ShowEstimates(p) \/ PushOrNot(p) \/ Search(p)
           \/ PushContact(p) \/ EndImport(p) \/ Crash(p)
    PROVE  Grows
<1>1. rows \in [Names -> Nat]
  BY DEF TypeInv, TypeOK
<1>2. CASE SaveContact(p)
  <2>1. PICK e : rows[e.person] = 0 /\ rows' = [rows EXCEPT ![e.person] = 1]
    BY <1>2 DEF SaveContact
  <2>2. \A n \in Names : rows[n] <= rows'[n]
    BY <1>1, <2>1
  <2>3. links' = links /\ held \subseteq held'
    BY <1>2 DEF SaveContact
  <2>4. QED
    BY <2>2, <2>3, StaysKept DEF Grows
<1>6. CASE SaveAgain(p)
  <2>1. rows' = rows /\ links' = links
    BY <1>6 DEF SaveAgain
  <2>2. \A h \in held : Kept(h)
    BY <1>6, ResavedType DEF TypeInv, TypeOK, Kept
  <2>3. QED
    BY <1>1, <2>1, <2>2 DEF Grows
<1>3. CASE UNCHANGED <<rows, links, held>>
  BY <1>1, <1>3, StaysKept DEF Grows
<1>4. SaveContact(p) \/ SaveAgain(p) \/ UNCHANGED <<rows, links, held>>
  BY DEF Connect, PutNewCredentials, UseCredentials, TakeImport, LoadCredentials, Refresh,
         KeepToken, NoCredentials, ExchangeCode, InstallToken, SaveSetting, QueueImport,
         ShowEstimates, PushOrNot, Search, PushContact, EndImport, Crash, allButJob, crm
<1>5. QED
  BY <1>2, <1>3, <1>4, <1>6

\* What is left to show of a step of p.
LEMMA ImportKeeps ==
    ASSUME TypeInv, TypeInv', ImportInv, Grows, NEW p \in Processes, NEW j, Moves(p, j),
           ReadingInv(job[p])'
    PROVE  ImportInv'
<1>1. \A q \in Processes \ {p} : ReadsAlong(q) /\ ReadingInv(job[q])
  BY OthersAlong DEF ImportInv
<1>2. \A q \in Processes \ {p} : ReadingInv(job[q])'
  BY <1>1, AlongKeeps
<1>3. QED
  BY <1>2 DEF ImportInv

LEMMA AwayImport ==
    ASSUME TypeInv, TypeInv', ImportInv, NEW p \in Processes,
           \/ Connect(p) \/ PutNewCredentials(p) \/ UseCredentials(p) \/ SaveContact(p)
           \/ SaveAgain(p) \/ TakeImport(p) \/ LoadCredentials(p) \/ Refresh(p) \/ KeepToken(p)
           \/ NoCredentials(p) \/ ExchangeCode(p) \/ InstallToken(p) \/ SaveSetting(p)
           \/ QueueImport(p) \/ ShowEstimates(p) \/ PushOrNot(p) \/ Search(p)
           \/ PushContact(p) \/ EndImport(p) \/ Crash(p)
    PROVE  ImportInv'
<1>1. Grows
  BY AwayGrows
<1>2. PICK j : Moves(p, j) /\ j.at \notin ImportSteps
  BY AwayMoves
<1>3. job'[p].at \notin ImportSteps
  BY <1>2, OthersAlong
<1>4. ReadingInv(job[p])'
  BY <1>3 DEF ReadingInv
<1>5. QED
  BY <1>1, <1>2, <1>4, ImportKeeps

\* The first page, the next one, an error for a page, and an entry undone.
LEMMA FetchImport ==
    ASSUME TypeInv, TypeInv', ImportInv, NEW p \in Processes,
           StartImport(p) \/ FetchPage(p) \/ RollBack(p)
    PROVE  ImportInv'
<1>1. /\ job[p] \in Job /\ job[p].page \in Nat /\ UNCHANGED <<rows, links, held, book>>
      /\ rows \in [Names -> Nat] /\ Len(book) \in Nat /\ ReadingInv(job[p])
  BY JobParts DEF TypeInv, TypeOK, StartImport, FetchPage, RollBack, allButJob, crm, ImportInv
<1>2. Grows
  BY <1>1, StaysKept DEF Grows
<1>3. ASSUME NEW j, Become(p, j), job'[p] = j => ReadingInv(job[p])' PROVE ImportInv'
  <2>1. Moves(p, j)
    BY <1>1, <1>3 DEF Moves
  <2>2. job'[p] = j
    BY <2>1, OthersAlong
  <2>3. QED
    BY <1>2, <1>3, <2>1, <2>2, ImportKeeps
<1>4. CASE StartImport(p)
  <2> DEFINE j == [job[p] EXCEPT !.stale = FALSE, !.page = 1, !.at = "fetch"]
  <2>1. j.at = "fetch" /\ j.page = 1
    BY <1>1 DEF Job
  <2>2. Become(p, j)
    BY <1>4 DEF StartImport
  <2> HIDE DEF j
  <2>3. ASSUME job'[p] = j PROVE ReadingInv(job[p])'
    <3>1. \A i \in 1 .. Len(book') : ~(i < job'[p].page)
      BY <1>1, <2>1, <2>3
    <3>2. QED
      BY <2>1, <2>3, <3>1 DEF ReadingInv, AtEntry
  <2>4. QED
    BY <1>3, <2>2, <2>3
<1>5. CASE RollBack(p)
  <2> DEFINE j == [job[p] EXCEPT !.page = @ + 1, !.at = "fetch", !.found = FALSE,
                                 !.smooth = FALSE]
  <2>1. ~j.smooth
    BY <1>1 DEF Job
  <2>2. Become(p, j)
    BY <1>5 DEF RollBack
  <2> HIDE DEF j
  <2>3. QED
    BY <1>3, <2>1, <2>2 DEF ReadingInv
<1>6. CASE FetchPage(p)
  <2>1. job[p].at = "fetch"
    BY <1>6 DEF FetchPage, At
  <2>2. CASE Finish(p)
    <3>1. Become(p, Idle) /\ Idle.at \notin ImportSteps
      BY <2>2 DEF Finish, Idle, ImportSteps
    <3>2. QED
      BY <1>3, <3>1 DEF ReadingInv
  <2>3. CASE LastPage(p) /\ Goto(p, "ended")
    <3> DEFINE j == [job[p] EXCEPT !.at = "ended"]
    <3>1. j.at = "ended" /\ j.page = job[p].page /\ j.smooth = job[p].smooth
      BY <1>1 DEF Job
    <3>2. Become(p, j)
      BY <2>3 DEF Goto
    <3> HIDE DEF j
    <3>3. ASSUME job'[p] = j PROVE ReadingInv(job[p])'
      <4>1. /\ job'[p].at = "ended" /\ job'[p].page = job[p].page
            /\ job'[p].smooth => job[p].smooth
        BY <3>1, <3>3
      <4>2. job'[p].page > Len(book')
        BY <1>1, <2>3, <4>1 DEF LastPage
      <4>3. QED
        BY <1>1, <2>1, <4>1, <4>2 DEF ReadingInv, ImportSteps, AtEntry, EntryStored, StoredIn
    <3>4. QED
      BY <1>3, <3>2, <3>3
  <2>4. CASE /\ ~LastPage(p)
             /\ Become(p, [job[p] EXCEPT !.entry = book[job[p].page], !.at = "contact"])
    <3> DEFINE j == [job[p] EXCEPT !.entry = book[job[p].page], !.at = "contact"]
    <3>1. /\ j.at = "contact" /\ j.page = job[p].page /\ j.smooth = job[p].smooth
          /\ j.entry = book[job[p].page]
      BY <1>1 DEF Job
    <3>2. Become(p, j)
      BY <2>4
    <3> HIDE DEF j
    <3>3. ASSUME job'[p] = j PROVE ReadingInv(job[p])'
      <4>1. /\ job'[p].at = "contact" /\ job'[p].page = job[p].page
            /\ job'[p].smooth => job[p].smooth
            /\ job'[p].entry = book'[job'[p].page] /\ job'[p].page <= Len(book')
        BY <1>1, <2>4, <3>1, <3>3 DEF LastPage
      <4>2. QED
        BY <1>1, <2>1, <4>1 DEF ReadingInv, ImportSteps, EntryStored, StoredIn
    <3>4. QED
      BY <1>3, <3>2, <3>3
  <2>5. CASE Become(p, [job[p] EXCEPT !.refused = TRUE, !.smooth = FALSE,
                                      !.page = IF LastPage(p) THEN @ ELSE @ + 1])
    <3> DEFINE j == [job[p] EXCEPT !.refused = TRUE, !.smooth = FALSE,
                                   !.page = IF LastPage(p) THEN @ ELSE @ + 1]
    <3>1. ~j.smooth
      BY <1>1 DEF Job
    <3>2. Become(p, j)
      BY <2>5
    <3> HIDE DEF j
    <3>3. QED
      BY <1>3, <3>1, <3>2 DEF ReadingInv
  <2>6. QED
    BY <1>6, <2>2, <2>3, <2>4, <2>5 DEF FetchPage
<1>7. QED
  BY <1>4, <1>5, <1>6

\* What is looked up.  An entry of which nobody is known names nobody.
LEMMA FindImport ==
    ASSUME TypeInv, TypeInv', ImportInv, StrangersInv, NEW p \in Processes,
           FindContact(p) \/ FindAccount(p) \/ FindDetails(p)
    PROVE  ImportInv'
<1>1. /\ job[p] \in Job /\ WellFormed(job[p]) /\ UNCHANGED <<rows, links, held, book>>
      /\ rows \in [Names -> Nat] /\ ReadingInv(job[p]) /\ InHand(job[p])
      /\ job[p].entry \in Entry
  BY JobParts DEF TypeInv, TypeOK, FindContact, FindAccount, FindDetails, allButJob, crm, ImportInv,
                  StrangersInv
<1>2. Grows
  BY <1>1, StaysKept DEF Grows
<1>3. ASSUME NEW j, Become(p, j), job'[p] = j => ReadingInv(job[p])' PROVE ImportInv'
  <2>1. Moves(p, j)
    BY <1>1, <1>3 DEF Moves
  <2>2. job'[p] = j
    BY <2>1, OthersAlong
  <2>3. QED
    BY <1>2, <1>3, <2>1, <2>2, ImportKeeps
<1>4. ASSUME NEW r, job'[p] = [job[p] EXCEPT !.person = r, !.at = "account"],
             job[p].at = "contact"
      PROVE  ReadingInv(job[p])'
  <2>1. /\ job'[p].at = "account" /\ job'[p].page = job[p].page
        /\ job'[p].smooth = job[p].smooth /\ job'[p].entry = job[p].entry
    BY <1>1, <1>4 DEF Job
  <2>2. QED
    BY <1>1, <1>4, <2>1 DEF ReadingInv, ImportSteps, AtEntry, EntryStored, StoredIn
<1>5. CASE FindContact(p)
  <2>1. PICK r : Become(p, [job[p] EXCEPT !.person = r, !.at = "account"])
    BY <1>5 DEF FindContact
  <2>2. QED
    BY <1>3, <1>4, <1>5, <2>1 DEF FindContact
<1>6. CASE FindAccount(p)
  <2> DEFINE a(r) == [job[p] EXCEPT !.firm = r, !.at = "details"]
             b == [job[p] EXCEPT !.at = "details"]
  <2>1. b.at = "details" /\ b.page = job[p].page /\ b.smooth = job[p].smooth
        /\ b.entry = job[p].entry
    BY <1>1 DEF Job
  <2>2. \A r : /\ a(r).at = "details" /\ a(r).page = job[p].page
               /\ a(r).smooth = job[p].smooth /\ a(r).entry = job[p].entry
    BY <1>1 DEF Job
  <2>3. PICK j : /\ Become(p, j) /\ j.at = "details" /\ j.page = job[p].page
                 /\ j.smooth = job[p].smooth /\ j.entry = job[p].entry
    <3>1. Become(p, b) \/ \E r : Become(p, a(r))
      BY <1>6 DEF FindAccount, Goto
    <3> HIDE DEF a, b
    <3>2. QED
      BY <2>1, <2>2, <3>1
  <2>4. job[p].at = "account"
    BY <1>6 DEF FindAccount
  <2>5. ASSUME job'[p] = j PROVE ReadingInv(job[p])'
    BY <1>1, <2>3, <2>4, <2>5 DEF ReadingInv, ImportSteps, AtEntry, EntryStored, StoredIn
  <2>6. QED
    BY <1>3, <2>3, <2>5
<1>7. CASE FindDetails(p)
  <2>1. job[p].at = "details"
    BY <1>7 DEF FindDetails
  <2>2. CASE Owner(p) = NoRow
    <3> DEFINE j == [job[p] EXCEPT !.page = @ + 1, !.at = "fetch", !.firm = NoRow,
                                   !.found = FALSE]
    <3>1. j.at = "fetch" /\ j.page = job[p].page + 1 /\ j.smooth = job[p].smooth
      BY <1>1 DEF Job
    <3>2. Become(p, j)
      BY <1>7, <2>2 DEF FindDetails, NextPage
    <3> HIDE DEF j
    <3>3. ~Named(job[p].entry)
      <4>1. job[p].person = NoRow /\ job[p].firm = NoRow
        BY <2>2 DEF Owner
      <4>2. job[p].entry.firm = NoFirm
        BY <1>1, <2>1, <4>1 DEF WellFormed
      <4>3. job[p].entry.person = Nobody
        BY <1>1, <2>1, <4>1 DEF InHand, Placed
      <4>4. QED
        BY <4>2, <4>3 DEF Named
    <3>4. ASSUME job'[p] = j PROVE ReadingInv(job[p])'
      BY <1>1, <1>2, <2>1, <3>1, <3>3, <3>4, PageKeeps DEF AtEntry
    <3>5. QED
      BY <1>3, <3>2, <3>4
  <2>3. CASE Owner(p) # NoRow
    <3> DEFINE found == \/ job[p].entry.item = NoItem
                        \/ /\ job[p].entry.item \in Emails \cup Phones
                           /\ <<Owner(p), job[p].entry.item>> \in held
                        \/ /\ job[p].entry.item \in Addresses
                           /\ \E h \in held : h[2] = job[p].entry.item
               j == [job[p] EXCEPT !.at = "commit", !.found = found]
    <3>1. /\ j.at = "commit" /\ j.page = job[p].page /\ j.smooth = job[p].smooth
          /\ j.entry = job[p].entry /\ j.person = job[p].person /\ j.firm = job[p].firm
          /\ j.found = found
      BY <1>1 DEF Job
    <3>2. Become(p, j)
      BY <1>7, <2>3 DEF FindDetails
    <3>3. NoItem \notin Items /\ (Emails \cup Phones) \cap Addresses = {}
      BY MoneybirdAssumption
    <3>4. ASSUME j.found, j.entry.item \in Emails \cup Phones
          PROVE  HasSpelling(Owner(p), j.entry.item)
      <4>1. <<Owner(p), j.entry.item>> \in held
        BY <3>1, <3>3, <3>4 DEF Items
      <4>2. j.entry.item \in Spellings(j.entry.item)
        BY DEF Spellings
      <4> DEFINE h == <<Owner(p), j.entry.item>>
      <4>3. h \in held /\ h[1] = Owner(p) /\ h[2] \in Spellings(j.entry.item)
        BY <4>1, <4>2
      <4>4. QED
        BY <4>3 DEF HasSpelling
    <3>5. j.found /\ j.entry.item \in Addresses => \E h \in held : h[2] = j.entry.item
      BY <3>1, <3>3 DEF Items
    <3> HIDE DEF j
    <3>6. ASSUME job'[p] = j PROVE ReadingInv(job[p])'
      <4>1. /\ job'[p].at = "commit" /\ job'[p].page = job[p].page
            /\ job'[p].smooth = job[p].smooth /\ job'[p].entry = job[p].entry
            /\ job'[p].person = job[p].person /\ job'[p].firm = job[p].firm
        BY <3>1, <3>6
      <4>2. job'[p].found /\ job'[p].entry.item \in Emails \cup Phones =>
               HasSpelling(IF job[p].person # NoRow THEN job[p].person ELSE job[p].firm,
                           job[p].entry.item)'
        BY <1>1, <3>4, <3>6, <4>1 DEF Owner, HasSpelling
      <4>3. job'[p].found /\ job'[p].entry.item \in Addresses =>
               \E h \in held' : h[2] = job'[p].entry.item
        BY <1>1, <3>5, <3>6
      <4>4. ASSUME job'[p].smooth
            PROVE  /\ \A i \in 1 .. Len(book) :
                         i < job[p].page /\ Named(book[i]) => EntryStored(book[i])
                   /\ job[p].page <= Len(book) /\ job[p].entry = book[job[p].page]
        BY <1>1, <2>1, <4>1, <4>4 DEF ReadingInv, ImportSteps, AtEntry
      <4>5. job'[p].smooth =>
               /\ \A i \in 1 .. Len(book') :
                     i < job'[p].page /\ Named(book'[i]) => EntryStored(book[i])'
               /\ job'[p].page <= Len(book') /\ job'[p].entry = book'[job'[p].page]
        BY <1>1, <4>1, <4>4 DEF EntryStored, StoredIn
      <4>6. QED
        BY <4>1, <4>2, <4>3, <4>5 DEF ReadingInv, Named
    <3>7. QED
      BY <1>3, <3>2, <3>6
  <2>4. QED
    BY <2>2, <2>3
<1>8. QED
  BY <1>5, <1>6, <1>7

\* A transaction stores all of an entry that names somebody.
LEMMA CommitStores ==
    ASSUME TypeInv, RowsInv, StrangersInv, NEW p \in Processes, Commit(p),
           ReadingInv(job[p]), job[p].smooth,
           NEW e \in Entry, e = job[p].entry, Named(e)
    PROVE  EntryStored(e)'
<1> DEFINE touched == {Owner(p)} \cup
                      (IF job[p].entry.firm # NoFirm THEN {job[p].firm} ELSE {})
           detail == <<Saved(Owner(p)), Stored(e.item)>>
<1>1. /\ WellFormed(job[p]) /\ job[p] \in Job /\ rows \in [Names -> Nat] /\ job[p].at = "commit"
      /\ job[p].person \in Row \cup {NoRow} /\ job[p].firm \in Row \cup {NoRow}
      /\ e.person \in People \cup {Nobody} /\ e.firm \in Firms \cup {NoFirm}
      /\ e.item \in Items \cup {NoItem} /\ InHand(job[p])
  BY JobParts DEF TypeInv, TypeOK, Commit, Entry, StrangersInv
<1>2. /\ Owner(p) \in Row
      /\ \A n \in Names : rows'[n] = IF New(n) \in touched THEN rows[n] + 1 ELSE rows[n]
  BY CommitWork
<1>3. /\ links' = IF job[p].person # NoRow /\ e.firm # NoFirm
                  THEN links \cup {<<Saved(job[p].person), Saved(job[p].firm)>>}
                  ELSE links
      /\ held' = IF job[p].found THEN held ELSE held \cup {detail}
  BY DEF Commit
<1>5. ASSUME NEW r \in Row, r \in touched, r.n <= rows[r.name]
      PROVE  rows'[r.name] > 0
  <2>1. r.name \in Names /\ r.n \in Nat
    BY DEF Row
  <2>2. CASE r.n = 0
    <3>1. r = New(r.name)
      BY <2>2 DEF Row, New
    <3>2. QED
      BY <1>1, <1>2, <1>5, <2>1, <3>1
  <2>3. CASE r.n # 0
    BY <1>1, <1>2, <1>5, <2>1, <2>3
  <2>4. QED
    BY <2>2, <2>3
<1>6. Numbered(job[p].person, People) /\ Numbered(job[p].firm, Firms)
  BY DEF RowsInv
<1>7. e.person # Nobody =>
         /\ job[p].person \in Row /\ job[p].person.name = e.person /\ Owner(p) = job[p].person
         /\ rows'[e.person] > 0
  <2> SUFFICES ASSUME e.person # Nobody
               PROVE  /\ job[p].person \in Row /\ job[p].person.name = e.person
                      /\ Owner(p) = job[p].person /\ rows'[e.person] > 0
    OBVIOUS
  <2>1. job[p].person # NoRow /\ job[p].person.name = e.person
    BY <1>1 DEF InHand, Placed
  <2>2. Owner(p) = job[p].person /\ job[p].person \in Row
    BY <1>1, <2>1 DEF Owner
  <2>3. rows'[job[p].person.name] > 0
    BY <1>5, <1>6, <2>1, <2>2 DEF Numbered
  <2>4. QED
    BY <2>1, <2>2, <2>3
<1>8. e.firm # NoFirm =>
         job[p].firm \in Row /\ job[p].firm.name = e.firm /\ rows'[e.firm] > 0
  <2> SUFFICES ASSUME e.firm # NoFirm
               PROVE  job[p].firm \in Row /\ job[p].firm.name = e.firm /\ rows'[e.firm] > 0
    OBVIOUS
  <2>1. job[p].firm # NoRow /\ job[p].firm.name = e.firm
    BY <1>1 DEF InHand, WellFormed
  <2>2. job[p].firm \in Row /\ job[p].firm \in touched
    BY <1>1, <2>1
  <2>3. rows'[job[p].firm.name] > 0
    BY <1>5, <1>6, <2>1, <2>2 DEF Numbered
  <2>4. QED
    BY <2>1, <2>2, <2>3
<1>9. e.person # Nobody /\ e.firm # NoFirm =>
         \E l \in links' : l[1].name = e.person /\ l[2].name = e.firm
  <2> SUFFICES ASSUME e.person # Nobody, e.firm # NoFirm
               PROVE  \E l \in links' : l[1].name = e.person /\ l[2].name = e.firm
    OBVIOUS
  <2>1. Saved(job[p].person).name = e.person /\ Saved(job[p].firm).name = e.firm
    BY <1>7, <1>8, SavedType
  <2>2. job[p].person # NoRow
    BY <1>1 DEF InHand, Placed
  <2> DEFINE l == <<Saved(job[p].person), Saved(job[p].firm)>>
  <2>3. l \in links' /\ l[1].name = e.person /\ l[2].name = e.firm
    BY <1>3, <2>1, <2>2
  <2>4. QED
    BY <2>3
<1>10. Owner(p).name = IF e.person # Nobody THEN e.person ELSE e.firm
  <2>1. CASE e.person # Nobody
    BY <1>7, <2>1
  <2>2. CASE e.person = Nobody
    <3>1. job[p].person = NoRow /\ e.firm # NoFirm
      BY <1>1, <2>2 DEF InHand, Placed, Named
    <3>2. QED
      BY <1>8, <2>2, <3>1 DEF Owner
  <2>3. QED
    BY <2>1, <2>2
<1>11. Saved(Owner(p)).name = Owner(p).name
  BY <1>2, SavedType
<1>12. e.item \in Emails \cup Phones =>
          \E h \in held' : /\ h[1].name = IF e.person # Nobody THEN e.person ELSE e.firm
                           /\ h[2] \in Spellings(e.item)
  <2>1. CASE ~job[p].found
    <3>1. detail \in held' /\ detail[1] = Saved(Owner(p)) /\ detail[2] \in Spellings(e.item)
      BY <1>3, <2>1 DEF Spellings
    <3>2. QED
      BY <1>10, <1>11, <3>1
  <2>2. CASE job[p].found
    <3>1. e.item \in Emails \cup Phones => HasSpelling(Owner(p), e.item)
      BY <1>1, <2>2 DEF ReadingInv, ImportSteps, Owner
    <3>2. QED
      BY <1>3, <1>10, <2>2, <3>1 DEF HasSpelling
  <2>3. QED
    BY <2>1, <2>2
<1>13. e.item \in Addresses => \E h \in held' : h[2] = e.item
  <2>1. CASE ~job[p].found
    <3>1. detail \in held' /\ detail[2] = Stored(e.item)
      BY <1>3, <2>1
    <3>2. e.item \in Addresses => Stored(e.item) = e.item
      BY MoneybirdAssumption DEF Stored
    <3>3. QED
      BY <3>1, <3>2
  <2>2. CASE job[p].found
    BY <1>1, <1>3, <2>2 DEF ReadingInv, ImportSteps
  <2>3. QED
    BY <2>1, <2>2
<1>14. QED
  BY <1>7, <1>8, <1>9, <1>12, <1>13 DEF EntryStored, StoredIn, Lead

LEMMA CommitImport ==
    ASSUME TypeInv, TypeInv', RowsInv, StrangersInv, ImportInv,
           NEW p \in Processes, Commit(p)
    PROVE  ImportInv'
<1>1. /\ job[p] \in Job /\ rows \in [Names -> Nat] /\ book' = book /\ job[p].at = "commit"
      /\ job[p].page \in Nat /\ job[p].smooth \in BOOLEAN
  BY JobParts DEF TypeInv, TypeOK, Commit
<1>2. PICK e \in Entry : e = job[p].entry
  BY <1>1, JobParts
<1>3. Grows
  <2>1. \A n \in Names : rows[n] <= rows'[n]
    BY <1>1 DEF Commit
  <2>2. links \subseteq links' /\ held \subseteq held'
    BY DEF Commit
  <2>3. QED
    BY <2>1, <2>2, StaysKept DEF Grows
<1>4. PICK f : Become(p, [job[p] EXCEPT !.page = @ + 1, !.at = "fetch", !.firm = f,
                          !.found = FALSE])
  BY DEF Commit, NextPage
<1> DEFINE j == [job[p] EXCEPT !.page = @ + 1, !.at = "fetch", !.firm = f, !.found = FALSE]
<1>5. j.at = "fetch" /\ j.page = job[p].page + 1 /\ j.smooth = job[p].smooth
  BY <1>1 DEF Job
<1>6. Moves(p, j)
  BY <1>1, <1>4 DEF Moves
<1> HIDE DEF j
<1>7. job'[p] = j
  BY <1>6, OthersAlong
<1>8. ReadingInv(job[p])
  BY DEF ImportInv
<1>9. ReadingInv(job[p])'
  <2>1. CASE ~job[p].smooth
    BY <1>5, <1>7, <2>1 DEF ReadingInv
  <2>2. CASE job[p].smooth
    <3>1. Named(e) => EntryStored(e)'
      BY <1>2, <1>8, <2>2, CommitStores
    <3>2. QED
      BY <1>1, <1>2, <1>3, <1>5, <1>7, <1>8, <3>1, PageKeeps DEF AtEntry
  <2>3. QED
    BY <2>1, <2>2
<1>10. QED
  BY <1>3, <1>6, <1>9, ImportKeeps

LEMMA ImportStep ==
    /\ TypeInv /\ TypeInv' /\ RowsInv /\ StrangersInv /\ ImportInv /\ [Next]_vars
    => ImportInv'
<1> SUFFICES ASSUME TypeInv, TypeInv', RowsInv, StrangersInv, ImportInv, [Next]_vars
             PROVE  ImportInv'
  OBVIOUS
<1>1. CASE UNCHANGED vars \/ TokenExpires \/ EntryDeleted
  <2>1. UNCHANGED crm
    BY <1>1 DEF vars, allButJob, TokenExpires, EntryDeleted
  <2>2. Grows
    <3>1. rows \in [Names -> Nat]
      BY DEF TypeInv, TypeOK
    <3>2. QED
      BY <2>1, <3>1, StaysKept DEF Grows, crm
  <2>3. job \in [Processes -> Job]
    BY DEF TypeInv, TypeOK
  <2>4. ASSUME NEW q \in Processes PROVE ReadsAlong(q)
    <3>1. CASE EntryDeleted
      <4>1. job'[q] = MissedSomething(q)
        BY <2>3, <3>1 DEF EntryDeleted
      <4>2. QED
        BY <4>1, MissedAlong
    <3>2. CASE UNCHANGED vars \/ TokenExpires
      <4>1. job' = job /\ book' = book
        BY <3>2 DEF vars, allButJob, TokenExpires
      <4>2. QED
        BY <4>1 DEF ReadsAlong
    <3>3. QED
      BY <1>1, <3>1, <3>2
  <2>5. \A q \in Processes : ReadingInv(job[q])'
    BY <2>2, <2>4, AlongKeeps DEF ImportInv
  <2>6. QED
    BY <2>5 DEF ImportInv
<1>2. ASSUME NEW p \in Processes, Step(p) PROVE ImportInv'
  BY <1>2, AwayImport, FetchImport, FindImport, CommitImport DEF Step
<1>3. ASSUME NEW p \in Processes,
             \/ Connect(p) \/ UseCredentials(p) \/ SaveContact(p) \/ SaveAgain(p)
             \/ TakeImport(p) \/ Crash(p)
      PROVE  ImportInv'
  BY <1>3, AwayImport
<1>4. ASSUME NEW p \in Processes, SaveAccount(p) PROVE ImportInv'
  <2>1. /\ UNCHANGED <<links, held, job, book>>
        /\ \E f \in Firms : rows[f] = 0 /\ rows' \in {rows, [rows EXCEPT ![f] = 1]}
    BY <1>4 DEF SaveAccount
  <2>2. \A n \in Names : rows[n] <= rows'[n]
    BY <2>1 DEF TypeInv, TypeOK
  <2>3. Grows
    BY <2>1, <2>2, StaysKept DEF Grows
  <2>4. \A q \in Processes : ReadsAlong(q)
    BY <2>1 DEF ReadsAlong
  <2>5. \A q \in Processes : ReadingInv(job[q])'
    BY <2>3, <2>4, AlongKeeps DEF ImportInv
  <2>6. QED
    BY <2>5 DEF ImportInv
<1>5. QED
  BY <1>1, <1>2, <1>3, <1>4 DEF Next

LEMMA ImportInit == Init => ImportInv
<1> SUFFICES ASSUME Init PROVE ImportInv
  OBVIOUS
<1>1. \A p \in Processes : job[p] = Idle
  BY DEF Init
<1>2. Idle.at \notin ImportSteps
  BY DEF Idle, ImportSteps
<1>3. QED
  BY <1>1, <1>2 DEF ImportInv, ReadingInv

\* However many processes there are and whatever else they do, an import that was
\* served every page, of an address book that stayed as it was, has stored all of
\* its entries with their functions, email addresses and phone numbers when it ends,
\* and every postal address with somebody.
THEOREM ImportStoresAll == Spec => []ImportIsComplete
<1>1. TypeInv /\ ImportInv => ImportIsComplete
  <2> SUFFICES ASSUME TypeInv, ImportInv, NEW p \in Processes,
                      job[p].at = "ended", job[p].smooth,
                      NEW i \in 1 .. Len(book), Named(book[i])
               PROVE  EntryStored(book[i])
    BY DEF ImportIsComplete
  <2>1. job[p].page \in Nat /\ Len(book) \in Nat
    BY JobParts DEF TypeInv, TypeOK
  <2>2. ReadingInv(job[p])
    BY DEF ImportInv
  <2>3. job[p].page > Len(book)
    BY <2>2 DEF ReadingInv, ImportSteps
  <2>4. i < job[p].page
    BY <2>1, <2>3
  <2>5. QED
    BY <2>2, <2>4 DEF ReadingInv, ImportSteps
<1>2. QED
  BY <1>1, InitType, NextType, RowsInit, RowsStep, StrangersInit, StrangersStep, ImportInit,
     ImportStep, PTL DEF Spec
=============================================================================
