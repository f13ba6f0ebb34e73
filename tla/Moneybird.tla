------------------------------ MODULE Moneybird ------------------------------
(***************************************************************************)
(* A tenant's Moneybird integration: the stored OAuth credentials, that    *)
(* requests and tasks load, refresh and store back as a whole; the import  *)
(* of Moneybird's contacts, which looks up before it creates and may be    *)
(* repeated; and the contacts users save, which are pushed to Moneybird.   *)
(*                                                                         *)
(* The credentials code is shared by all integrations, so what is said of  *)
(* the tokens holds for PandaDoc too.  A page of Moneybird's address book  *)
(* is one entry; an entry has at most one detail: an email address, a phone*)
(* number or a postal address, each in the spelling somebody gave it.  A   *)
(* person or a firm stands for the values that the import looks up, and a  *)
(* row for an object that has them.  Left out: deleting contacts in Lily,  *)
(* changing their names and details, plans without the integration.        *)
(***************************************************************************)
EXTENDS Naturals, Sequences, FiniteSets

CONSTANTS
    Processes,    \* web processes and workers
    People,       \* names of persons
    Firms,        \* names of companies
    Emails,       \* email addresses, as they may be spelled
    Phones,       \* phone numbers, and what becomes of one that is none
    Addresses,    \* postal addresses
    Lowered,      \* what EmailAddress.save() makes of an email address
    Formatted,    \* what saving its owner makes of a phone number, when a
                  \* country is known
    Inputs,       \* the contacts users may save
    Scenarios,    \* what happens together: requests of some kinds (at most
                  \* so many, a bound), faults, what Moneybird's address book
                  \* has, and whether other tenants use the integration, too
    MaxExpiries   \* bound: access tokens that expire

Nobody == "nobody"
NoFirm == "no firm"
NoItem == "no item"
NoRow == [name |-> "none", n |-> 0]

Names == People \cup Firms
Items == Emails \cup Phones \cup Addresses
Entry == [person : People \cup {Nobody}, firm : Firms \cup {NoFirm},
          item : Items \cup {NoItem}]

\* crash: a process dies; call: no answer, or one that cannot be read; expiry: of
\* an access token; refuse: a request with good tokens is refused; fail: an entry
\* cannot be stored; edit: somebody deletes entries at Moneybird.
Requests == {"connect", "authorize", "setting", "read", "save", "resave", "account"}
Troubles == {"crash", "call", "expiry", "refuse", "fail", "edit"}

ASSUME MoneybirdAssumption ==
    /\ People \cap Firms = {}
    /\ Emails \cap Phones = {} /\ (Emails \cup Phones) \cap Addresses = {}
    /\ Lowered \in [Emails -> Emails] /\ \A i \in Emails : Lowered[Lowered[i]] = Lowered[i]
    /\ Formatted \in [Phones -> Phones]
    /\ \A i \in Phones : Formatted[Formatted[i]] = Formatted[i]
    /\ Nobody \notin Names /\ NoFirm \notin Names /\ NoItem \notin Items
    /\ NoRow.name \notin Names
    /\ Inputs \subseteq {e \in Entry : e.person # Nobody /\ e.firm = NoFirm}
    /\ Scenarios \subseteq [kinds : SUBSET Requests, most : Nat,
                            faults : SUBSET Troubles, book : Seq(Entry),
                            others : BOOLEAN]
    /\ MaxExpiries \in Nat

VARIABLES
    scenario,   \* what happens in this behaviour, never changes
    details,    \* the tenant has an IntegrationDetails row
    blob,       \* its IntegrationCredentials
    granted,    \* the provider: the last pair of tokens it issued
    expired,    \* pairs whose access token has expired
    queued,     \* imports that wait for a worker
    book,       \* Moneybird: the entries of its address book, in their order
    rows,       \* Lily: how many contacts, or accounts with the status
                \* Customer, have a name
    prospects,  \* Lily: names of accounts with another status
    links,      \* Lily: Function, pairs of a contact and an account
    held,       \* Lily: pairs of a row and a detail it has
    twice,      \* Lily: those it has more than once
    job,        \* what each process is doing
    begun,      \* requests so far
    wanted,     \* the setting the administrator saved last
    raced,      \* credentials were stored over others that were not loaded
    lost,       \* tokens were issued, and what received them failed
    overlapped  \* an import ran beside another one or a saved contact

credentials == <<details, blob>>
provider == <<granted, expired>>
crm == <<rows, prospects, links, held, twice>>
history == <<wanted, raced, lost, overlapped>>
allButJob ==
    <<scenario, credentials, provider, queued, book, crm, begun, history>>
vars == <<allButJob, job>>
-----------------------------------------------------------------------------
\* grant: the pair of tokens, 0 before the first one; auto: auto_sync.
Blob == [grant : Nat, auto : BOOLEAN]
NoBlob == [grant |-> "none"]

\* n is 0 for an object that is yet to be stored.
Row == [name : Names, n : Nat]
New(name) == [name |-> name, n |-> 0]

\* How a detail is stored, and what becomes of it when its owner is saved.
Stored(i) == IF i \in Emails THEN Lowered[i] ELSE i
Reformatted(i) == IF i \in Phones THEN Formatted[i] ELSE i
Spellings(i) == {i, Stored(i), Reformatted(i)}

NoEntry == [person |-> Nobody, firm |-> NoFirm, item |-> NoItem]

Steps == {"put", "load", "refresh", "keep", "none", "use", "install", "queue",
          "search", "push", "fetch", "contact", "account", "details", "commit",
          "ended"}

\* cred: the credentials in memory; stale: others were stored since; person, firm:
\* the loop variables contact and account; found: the look-up before the step found
\* something; smooth: nothing was missed so far; refused: Moneybird answered a page
\* with an error.
Job == [kind : Requests \cup {"import", "idle"}, at : Steps \cup {"idle"},
        cred : Blob \cup {NoBlob}, stale : BOOLEAN,
        page : Nat, entry : Entry,
        person : Row \cup {NoRow}, firm : Row \cup {NoRow},
        found : BOOLEAN, smooth : BOOLEAN, refused : BOOLEAN]
Idle == [kind |-> "idle", at |-> "idle", cred |-> NoBlob, stale |-> FALSE,
         page |-> 0, entry |-> NoEntry, person |-> NoRow, firm |-> NoRow,
         found |-> FALSE, smooth |-> TRUE, refused |-> FALSE]

At(p, kind, step) == job[p].kind = kind /\ job[p].at = step
Become(p, j) == job' = [job EXCEPT ![p] = j]
Goto(p, step) == Become(p, [job[p] EXCEPT !.at = step])
Finish(p) == Become(p, Idle)
Importing(p) == job[p].kind = "import"

\* The store has changed since q loaded the credentials.
Outdated(q) ==
    IF job[q].at \in {"refresh", "keep", "use", "install"}
    THEN [job[q] EXCEPT !.stale = TRUE] ELSE job[q]

\* The whole record is stored, whatever the store has by now.
Store(p, c, j) ==
    /\ blob' = c
    /\ raced' = (raced \/ job[p].stale)
    /\ job' = [q \in Processes |-> IF q = p THEN j ELSE Outdated(q)]

\* Whether a superseded token is still good is up to the provider.
MayServe(c) == c.grant > 0 /\ c.grant \notin expired
MayRefuse(c) ==
    \/ c.grant \notin {granted} \ {0} \/ c.grant \in expired
    \/ "refuse" \in scenario.faults
-----------------------------------------------------------------------------
\* A tenant without the integration, and one that has it for some time.
Init ==
    /\ scenario \in Scenarios
    /\ \/ details = FALSE /\ blob = NoBlob /\ granted = 0 /\ wanted = FALSE
       \/ /\ details = TRUE /\ granted = 1 /\ wanted = TRUE
          /\ blob = [grant |-> 1, auto |-> TRUE]
    /\ expired = {}
    /\ queued = 0
    /\ book = scenario.book
    /\ rows = [n \in Names |-> 0]
    /\ prospects = {}
    /\ links = {}
    /\ held = {}
    /\ twice = {}
    /\ job = [p \in Processes |-> Idle]
    /\ begun = 0
    /\ raced = FALSE
    /\ lost = FALSE
    /\ overlapped = FALSE

-----------------------------------------------------------------------------
(* Requests.                                                               *)

Request(p, kind) ==
    /\ job[p] = Idle
    /\ kind \in scenario.kinds
    /\ begun < scenario.most
    /\ begun' = begun + 1

\* The administrator enters the client's data.
Connect(p) ==
    /\ Request(p, "connect")
    /\ details' = TRUE
    /\ Become(p, [Idle EXCEPT !.kind = "connect", !.at = "put"])
    /\ UNCHANGED <<scenario, blob, provider, queued, book, crm, history>>

PutNewCredentials(p) ==
    /\ At(p, "connect", "put")
    /\ blob' = [grant |-> 0, auto |-> FALSE]
    /\ wanted' = FALSE
    /\ job' = [q \in Processes |-> IF q = p THEN Idle ELSE Outdated(q)]
    /\ UNCHANGED <<scenario, details, provider, queued, book, crm, begun, raced,
                   lost, overlapped>>

\* The provider sends the administrator back, the administrator asks for an
\* import, or somebody opens a page with estimates.
UseCredentials(p) ==
    /\ \E kind \in {"authorize", "setting", "read"} :
           /\ Request(p, kind)
           /\ Become(p, [Idle EXCEPT !.kind = kind, !.at = "load"])
    /\ UNCHANGED <<scenario, credentials, provider, queued, book, crm, history>>

\* A user saves a contact that Lily does not have; a phone number is formatted
\* if a country is known, and then only pushed if that left it as it was.
SaveContact(p) ==
    /\ Request(p, "save")
    /\ \E e \in Inputs, country \in BOOLEAN :
           LET item == IF country THEN Reformatted(Stored(e.item)) ELSE Stored(e.item) IN
           /\ rows[e.person] = 0
           /\ rows' = [rows EXCEPT ![e.person] = 1]
           /\ held' = IF item = NoItem THEN held
                      ELSE held \cup {<<[name |-> e.person, n |-> 1], item>>}
           /\ Become(p, [Idle EXCEPT !.kind = "save", !.at = "load", !.entry =
                  [e EXCEPT !.item = IF @ \in Phones /\ item # @ THEN NoItem ELSE @]])
    /\ overlapped' = (overlapped \/ \E q \in Processes : Importing(q))
    /\ UNCHANGED <<scenario, credentials, provider, queued, book, prospects, links,
                   twice, wanted, raced, lost>>

\* A user saves something else of a contact or an account: its phone numbers
\* are formatted (AddressBook has it in its steps), and a contact is pushed.
Resaved(r, h) == IF h[1] = r THEN <<r, Reformatted(h[2])>> ELSE h
SaveAgain(p) ==
    /\ Request(p, "resave")
    /\ \E name \in Names : \E r \in [name : {name}, n : 1 .. rows[name]] :
           /\ \/ /\ held' = {Resaved(r, h) : h \in held}
                 /\ twice' = {Resaved(r, h) : h \in {g \in held :
                        g \in twice \/ \E k \in held \ {g} : Resaved(r, k) = Resaved(r, g)}}
              \/ UNCHANGED <<held, twice>>
           /\ Become(p, IF name \in Firms THEN Idle
                        ELSE [Idle EXCEPT !.kind = "save", !.at = "load",
                              !.entry = [NoEntry EXCEPT !.person = name]])
    /\ UNCHANGED <<scenario, credentials, provider, queued, book, rows, prospects,
                   links, history>>

\* A user saves an account, with the status Customer or another one; names of
\* accounts are checked (AddressBook).
SaveAccount(p) ==
    /\ Request(p, "account")
    /\ \E f \in Firms \ prospects :
           /\ rows[f] = 0
           /\ \/ rows' = [rows EXCEPT ![f] = 1] /\ UNCHANGED prospects
              \/ prospects' = prospects \cup {f} /\ UNCHANGED rows
    /\ overlapped' = (overlapped \/ \E q \in Processes : Importing(q))
    /\ UNCHANGED <<scenario, credentials, provider, queued, book, links, held,
                   twice, job, wanted, raced, lost>>

\* Mutant of TakeImport: a task that another worker has taken is taken again.
TakeAnyImport(p) ==
    /\ job[p] = Idle
    /\ queued' = queued - 1
    /\ Become(p, [Idle EXCEPT !.kind = "import", !.at = "load"])
    /\ overlapped' = (overlapped \/ \E q \in Processes : Importing(q))
    /\ UNCHANGED <<scenario, credentials, provider, book, crm, begun, wanted,
                   raced, lost>>

TakeImport(p) ==
    /\ job[p] = Idle
    /\ queued > 0
    /\ queued' = queued - 1
    /\ Become(p, [Idle EXCEPT !.kind = "import", !.at = "load"])
    /\ overlapped' = (overlapped \/ \E q \in Processes : Importing(q))
    /\ UNCHANGED <<scenario, credentials, provider, book, crm, begun, wanted,
                   raced, lost>>

-----------------------------------------------------------------------------
(* get_credentials and get_access_token.                                   *)

\* Details without credentials are an exception.
LoadCredentials(p) ==
    /\ job[p].at = "load"
    /\ IF ~details
       THEN Goto(p, "none")
       ELSE IF blob = NoBlob
       THEN Finish(p)
       ELSE Become(p, [job[p] EXCEPT !.cred = blob, !.stale = FALSE,
                       !.at = IF blob.grant \in expired THEN "refresh" ELSE "use"])
    /\ UNCHANGED allButJob

\* The provider issues a new pair, which replaces the one it had issued.
Issue(p, step) ==
    /\ granted' = granted + 1
    /\ Become(p, [job[p] EXCEPT !.cred.grant = granted + 1, !.at = step])
    /\ UNCHANGED lost

NoAnswer(p) ==
    /\ "call" \in scenario.faults
    /\ Finish(p)
    /\ \/ UNCHANGED <<granted, lost>>
       \/ granted' = granted + 1 /\ lost' = TRUE

Refresh(p) ==
    /\ job[p].at = "refresh"
    /\ \/ job[p].cred.grant = granted /\ (Issue(p, "keep") \/ NoAnswer(p))
       \/ /\ job[p].cred.grant # granted \/ "refuse" \in scenario.faults
          /\ Goto(p, "none")
          /\ UNCHANGED <<granted, lost>>
    /\ UNCHANGED <<scenario, credentials, expired, queued, book, crm, begun,
                   wanted, raced, overlapped>>

\* Mutant of KeepToken: the refreshed tokens are used but not stored.
ForgetToken(p) ==
    /\ job[p].at = "keep"
    /\ Goto(p, "use")
    /\ UNCHANGED allButJob

\* Nobody is logged in in a task, so the details are looked up among those of
\* all tenants.
KeepToken(p) ==
    /\ job[p].at = "keep"
    /\ IF Importing(p) /\ scenario.others
       THEN Finish(p) /\ lost' = TRUE /\ UNCHANGED <<blob, raced>>
       ELSE /\ Store(p, job[p].cred, [job[p] EXCEPT !.stale = FALSE, !.at = "use"])
            /\ UNCHANGED lost
    /\ UNCHANGED <<scenario, details, provider, queued, book, crm, begun,
                   wanted, overlapped>>

\* An error page for the administrator, an exception in the task; a contact
\* that was saved is saved.
NoCredentials(p) ==
    /\ job[p].at = "none"
    /\ Finish(p)
    /\ UNCHANGED allButJob

-----------------------------------------------------------------------------
(* What the requests do with them.                                         *)

\* The administrator is told that the credentials are saved in any case.
ExchangeCode(p) ==
    /\ At(p, "authorize", "use")
    /\ \/ Issue(p, "install")
       \/ NoAnswer(p)
       \/ Finish(p) /\ UNCHANGED <<granted, lost>>
    /\ UNCHANGED <<scenario, credentials, expired, queued, book, crm, begun,
                   wanted, raced, overlapped>>

InstallToken(p) ==
    /\ At(p, "authorize", "install")
    /\ Store(p, job[p].cred, Idle)
    /\ UNCHANGED <<scenario, details, provider, queued, book, crm, begun,
                   wanted, lost, overlapped>>

SaveSetting(p) ==
    /\ At(p, "setting", "use")
    /\ \E auto \in BOOLEAN :
           /\ Store(p, [job[p].cred EXCEPT !.auto = auto],
                    [job[p] EXCEPT !.at = "queue"])
           /\ wanted' = auto
    /\ UNCHANGED <<scenario, details, provider, queued, book, crm, begun, lost,
                   overlapped>>

QueueImport(p) ==
    /\ At(p, "setting", "queue")
    /\ queued' = queued + 1
    /\ Finish(p)
    /\ UNCHANGED <<scenario, credentials, provider, book, crm, begun, history>>

ShowEstimates(p) ==
    /\ At(p, "read", "use")
    /\ Finish(p)
    /\ UNCHANGED allButJob

PushOrNot(p) ==
    /\ At(p, "save", "use")
    /\ IF job[p].cred.auto THEN Goto(p, "search") ELSE Finish(p)
    /\ UNCHANGED allButJob

\* The first hit is taken for the contact.  An error instead of a list of hits
\* is an exception.
Hits(p) == {i \in 1 .. Len(book) : book[i].person = job[p].entry.person}
Search(p) ==
    /\ job[p].at = "search"
    /\ \/ /\ MayServe(job[p].cred)
          /\ Become(p, [job[p] EXCEPT !.found = Hits(p) # {}, !.at = "push"])
       \/ MayRefuse(job[p].cred) /\ Finish(p)
    /\ UNCHANGED allButJob

\* An import that reads the address book may miss something from now on.
MissedSomething(q) ==
    IF Importing(q) THEN [job[q] EXCEPT !.smooth = FALSE] ELSE job[q]
BookChanges(p, b) ==
    /\ book' = b
    /\ job' = [q \in Processes |-> IF q = p THEN Idle
                                   ELSE MissedSomething(q)]

\* What came of it is not looked at.  Moneybird sorts its entries.
PushContact(p) ==
    /\ job[p].at = "push"
    /\ \/ MayRefuse(job[p].cred) /\ Finish(p) /\ UNCHANGED book
       \/ /\ MayServe(job[p].cred)
          /\ LET e == job[p].entry IN
             IF ~job[p].found
             THEN BookChanges(p, <<e>> \o book) \/ BookChanges(p, Append(book, e))
             ELSE IF Hits(p) = {} \/ e.item = NoItem
             THEN Finish(p) /\ UNCHANGED book
             ELSE \E i \in Hits(p) : BookChanges(p, [book EXCEPT ![i].item = e.item])
    /\ UNCHANGED <<scenario, credentials, provider, queued, crm, begun,
                   history>>

-----------------------------------------------------------------------------
(* The import.                                                             *)

StartImport(p) ==
    /\ At(p, "import", "use")
    /\ Become(p, [job[p] EXCEPT !.stale = FALSE, !.page = 1, !.at = "fetch"])
    /\ UNCHANGED allButJob

\* Mutant of LastPage: a page that is not full is taken for the last one.
EarlyLastPage(p) == job[p].page + 1 > Len(book)

LastPage(p) == job[p].page > Len(book)

\* The body of an error is as good as a page: its keys are taken for contacts,
\* which fails for each of them, and the next page is asked for.  What is not
\* JSON at all ends the task.
FetchPage(p) ==
    /\ At(p, "import", "fetch")
    /\ \/ /\ MayServe(job[p].cred)
          /\ IF LastPage(p)
             THEN Goto(p, "ended")
             ELSE Become(p, [job[p] EXCEPT !.entry = book[job[p].page],
                             !.at = "contact"])
       \/ /\ MayRefuse(job[p].cred)
          /\ Become(p, [job[p] EXCEPT !.refused = TRUE, !.smooth = FALSE,
                         !.page = IF LastPage(p) THEN @ ELSE @ + 1])
       \/ "call" \in scenario.faults /\ Finish(p)
    /\ UNCHANGED allButJob

\* Any of the rows with a name, or an object that is to be created.
LookUp(name, r) ==
    IF rows[name] = 0 THEN r = New(name)
    ELSE r \in [name : {name}, n : 1 .. rows[name]]

\* Mutant of FindContact: the contact of the entry before is not forgotten.
RememberContact(p) ==
    /\ job[p].at = "contact"
    /\ LET e == job[p].entry IN
       \/ /\ e.person = Nobody
          /\ Goto(p, "account")
       \/ /\ e.person # Nobody
          /\ \E r \in [name : {e.person}, n : 0 .. rows[e.person]] :
                 /\ LookUp(e.person, r)
                 /\ Become(p, [job[p] EXCEPT !.person = r, !.at = "account"])
    /\ UNCHANGED allButJob

\* Mutant of FindContact: a contact is created without looking it up.
NoLookUp(p) ==
    /\ job[p].at = "contact"
    /\ LET e == job[p].entry IN
       Become(p, [job[p] EXCEPT !.at = "account",
                  !.person = IF e.person = Nobody THEN NoRow ELSE New(e.person)])
    /\ UNCHANGED allButJob

FindContact(p) ==
    /\ job[p].at = "contact"
    /\ LET e == job[p].entry IN
       \/ /\ e.person = Nobody
          /\ Become(p, [job[p] EXCEPT !.person = NoRow, !.at = "account"])
       \/ /\ e.person # Nobody
          /\ \E r \in [name : {e.person}, n : 0 .. rows[e.person]] :
                 /\ LookUp(e.person, r)
                 /\ Become(p, [job[p] EXCEPT !.person = r, !.at = "account"])
    /\ UNCHANGED allButJob

\* The variable account keeps the account of an entry before this one; an
\* account with another status than Customer is not found.
FindAccount(p) ==
    /\ job[p].at = "account"
    /\ LET e == job[p].entry IN
       \/ /\ e.firm = NoFirm
          /\ Goto(p, "details")
       \/ /\ e.firm # NoFirm
          /\ \E r \in [name : {e.firm}, n : 0 .. rows[e.firm]] :
                 /\ LookUp(e.firm, r)
                 /\ Become(p, [job[p] EXCEPT !.firm = r, !.at = "details"])
    /\ UNCHANGED allButJob

\* contact_object
Owner(p) == IF job[p].person # NoRow THEN job[p].person ELSE job[p].firm

\* Mutant of NextPage: the page is not counted.
SamePage(p, firm) ==
    Become(p, [job[p] EXCEPT !.at = "fetch", !.firm = firm, !.found = FALSE])

NextPage(p, firm) ==
    Become(p, [job[p] EXCEPT !.page = @ + 1, !.at = "fetch", !.firm = firm,
               !.found = FALSE])

\* Email addresses and numbers are looked up as Moneybird spells them, a postal
\* address among those of everybody: only who has it first gets it.  An entry without a
\* first name and a company before the first account is an exception.
FindDetails(p) ==
    /\ job[p].at = "details"
    /\ LET item == job[p].entry.item IN
       IF Owner(p) = NoRow
       THEN NextPage(p, NoRow)
       ELSE Become(p, [job[p] EXCEPT !.at = "commit", !.found =
                \/ item = NoItem
                \/ item \in Emails \cup Phones /\ <<Owner(p), item>> \in held
                \/ item \in Addresses /\ \E h \in held : h[2] = item])
    /\ UNCHANGED allButJob

\* An object that is saved gets stored if it is not.
Saved(r) == IF r.n = 0 THEN [r EXCEPT !.n = rows[r.name] + 1] ELSE r

\* What the transaction of an entry writes: the contact, the account unless the
\* entry has none to do with, the function between them and the detail.
Commit(p) ==
    /\ job[p].at = "commit"
    /\ LET j == job[p]
           touched == {Owner(p)} \cup
                      (IF j.entry.firm # NoFirm THEN {j.firm} ELSE {})
           detail == <<Saved(Owner(p)), Stored(j.entry.item)>>
       IN  /\ rows' = [n \in Names |-> IF New(n) \in touched THEN rows[n] + 1
                                       ELSE rows[n]]
           /\ links' = IF j.person # NoRow /\ j.entry.firm # NoFirm
                       THEN links \cup {<<Saved(j.person), Saved(j.firm)>>}
                       ELSE links
           /\ held' = IF j.found THEN held ELSE held \cup {detail}
           /\ twice' = IF j.found THEN twice ELSE twice \cup ({detail} \cap held)
           /\ NextPage(p, IF j.firm \in touched THEN Saved(j.firm) ELSE j.firm)
    /\ UNCHANGED <<scenario, credentials, provider, queued, book, prospects, begun,
                   history>>

\* An exception undoes the transaction, is logged, and the import goes on.
RollBack(p) ==
    /\ "fail" \in scenario.faults
    /\ job[p].at = "commit"
    /\ Become(p, [job[p] EXCEPT !.page = @ + 1, !.at = "fetch",
                  !.found = FALSE, !.smooth = FALSE])
    /\ UNCHANGED allButJob

EndImport(p) ==
    /\ job[p].at = "ended"
    /\ Finish(p)
    /\ UNCHANGED allButJob

-----------------------------------------------------------------------------
(* The environment.                                                        *)

\* A web process or worker dies; nobody takes its request or task again.
Crash(p) ==
    /\ "crash" \in scenario.faults
    /\ job[p] # Idle
    /\ Finish(p)
    /\ lost' = (lost \/ job[p].at \in {"keep", "install"})
    /\ UNCHANGED <<scenario, credentials, provider, queued, book, crm, begun,
                   wanted, raced, overlapped>>

TokenExpires ==
    /\ "expiry" \in scenario.faults
    /\ Cardinality(expired) < MaxExpiries
    /\ granted \notin expired \cup {0}
    /\ expired' = expired \cup {granted}
    /\ UNCHANGED <<scenario, credentials, granted, queued, book, crm, job,
                   begun, history>>

\* Somebody deletes a contact at Moneybird; those behind it move up.
EntryDeleted ==
    /\ "edit" \in scenario.faults
    /\ \E i \in 1 .. Len(book) :
           book' = SubSeq(book, 1, i - 1) \o SubSeq(book, i + 1, Len(book))
    /\ job' = [q \in Processes |-> MissedSomething(q)]
    /\ UNCHANGED <<scenario, credentials, provider, queued, crm, begun,
                   history>>

Step(p) ==
    \/ PutNewCredentials(p)
    \/ LoadCredentials(p) \/ Refresh(p) \/ KeepToken(p) \/ NoCredentials(p)
    \/ ExchangeCode(p) \/ InstallToken(p) \/ SaveSetting(p) \/ QueueImport(p)
    \/ ShowEstimates(p) \/ PushOrNot(p) \/ Search(p) \/ PushContact(p)
    \/ StartImport(p) \/ FetchPage(p) \/ FindContact(p) \/ FindAccount(p)
    \/ FindDetails(p) \/ Commit(p) \/ RollBack(p) \/ EndImport(p)

Next ==
    \/ \E p \in Processes :
           \/ Connect(p) \/ UseCredentials(p) \/ SaveContact(p) \/ SaveAgain(p)
           \/ SaveAccount(p) \/ TakeImport(p) \/ Step(p) \/ Crash(p)
    \/ TokenExpires
    \/ EntryDeleted

\* Requests and tasks that were taken up are worked on.
Fairness == \A p \in Processes : WF_vars(Step(p))
Spec == Init /\ [][Next]_vars /\ Fairness

-----------------------------------------------------------------------------
(* Properties.                                                             *)

\* The stored credentials, the rows and the jobs have their types; what is counted
\* as stored twice is stored.  (integrations/tasks.py:18-170.)
TypeOK ==
    /\ scenario \in Scenarios
    /\ details \in BOOLEAN
    /\ blob \in Blob \cup {NoBlob}
    /\ granted \in Nat
    /\ expired \subseteq 1 .. granted
    /\ queued \in Nat
    /\ book \in Seq(Entry)
    /\ rows \in [Names -> Nat]
    /\ prospects \subseteq Firms
    /\ links \subseteq Row \X Row
    /\ held \subseteq Row \X Items
    /\ twice \subseteq held
    /\ job \in [Processes -> Job]
    /\ begun \in Nat
    /\ wanted \in BOOLEAN /\ raced \in BOOLEAN
    /\ lost \in BOOLEAN /\ overlapped \in BOOLEAN

\* An import may be repeated: as long as no two run beside each other and nobody
\* saves something new meanwhile, no contact, no customer and no detail is stored
\* twice, whatever was refused, failed, died or moved to another page in between;
\* but for details whose spelling Lily changes.  (integrations/tasks.py:42-146.)
NoDuplicates ==
    ~overlapped =>
        /\ \A n \in Names : rows[n] <= 1
        /\ \A h \in twice : \E i \in Items \ {h[2]} : h[2] \in Spellings(i)

StoredIn(e, name) == \E h \in held : h[1].name = name /\ h[2] \in Spellings(e.item)
Lead(e) == IF e.person # Nobody THEN e.person ELSE e.firm

EntryStored(e) ==
    /\ e.person # Nobody => rows[e.person] > 0
    /\ e.firm # NoFirm => rows[e.firm] > 0
    /\ e.person # Nobody /\ e.firm # NoFirm =>
           \E l \in links : l[1].name = e.person /\ l[2].name = e.firm
    /\ e.item \in Emails \cup Phones => StoredIn(e, Lead(e))
    /\ e.item \in Addresses => \E h \in held : h[2] = e.item

Named(e) == e.person # Nobody \/ e.firm # NoFirm

\* An import that comes to its end has stored every person and company of the
\* address book, their functions and their email addresses and phone numbers, and
\* each postal address with somebody (of two entries with one address the second is
\* left without, lines 144-148), if every page was served, no entry failed
\* and nobody changed the address book since it began; whatever other imports and
\* requests did beside it.  (integrations/tasks.py:34-170.)
ImportIsComplete ==
    \A p \in Processes :
        job[p].at = "ended" /\ job[p].smooth =>
            \A i \in 1 .. Len(book) : Named(book[i]) => EntryStored(book[i])

\* A detail is only found at a person or company that some entry with this detail
\* names; the loop variables carry nothing over, unless an entry has neither a
\* first name nor a company.
NothingOnStrangers ==
    \A h \in held :
        LET fits(e) ==
                /\ e.item # NoItem /\ h[2] \in Spellings(e.item)
                /\ Named(e) => h[1].name \in {e.person, e.firm}
        IN  \/ \E e \in Inputs : fits(e)
            \/ \E i \in 1 .. Len(scenario.book) : fits(scenario.book[i])

\* The connection is only lost where the code can lose it: unless a record was
\* stored over one that was not loaded, or what received new tokens failed, the
\* store has the last tokens of the provider, or a process is about to store
\* them, and the setting that was saved last.
ConnectionKept ==
    ~raced /\ ~lost /\ blob # NoBlob =>
        /\ blob.auto = wanted
        /\ blob.grant \in {0, granted} \/ \E p \in Processes :
               job[p].at \in {"keep", "install"} /\ job[p].cred.grant = granted

\* An import that is not refused a page comes to an end.
ImportEnds ==
    \A p \in Processes :
        Importing(p) ~> (~Importing(p) \/ job[p].refused)
=============================================================================
