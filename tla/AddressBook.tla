----------------------------- MODULE AddressBook -----------------------------
(***************************************************************************)
(* A contact of a tenant with its phone numbers and the accounts it works  *)
(* at, saved by requests of several users at a time; renaming, deleting    *)
(* and importing accounts beside that.                                     *)
(*                                                                         *)
(* A contact is saved through nested serializers: the request is validated *)
(* against what is stored, a transaction saves the contact and the items   *)
(* of the list, and the phone numbers are formatted after it, each by a    *)
(* save of its own.  There is no lock but the one an UPDATE takes on the   *)
(* contact's row until its transaction ends, and every save writes a whole *)
(* row as it was loaded.                                                   *)
(*                                                                         *)
(* A request has a list for the phone numbers or for the accounts; email   *)
(* and postal addresses, websites and social media go the way of the phone *)
(* numbers, without the formatting.  Numbers that an import stored are as  *)
(* the file or Moneybird had them.  Left out: creating contacts, the       *)
(* change log, webhooks, the other fields of a row.                        *)
(***************************************************************************)
EXTENDS Naturals, Sequences

CONSTANTS
    Processes,   \* web processes
    Phones,      \* ids of PhoneNumber rows
    Numbers,     \* what a number may be
    Format,      \* the number in the international notation, or Blank
    Blank,       \* the empty number
    Accounts,    \* ids of Account rows
    Names,       \* names of accounts
    Details,     \* what a row of an imported file has beside the name
    Scenarios    \* what is there at first, which requests come, how many (a
                 \* bound), whether a country is known, always, never or now
                 \* and then, and which faults there are

Nobody == "nobody"
New == "new"
Keep == "keep"
NoNumber == "no number"
NoName == "no name"
Kinds == {"numbers", "works", "toggle", "delete", "account", "import"}
Faults == {"die", "fail"}

\* An item of a list: New has no id, Keep has no other field, remove is the
\* is_deleted of a partial update.  Requests that have no list have an item for
\* the account they are about; an import has one for each row of the file.  all: the
\* contact is looked up with filter_deleted=False.
Item == [id : Phones \cup Accounts \cup {New},
         value : Numbers \cup Names \cup {Keep}, remove : BOOLEAN]
Request == [kind : Kinds, put : BOOLEAN, all : BOOLEAN, items : Seq(Item)]

ItemsFit(r, ids, values) ==
    \A i \in DOMAIN r.items : r.items[i].id \in ids /\ r.items[i].value \in values

\* A list names no row twice and has at most one new one.
WellFormed(r) ==
    /\ r.kind = "numbers" => ItemsFit(r, Phones \cup {New}, Numbers \cup {Keep})
    /\ r.kind = "works" => ItemsFit(r, Accounts \cup {New}, Names \cup {Keep})
    /\ r.kind = "import" => ItemsFit(r, {New}, Names)
    /\ r.kind \in {"toggle", "account"} =>
           Len(r.items) = 1 /\ ItemsFit(r, Accounts, Names \cup {Keep})
    /\ r.kind = "account" => r.items[1].remove \/ r.items[1].value # Keep
    /\ r.kind \in {"numbers", "works"} => \A i, k \in DOMAIN r.items :
           /\ i # k => r.items[i].id # r.items[k].id
           /\ r.items[i].id = New => r.items[i].value # Keep /\ ~r.items[i].remove

Requests == {r \in Request : WellFormed(r)}

ASSUME AddressBookAssumption ==
    /\ Nobody \notin Processes
    /\ Phones \cap Accounts = {} /\ New \notin Phones \cup Accounts
    /\ Numbers \cap Names = {} /\ Keep \notin Numbers \cup Names
    /\ NoNumber \notin Numbers /\ NoName \notin Names
    /\ Blank \in Numbers
    /\ Format \in [Numbers -> Numbers]
    /\ \A n \in Numbers : Format[Format[n]] = Format[n]
    /\ Scenarios \subseteq
           [linked : [Phones -> Numbers \cup {NoNumber}],
            named : [Accounts -> Names \cup {NoName}],
            works : SUBSET Accounts, countries : SUBSET BOOLEAN,
            requests : SUBSET Requests, most : Nat, faults : SUBSET Faults]
    /\ \A s \in Scenarios :
           /\ \A a, b \in Accounts :
                  s.named[a] = s.named[b] => a = b \/ s.named[a] = NoName
           /\ \A a \in s.works : s.named[a] # NoName

VARIABLES
    scenario,   \* what happens in this behaviour, never changes
    deleted,    \* the contact's is_deleted
    lock,       \* whose transaction has updated the contact's row
    number,     \* the PhoneNumber rows, NoNumber for an id that is not used
    linked,     \* the phone numbers of the contact
    accounts,   \* the Account rows
    apart,      \* what an import stored for an account and did not link to it yet
    functions,  \* the accounts that the contact has a Function with
    job,        \* what each process is doing
    begun,      \* requests so far
    asked,      \* the accounts the contact was saved with
    revived,    \* those that a change of a Function brought back
    want,       \* the numbers as users saved them
    mixed,      \* numbers that a formatting wrote over a later save
    raced,      \* account rows were written over others or after names changed
    listed,     \* a list of several accounts had the name of one
    died        \* a process died

phones == <<number, linked>>
book == <<accounts, apart>>
history == <<asked, revived, want, mixed, raced, listed, died>>
allButJob == <<scenario, deleted, lock, phones, book, functions, begun, history>>
vars == <<allButJob, job>>
-----------------------------------------------------------------------------
Row == [name : Names \cup {NoName}, deleted : BOOLEAN]
NoRow == [name |-> NoName, deleted |-> FALSE]
NoRows == [a \in Accounts |-> NoRow]
NoNumbers == [ph \in Phones |-> NoNumber]
NoRequest == [kind |-> "idle", put |-> FALSE, all |-> FALSE, items |-> <<>>]

Steps == {"load", "check", "lock", "commit", "reload", "format", "write",
          "look", "create", "link"}

\* erased: the is_deleted of the contact that was loaded; seen, rows, numbers: what
\* was read; todo: numbers to format; next, account: the row of the file and the
\* account it became.  stale: accounts changed since they were loaded or checked;
\* gone: the Function was removed; old: numbers saved since they were loaded.
Job == [request : Requests \cup {NoRequest}, at : Steps \cup {"idle"},
        erased : BOOLEAN, seen : SUBSET (Phones \cup Accounts), rows : [Accounts -> Row],
        numbers : [Phones -> Numbers \cup {NoNumber}], todo : SUBSET Phones,
        next : Nat, account : Accounts \cup {New},
        stale : BOOLEAN, gone : BOOLEAN, old : SUBSET Phones]
Idle == [request |-> NoRequest, at |-> "idle", erased |-> FALSE, seen |-> {},
         rows |-> NoRows, numbers |-> NoNumbers, todo |-> {}, next |-> 1,
         account |-> New, stale |-> FALSE, gone |-> FALSE, old |-> {}]

Kind(p) == job[p].request.kind
Items(p) == job[p].request.items
At(p, kind, step) == Kind(p) = kind /\ job[p].at = step
Saving(p) == Kind(p) \in {"numbers", "works"}
Become(p, j) == job' = [job EXCEPT ![p] = j]
Goto(p, step) == Become(p, [job[p] EXCEPT !.at = step])
Finish(p) == Become(p, Idle)

\* The account of a request that is about one.
Subject(p) == Items(p)[1].id

InUse(a, name) == accounts[a].name = name /\ ~accounts[a].deleted
Exists(a) == accounts[a].name # NoName /\ ~accounts[a].deleted

\* Processes that have read account rows and are going to write them.
ChangesAccounts(q) ==
    /\ Kind(q) \in {"works", "account", "import"}
    /\ job[q].at \in {"check", "lock", "commit", "write", "create", "link"}

\* Account rows are written, Functions removed, and p becomes j.
Overtake(p, j, written, removed) ==
    job' = [q \in Processes |-> IF q = p THEN j ELSE
        [job[q] EXCEPT !.stale = @ \/ (written # {} /\ ChangesAccounts(q)),
                       !.gone = @ \/ (At(q, "toggle", "write")
                                      /\ Subject(q) \in removed)]]
-----------------------------------------------------------------------------
Init ==
    /\ scenario \in Scenarios
    /\ deleted = FALSE
    /\ lock = Nobody
    /\ number = scenario.linked
    /\ linked = {ph \in Phones : scenario.linked[ph] # NoNumber}
    /\ accounts = [a \in Accounts |-> [name |-> scenario.named[a], deleted |-> FALSE]]
    /\ apart = [a \in Accounts |-> {}]
    /\ functions = scenario.works
    /\ job = [p \in Processes |-> Idle]
    /\ begun = 0
    /\ asked = scenario.works
    /\ revived = {}
    /\ want = scenario.linked
    /\ mixed = {}
    /\ raced = FALSE
    /\ listed = FALSE
    /\ died = FALSE

Begin(p) ==
    /\ job[p] = Idle
    /\ begun < scenario.most
    /\ begun' = begun + 1
    /\ \E r \in scenario.requests :
           Become(p, [Idle EXCEPT !.request = r, !.at =
                          IF r.kind = "import" THEN "look" ELSE "load"])
    /\ UNCHANGED <<scenario, deleted, lock, phones, book, functions, history>>

-----------------------------------------------------------------------------
(* Saving the contact.                                                     *)

\* get_object: a contact that is deleted is not found unless the request says so.
LoadContact(p) ==
    /\ Saving(p) \/ Kind(p) = "delete"
    /\ job[p].at = "load"
    /\ IF deleted /\ ~job[p].request.all
       THEN Finish(p)
       ELSE Become(p, [job[p] EXCEPT !.erased = deleted,
                       !.at = IF Saving(p) THEN "check" ELSE "write"])
    /\ UNCHANGED allButJob

Mentioned(p) == {Items(p)[i].id : i \in DOMAIN Items(p)} \ {New}
Flagged(p) == {Items(p)[i].id : i \in {k \in DOMAIN Items(p) : Items(p)[k].remove}}

\* create_only: an id must be that of a phone number the contact has.
CheckNumbers(p) ==
    /\ At(p, "numbers", "check")
    /\ IF Mentioned(p) \subseteq linked THEN Goto(p, "lock") ELSE Finish(p)
    /\ UNCHANGED allButJob

\* The account that DuplicateAccountName does not look at: that of the last item
\* with an id, for one serializer validates the items one after the other.
Instance(p, i) ==
    {a \in Accounts : \E k \in 1 .. i :
        Items(p)[k].id = a /\ \A m \in k + 1 .. i : Items(p)[m].id = New}

NamesAreFree(p) ==
    \A i \in DOMAIN Items(p) : \A a \in Accounts \ Instance(p, i) :
        ~InUse(a, Items(p)[i].value)

CheckAccounts(p) ==
    /\ At(p, "works", "check")
    /\ IF (\A a \in Mentioned(p) : Exists(a)) /\ NamesAreFree(p)
       THEN Become(p, [job[p] EXCEPT !.at = "lock", !.stale = FALSE])
       ELSE Finish(p)
    /\ UNCHANGED allButJob

LinkedNumbers == [ph \in Phones |-> IF ph \in linked THEN number[ph] ELSE NoNumber]

\* The transaction saves the contact, which locks its row, and reads the rows.
Lock(p) ==
    /\ job[p].at = "lock"
    /\ lock = Nobody
    /\ lock' = p
    /\ Become(p, [job[p] EXCEPT !.at = "commit",
                  !.seen = IF Kind(p) = "numbers" THEN linked ELSE functions,
                  !.numbers = IF Kind(p) = "numbers" THEN LinkedNumbers ELSE NoNumbers,
                  !.rows = IF Kind(p) = "numbers" THEN NoRows ELSE accounts])
    /\ UNCHANGED <<scenario, deleted, phones, book, functions, begun, history>>

\* Mutant of Dropped: a partial update removes what it does not mention.
DropUnmentioned(p) == job[p].seen \ Mentioned(p)

\* Which links are removed: those not in the list, or those marked in it.
Dropped(p) == IF job[p].request.put THEN job[p].seen \ Mentioned(p) ELSE Flagged(p)

\* The row that a new item gets; New if there is none.
Fresh(p, unused) ==
    IF \E i \in DOMAIN Items(p) : Items(p)[i].id = New THEN unused ELSE {New}
RowOf(p, i, fresh) == IF Items(p)[i].id = New THEN fresh ELSE Items(p)[i].id
Rows(p, fresh) == {RowOf(p, i, fresh) : i \in DOMAIN Items(p)}

\* The items that have a value for row x.
Valued(p, fresh, x) ==
    {i \in DOMAIN Items(p) : RowOf(p, i, fresh) = x /\ Items(p)[i].value # Keep}
ValueFor(p, fresh, x) ==
    Items(p)[CHOOSE i \in DOMAIN Items(p) : i \in Valued(p, fresh, x)].value

\* The contact is written as it was loaded, with its is_deleted.
Unlock(p) ==
    /\ lock' = Nobody
    /\ deleted' = job[p].erased

\* Mutant of CommitNumbers: new items are linked before they are stored.
LinkOnly(p) ==
    /\ At(p, "numbers", "commit")
    /\ Unlock(p)
    /\ \E fresh \in Fresh(p, {ph \in Phones : number[ph] = NoNumber}) :
           linked' = (linked \cup Rows(p, fresh)) \ Dropped(p)
    /\ Goto(p, "reload")
    /\ UNCHANGED <<scenario, number, book, functions, begun, history>>

\* A number is saved if its row, as it was read, has another one.
CommitNumbers(p) ==
    /\ At(p, "numbers", "commit")
    /\ Unlock(p)
    /\ \E fresh \in Fresh(p, {ph \in Phones : number[ph] = NoNumber}) :
       LET valued == {ph \in Phones : Valued(p, fresh, ph) # {}}
           written == {ph \in valued : ph \in job[p].seen =>
                           ValueFor(p, fresh, ph) # job[p].numbers[ph]}
       IN  /\ number' = [ph \in Phones |-> IF ph \in written
                         THEN ValueFor(p, fresh, ph) ELSE number[ph]]
           /\ want' = [ph \in Phones |-> IF ph \in valued
                       THEN ValueFor(p, fresh, ph) ELSE want[ph]]
           /\ mixed' = mixed \ written
           /\ linked' = (linked \cup Rows(p, fresh)) \ Dropped(p)
           /\ job' = [q \in Processes |->
                  IF q = p
                  THEN [job[p] EXCEPT !.at = "reload", !.seen = {}, !.numbers = NoNumbers]
                  ELSE [job[q] EXCEPT !.old = @ \cup (job[q].todo \cap written)]]
    /\ UNCHANGED <<scenario, book, functions, begun, asked, revived, raced,
                   listed, died>>

\* Accounts of the contact are saved if they differ, the others always.
Dirty(p, i) ==
    LET item == Items(p)[i] IN
    /\ item.id \in job[p].seen
    /\ item.value \notin {Keep, job[p].rows[item.id].name}
Assigned(p, i) == Items(p)[i].id \notin job[p].seen \cup {New}

\* simple_data is never emptied: a new item after one that was saved has its id.
Collides(p) ==
    \E i, k \in DOMAIN Items(p) : i < k /\ Dirty(p, i) /\ Items(p)[k].id = New

\* And an item without a name has the name of the item that was saved before it:
\* first the list, then the accounts that are new to the contact, in any order.
LastInLoop(p) ==
    {Items(p)[i].value : i \in {k \in DOMAIN Items(p) :
        /\ Dirty(p, k) \/ Items(p)[k].id = New
        /\ \A m \in DOMAIN Items(p) :
               m > k => ~Dirty(p, m) /\ Items(p)[m].id # New}}
NamesFor(p, i) ==
    LET item == Items(p)[i] IN
    IF item.value # Keep THEN {item.value}
    ELSE {Items(p)[k].value : k \in {m \in DOMAIN Items(p) :
              Assigned(p, m) /\ Items(p)[m].value # Keep}}
         \cup (IF LastInLoop(p) = {} THEN {job[p].rows[item.id].name}
               ELSE LastInLoop(p))

RollBack(p) ==
    /\ At(p, "works", "commit")
    /\ Collides(p)
    /\ lock' = Nobody
    /\ Finish(p)
    /\ UNCHANGED <<scenario, deleted, phones, book, functions, begun, history>>

CommitAccounts(p) ==
    /\ At(p, "works", "commit")
    /\ ~Collides(p)
    /\ Unlock(p)
    /\ \E fresh \in Fresh(p, {a \in Accounts : accounts[a].name = NoName}) :
       LET saved == {i \in DOMAIN Items(p) :
                         Dirty(p, i) \/ Assigned(p, i) \/ Items(p)[i].id = New}
           written == {RowOf(p, i, fresh) : i \in saved}
       IN  /\ \E name \in [saved -> Names \cup {NoName}] :
                  /\ \A i \in saved : name[i] \in NamesFor(p, i)
                  /\ accounts' = [a \in Accounts |->
                         IF a \notin written THEN accounts[a]
                         ELSE [job[p].rows[a] EXCEPT !.name =
                             name[CHOOSE i \in saved : RowOf(p, i, fresh) = a]]]
           /\ functions' = (functions \cup Rows(p, fresh)) \ Dropped(p)
           /\ asked' = IF job[p].request.put THEN Rows(p, fresh)
                       ELSE (asked \cup Rows(p, fresh)) \ Flagged(p)
           /\ revived' = revived \ Dropped(p)
           /\ raced' = (raced \/ (job[p].stale /\ written # {}))
           /\ Overtake(p, [job[p] EXCEPT !.at = "reload", !.seen = {},
                           !.rows = NoRows], written, Dropped(p))
    /\ listed' = (listed \/ (Len(Items(p)) > 1 /\ \E i \in DOMAIN Items(p) :
                                                      Items(p)[i].value # Keep))
    /\ UNCHANGED <<scenario, phones, apart, begun, want, mixed, died>>

\* The numbers are loaded again, after the transaction, and formatted if there is a
\* country, that of an address of the contact or of the tenant.
LoadNumbers(p) ==
    /\ job[p].at = "reload"
    /\ \E country \in scenario.countries :
           IF country
           THEN Become(p, [job[p] EXCEPT !.at = "format", !.todo = linked, !.old = {},
                           !.numbers = LinkedNumbers])
           ELSE Finish(p)
    /\ UNCHANGED allButJob

FormatNumber(p) ==
    /\ job[p].at = "format"
    /\ \E ph \in job[p].todo :
           /\ number' = [number EXCEPT ![ph] = Format[job[p].numbers[ph]]]
           /\ mixed' = IF ph \in job[p].old THEN mixed \cup {ph} ELSE mixed
           /\ Become(p, [job[p] EXCEPT !.todo = @ \ {ph}, !.old = @ \ {ph}])
    /\ UNCHANGED <<scenario, deleted, lock, linked, book, functions, begun, asked,
                   revived, want, raced, listed, died>>

\* Mutant of EndSave: numbers are left out.
EndEarly(p) ==
    /\ job[p].at = "format"
    /\ Finish(p)
    /\ UNCHANGED allButJob

EndSave(p) ==
    /\ job[p].at = "format"
    /\ job[p].todo = {}
    /\ Finish(p)
    /\ UNCHANGED allButJob

\* DeletedMixin.delete
DeleteContact(p) ==
    /\ At(p, "delete", "write")
    /\ lock = Nobody
    /\ deleted' = TRUE
    /\ Finish(p)
    /\ UNCHANGED <<scenario, lock, phones, book, functions, begun, history>>

-----------------------------------------------------------------------------
(* A Function is changed.                                                  *)

LoadFunction(p) ==
    /\ At(p, "toggle", "load")
    /\ IF Subject(p) \in functions THEN Goto(p, "write") ELSE Finish(p)
    /\ UNCHANGED allButJob

\* save() inserts a row that is no longer there, unless there is another one for
\* this contact and account.
SaveFunction(p) ==
    /\ At(p, "toggle", "write")
    /\ LET back == IF job[p].gone THEN {Subject(p)} \ functions ELSE {} IN
           /\ functions' = functions \cup back
           /\ revived' = revived \cup back
    /\ Finish(p)
    /\ UNCHANGED <<scenario, deleted, lock, phones, book, begun, asked, want,
                   mixed, raced, listed, died>>

-----------------------------------------------------------------------------
(* An account is renamed or deleted.                                       *)

LoadAccount(p) ==
    /\ At(p, "account", "load")
    /\ IF Exists(Subject(p))
       THEN Become(p, [job[p] EXCEPT !.rows = accounts,
                       !.at = IF Items(p)[1].remove THEN "write" ELSE "check"])
       ELSE Finish(p)
    /\ UNCHANGED allButJob

\* Mutant of CheckName: the name is not looked up.
AnyName(p) ==
    /\ At(p, "account", "check")
    /\ Goto(p, "write")
    /\ UNCHANGED allButJob

CheckName(p) ==
    /\ At(p, "account", "check")
    /\ IF NamesAreFree(p) THEN Goto(p, "write") ELSE Finish(p)
    /\ UNCHANGED allButJob

SaveAccount(p) ==
    /\ At(p, "account", "write")
    /\ LET a == Subject(p) IN
           /\ accounts' = [accounts EXCEPT ![a] =
                  IF Items(p)[1].remove THEN [job[p].rows[a] EXCEPT !.deleted = TRUE]
                  ELSE [job[p].rows[a] EXCEPT !.name = Items(p)[1].value]]
           /\ raced' = (raced \/ job[p].stale)
           /\ Overtake(p, Idle, {a}, {})
    /\ UNCHANGED <<scenario, deleted, lock, phones, apart, functions, begun,
                   asked, revived, want, mixed, listed, died>>

-----------------------------------------------------------------------------
(* The import of a file with accounts.                                     *)

Name(p) == Items(p)[job[p].next].value
NextRow(p) == [job[p] EXCEPT !.next = @ + 1, !.at = "look", !.account = New,
               !.stale = FALSE]

LookUp(p) ==
    /\ At(p, "import", "look")
    /\ IF job[p].next > Len(Items(p))
       THEN Finish(p)
       ELSE IF \E a \in Accounts : InUse(a, Name(p))
       THEN Become(p, NextRow(p))
       ELSE Goto(p, "create")
    /\ UNCHANGED allButJob

\* A transaction stores the account and what else the row has, but does not link
\* that to the account.
CreateAccount(p) ==
    /\ At(p, "import", "create")
    /\ \E a \in Accounts, found \in SUBSET Details :
           /\ accounts[a].name = NoName
           /\ accounts' = [accounts EXCEPT ![a] = [name |-> Name(p), deleted |-> FALSE]]
           /\ apart' = [apart EXCEPT ![a] = found]
           /\ raced' = (raced \/ job[p].stale)
           /\ Overtake(p, [job[p] EXCEPT !.account = a, !.at = "link"], {a}, {})
    /\ UNCHANGED <<scenario, deleted, lock, phones, functions, begun, asked,
                   revived, want, mixed, listed, died>>

CreateFails(p) ==
    /\ "fail" \in scenario.faults
    /\ At(p, "import", "create")
    /\ Become(p, NextRow(p))
    /\ UNCHANGED allButJob

\* One after the other is saved again and linked, by statements of their own.
LinkDetail(p) ==
    /\ At(p, "import", "link")
    /\ \E d \in apart[job[p].account] : apart' = [apart EXCEPT ![job[p].account] = @ \ {d}]
    /\ UNCHANGED <<scenario, deleted, lock, phones, accounts, functions, begun,
                   history, job>>

\* An error in one of them ends the request.
LinkFails(p) ==
    /\ "fail" \in scenario.faults
    /\ At(p, "import", "link")
    /\ Finish(p)
    /\ UNCHANGED allButJob

\* The account is saved again, for the search index.
StoreAgain(p) ==
    /\ At(p, "import", "link")
    /\ apart[job[p].account] = {}
    /\ LET a == job[p].account IN
           /\ accounts' = [accounts EXCEPT ![a] = [name |-> Name(p), deleted |-> FALSE]]
           /\ raced' = (raced \/ job[p].stale)
           /\ Overtake(p, NextRow(p), {a}, {})
    /\ UNCHANGED <<scenario, deleted, lock, phones, apart, functions, begun,
                   asked, revived, want, mixed, listed, died>>

-----------------------------------------------------------------------------
\* A transaction that was open is rolled back.
Die(p) ==
    /\ "die" \in scenario.faults
    /\ job[p] # Idle
    /\ lock' = IF lock = p THEN Nobody ELSE lock
    /\ died' = TRUE
    /\ Finish(p)
    /\ UNCHANGED <<scenario, deleted, phones, book, functions, begun, asked,
                   revived, want, mixed, raced, listed>>

Next ==
    \E p \in Processes :
        \/ Begin(p)
        \/ LoadContact(p) \/ CheckNumbers(p) \/ CheckAccounts(p) \/ Lock(p)
        \/ CommitNumbers(p) \/ CommitAccounts(p) \/ RollBack(p)
        \/ LoadNumbers(p) \/ FormatNumber(p) \/ EndSave(p) \/ DeleteContact(p)
        \/ LoadFunction(p) \/ SaveFunction(p)
        \/ LoadAccount(p) \/ CheckName(p) \/ SaveAccount(p)
        \/ LookUp(p) \/ CreateAccount(p) \/ CreateFails(p) \/ LinkDetail(p)
        \/ LinkFails(p) \/ StoreAgain(p)
        \/ Die(p)

Spec == Init /\ [][Next]_vars

-----------------------------------------------------------------------------
(* Properties.                                                             *)

\* What the variables hold; a linked phone number has a row: the rows of a list are
\* stored before they are linked.  (api/nested/serializers.py:303-313.)
TypeOK ==
    /\ scenario \in Scenarios
    /\ deleted \in BOOLEAN
    /\ lock \in Processes \cup {Nobody}
    /\ number \in [Phones -> Numbers \cup {NoNumber}]
    /\ linked \subseteq {ph \in Phones : number[ph] # NoNumber}
    /\ accounts \in [Accounts -> Row]
    /\ apart \in [Accounts -> SUBSET Details]
    /\ functions \subseteq Accounts
    /\ job \in [Processes -> Job]
    /\ begun \in Nat
    /\ asked \subseteq Accounts /\ revived \subseteq Accounts
    /\ want \in [Phones -> Numbers \cup {NoNumber}]
    /\ mixed \subseteq Phones
    /\ raced \in BOOLEAN /\ listed \in BOOLEAN /\ died \in BOOLEAN

\* A contact works at the accounts that its saves, one after the other in the
\* order of their transactions, ask for, whatever each of them saw when it was
\* validated and whoever died; only a change of a Function that a save removed
\* brings an account back.
\* (api/nested/serializers.py:327-359, contacts/api/views.py:79-80.)
WorksWhereSaved == functions = asked \cup revived

\* A number that a contact has is the one somebody saved or imported last, or that
\* one in the international notation, whoever saves and formats beside each other;
\* only a formatting that loaded a number before a later save puts the earlier one
\* back.  Where a country is always known, what a user saved is formatted, or is
\* about to be, unless a process died.
\* (api/mixins.py:233-246, api/nested/serializers.py:415-441.)
NumbersStand ==
    \A ph \in linked \ mixed :
        \/ number[ph] = Format[want[ph]]
        \/ /\ number[ph] = want[ph]
           /\ \/ died \/ scenario.countries # {TRUE} \/ want[ph] = scenario.linked[ph]
              \/ \E p \in Processes :
                     \/ job[p].at = "reload"
                     \/ job[p].at = "format" /\ ph \in job[p].todo

\* No two accounts that are not deleted have one name, unless rows or names
\* changed between a check and the save it was for, or a list had the name of one
\* account beside others: such a list gives its names away.
\* (accounts/api/validators.py:24-35, accounts/api/views.py:170.)
NamesUnique ==
    raced \/ listed \/ \A a, b \in Accounts :
        Exists(a) /\ InUse(b, accounts[a].name) => a = b
=============================================================================
