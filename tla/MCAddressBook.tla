---------------------------- MODULE MCAddressBook ----------------------------
EXTENDS AddressBook, TLC
CONSTANTS p1, p2, p3, home, work, fax, local, e164, junk, empty, acme, initech,
          hooli, A, I, phone, mail
Symmetry == Permutations(Processes)

MCPhones == {home, work, fax}
MCNumbers == {local, e164, junk, empty}
MCAccounts == {acme, initech, hooli}
MCNames == {A, I}

\* junk cannot be parsed, and its formatting is the empty number.
MCFormat == [n \in MCNumbers |->
    IF n = local THEN e164 ELSE IF n = junk THEN empty ELSE n]

Is(id, value) == [id |-> id, value |-> value, remove |-> FALSE]
Id(id) == Is(id, Keep)
Out(id) == [id |-> id, value |-> Keep, remove |-> TRUE]
Put(kind, items) == [kind |-> kind, put |-> TRUE, all |-> FALSE, items |-> items]
Patch(kind, items) == [kind |-> kind, put |-> FALSE, all |-> FALSE, items |-> items]
OfAll(r) == [r EXCEPT !.all = TRUE]

NoPhones == [ph \in MCPhones |-> NoNumber]
TwoAccounts ==
    [a \in MCAccounts |-> IF a = acme THEN A ELSE IF a = initech THEN I ELSE NoName]
OneAccount == [a \in MCAccounts |-> IF a = acme THEN A ELSE NoName]

\* Numbers that are changed, added, removed; the contact is deleted meanwhile.
NumberRequests ==
    {Put("numbers", <<Is(home, local), Id(work)>>),
     Put("numbers", <<Is(home, e164)>>),
     Put("numbers", <<Is(home, junk)>>),
     Patch("numbers", <<Out(work)>>),
     Patch("numbers", <<Is(New, local)>>),
     Put("delete", <<>>)}

\* Accounts that the contact comes to and leaves, by whole and partial updates,
\* and Functions that are changed.
WorkRequests ==
    {Put("works", <<Id(acme)>>),
     Put("works", <<Id(initech)>>),
     Patch("works", <<Id(initech)>>),
     Patch("works", <<Out(acme)>>),
     Put("toggle", <<Id(acme)>>),
     Put("delete", <<>>)}

\* Accounts that are renamed in a list, beside others and alone, created,
\* renamed, deleted and imported, and the names they get.
NameRequests ==
    {Put("works", <<Is(acme, I), Id(initech)>>),
     Put("works", <<Is(acme, I)>>),
     Put("works", <<Is(acme, I), Is(New, A)>>),
     Patch("works", <<Id(acme), Is(New, A)>>),
     Patch("account", <<Is(initech, A)>>),
     Patch("account", <<Is(acme, I)>>),
     Put("account", <<Out(acme)>>),
     Put("import", <<Is(New, A), Is(New, I)>>)}

Always == {TRUE}
NowAndThen == {TRUE, FALSE}

MCScenarios ==
    {[linked |-> [NoPhones EXCEPT ![home] = local, ![work] = e164],
      named |-> OneAccount, works |-> {}, countries |-> Always,
      requests |-> NumberRequests, most |-> 3, faults |-> {"die"}],
     [linked |-> [NoPhones EXCEPT ![home] = local],
      named |-> OneAccount, works |-> {}, countries |-> NowAndThen,
      requests |-> {Put("numbers", <<Is(home, local)>>),
                    Put("numbers", <<Is(home, junk)>>),
                    OfAll(Patch("numbers", <<Is(New, local)>>)),
                    Put("delete", <<>>)},
      most |-> 3, faults |-> {}],
     [linked |-> [NoPhones EXCEPT ![home] = e164],
      named |-> TwoAccounts, works |-> {acme}, countries |-> Always,
      requests |-> WorkRequests, most |-> 3, faults |-> {"die"}],
     [linked |-> NoPhones, named |-> TwoAccounts, works |-> {acme},
      countries |-> Always, requests |-> NameRequests, most |-> 2,
      faults |-> {"die", "fail"}],
     [linked |-> NoPhones, named |-> OneAccount, works |-> {acme},
      countries |-> Always, requests |-> NameRequests, most |-> 3,
      faults |-> {"fail"}]}
=============================================================================
