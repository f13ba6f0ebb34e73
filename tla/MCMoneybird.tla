----------------------------- MODULE MCMoneybird -----------------------------
EXTENDS Moneybird
CONSTANTS ann, firm, mail, capital, phone, e164, address
E(p, f, i) == [person |-> p, firm |-> f, item |-> i]
MCPeople == {ann}
MCFirms == {firm}
MCEmails == {mail, capital}
MCPhones == {phone, e164}
MCAddresses == {address}
MCLowered == [i \in MCEmails |-> mail]
MCFormatted == [i \in MCPhones |-> e164]

\* The contact users save shares its address or its number with an entry.
MCInputs == {E(ann, NoFirm, address), E(ann, NoFirm, phone)}

\* A contact of a company before one with a last name only; a contact and a
\* company that have nothing in common; and a contact of a company with a number.
Mixed == <<E(ann, firm, capital), E(Nobody, NoFirm, address)>>
Apart == <<E(ann, NoFirm, phone), E(Nobody, firm, mail)>>
Called == <<E(ann, firm, phone)>>

\* The administrator connects while the tokens are used; imports are repeated.
MCScenarios ==
    {[kinds |-> {"connect", "authorize", "setting"}, most |-> 3,
      faults |-> {"crash", "call", "expiry"}, book |-> <<>>, others |-> TRUE],
     [kinds |-> {"authorize", "setting", "read"}, most |-> 3,
      faults |-> {"expiry", "refuse"}, book |-> <<>>, others |-> FALSE],
     [kinds |-> {"setting"}, most |-> 2,
      faults |-> {"crash", "fail"}, book |-> Mixed, others |-> FALSE],
     [kinds |-> {"setting", "save"}, most |-> 2,
      faults |-> {"call", "expiry", "refuse"}, book |-> Mixed, others |-> FALSE],
     [kinds |-> {"setting", "save"}, most |-> 2,
      faults |-> {"edit"}, book |-> Apart, others |-> FALSE],
     [kinds |-> {"setting", "resave", "account"}, most |-> 3,
      faults |-> {}, book |-> Called, others |-> FALSE]}
=============================================================================
