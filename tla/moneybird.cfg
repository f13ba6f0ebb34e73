SPECIFICATION Spec
CONSTANTS
  p1 = p1
  p2 = p2
  ann = ann
  firm = firm
  mail = mail
  capital = capital
  phone = phone
  e164 = e164
  address = address
  Processes = {p1, p2}
  People <- MCPeople
  Firms <- MCFirms
  Emails <- MCEmails
  Phones <- MCPhones
  Lowered <- MCLowered
  Formatted <- MCFormatted
  Addresses <- MCAddresses
  Inputs <- MCInputs
  Scenarios <- MCScenarios
  MaxExpiries = 1
INVARIANTS TypeOK NoDuplicates ImportIsComplete NothingOnStrangers ConnectionKept
PROPERTY ImportEnds
CHECK_DEADLOCK FALSE
