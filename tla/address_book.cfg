SPECIFICATION Spec
CONSTANTS
  p1 = p1
  p2 = p2
  p3 = p3
  home = home
  work = work
  fax = fax
  local = local
  e164 = e164
  junk = junk
  empty = empty
  acme = acme
  initech = initech
  hooli = hooli
  A = A
  I = I
  phone = phone
  mail = mail
  Processes = {p1, p2, p3}
  Phones <- MCPhones
  Numbers <- MCNumbers
  Format <- MCFormat
  Blank = empty
  Accounts <- MCAccounts
  Names <- MCNames
  Details = {phone}
  Scenarios <- MCScenarios
SYMMETRY Symmetry
INVARIANTS TypeOK WorksWhereSaved NumbersStand NamesUnique
CHECK_DEADLOCK FALSE
