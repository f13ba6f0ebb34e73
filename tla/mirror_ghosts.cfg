SPECIFICATION Spec
CONSTANTS
  m1 = m1
  Messages = {m1}
  UNREAD = UNREAD
  TRASH = TRASH
  Unread = UNREAD
  Trash = TRASH
  Labels = {UNREAD, TRASH}
  UserChanges <- ReadAndMove
  w1 = w1
  Workers = {w1}
  RowIds = {1, 2}
  MaxHistory = 3
  MaxSyncs = 2
  Faults = {}
INVARIANT NoGhosts
CHECK_DEADLOCK FALSE
