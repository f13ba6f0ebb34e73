SPECIFICATION Spec
CONSTANTS
  m1 = m1
  Messages = {m1}
  UNREAD = UNREAD
  TRASH = TRASH
  Unread = UNREAD
  Trash = TRASH
  Labels = {UNREAD, TRASH}
  UserChanges <- UnreadOnly
  w1 = w1
  w2 = w2
  Workers = {w1,w2}
  RowIds = {1, 2}
  MaxHistory = 2
  MaxSyncs = 2
  Faults = {"crash","call","revoked"}
SYMMETRY WorkerSymmetry
INVARIANTS TypeOK NoMailForgotten OnlyNonMailSkipped Mirrored
CHECK_DEADLOCK FALSE
