--------------------------- MODULE MCMailboxMirror ---------------------------
EXTENDS MailboxMirror, TLC
\* Marking as read or unread, and moving a message out of the trash.
ReadAndMove == {MarkRead, MarkUnread, [add |-> {}, remove |-> {Trash}]}
UnreadOnly == {MarkUnread}
WorkerSymmetry == Permutations(Workers)
=============================================================================
