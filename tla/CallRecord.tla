------------------------------ MODULE CallRecord ------------------------------
(***************************************************************************)
(* The records of phone calls: VoIPGRID posts a notification whenever a    *)
(* call rings, is picked up, is transferred or ends, and each post is      *)
(* handled by whichever web process receives it.  A handler reads the      *)
(* record, looks up the participants, and saves all its columns; there is  *)
(* no transaction around it and no lock.                                   *)
(*                                                                         *)
(* Nothing in the code orders the notifications: they may arrive late,     *)
(* more than once, or while another one of the same call is handled.  The  *)
(* variables inTurn and inOrder remember whether that happened, so that a  *)
(* property can say which of these it depends on.                          *)
(*                                                                         *)
(* Abstracted: who the participants are (the rows of CallParticipant), and *)
(* times: a notification's timestamp is its number within the call.        *)
(***************************************************************************)
EXTENDS Naturals, Sequences, FiniteSets
LOCAL INSTANCE FiniteSetsExt

CONSTANTS
    Calls,      \* call ids
    Parties,    \* those who may pick up
    Requests,   \* web processes
    MaxSent,    \* bound: notifications of one call
    MaxTotal,   \* bound: notifications of all calls together
    MaxResent   \* bound: notifications delivered again

ASSUME CallAssumption ==
    /\ Parties # {}
    /\ MaxSent \in Nat \ {0}
    /\ MaxTotal \in Nat
    /\ MaxResent \in Nat

VARIABLES
    internal,   \* VoIPGRID: calls to an internal number
    sent,       \* VoIPGRID: the notifications of each call, in order
    pending,    \* VoIPGRID: which of them no request has handled yet
    resent,     \* how many were delivered again
    records,    \* CallRecord: call -> row
    transfers,  \* CallTransfer: reported call -> record's call -> rows
    request,    \* what each web process is doing
    inTurn,     \* calls whose notifications were handled one at a time
    inOrder     \* calls whose notifications were handled in order and once

platform == <<internal, sent>>
delivery == <<pending, resent, inTurn, inOrder>>
vars == <<platform, delivery, records, transfers, request>>
-----------------------------------------------------------------------------
Time == 1 .. MaxSent
NoTime == 0
Nobody == "nobody"

Notification ==
    [kind : {"ringing", "ended"}]
        \cup [kind : {"in-progress"}, destination : Parties]
        \cup [kind : {"transfer"}, merged : Calls]

Row == [status : {"RINGING", "IN_PROGRESS", "ENDED"},
        start : Time,
        end : Time \cup {NoTime},
        destination : Parties \cup {Nobody}]
NoRow == [status |-> "none"]
Exists(c) == records[c] # NoRow

Step == {"create", "load", "save", "find", "findMerged", "attach"}
Idle == [step |-> "idle"]
Job == [step : Step, call : Calls, at : Time, row : Row \cup {NoRow},
        target : Calls]

Notice(r) == sent[request[r].call][request[r].at]
Busy(c) == \E r \in Requests : request[r] # Idle /\ request[r].call = c
-----------------------------------------------------------------------------
Init ==
    /\ internal \in SUBSET Calls
    /\ sent = [c \in Calls |-> <<>>]
    /\ pending = [c \in Calls |-> {}]
    /\ resent = 0
    /\ records = [c \in Calls |-> NoRow]
    /\ transfers = [c \in Calls |-> [d \in Calls |-> 0]]
    /\ request = [r \in Requests |-> Idle]
    /\ inTurn = Calls
    /\ inOrder = Calls
-----------------------------------------------------------------------------
\* The telephone exchange.

Last(c) == IF sent[c] = <<>> THEN "nothing" ELSE sent[c][Len(sent[c])].kind

Notify(c, n) ==
    /\ Len(sent[c]) < MaxSent
    /\ MapThenSumSet(LAMBDA d : Len(sent[d]), Calls) < MaxTotal
    /\ sent' = [sent EXCEPT ![c] = Append(@, n)]
    /\ pending' = [pending EXCEPT ![c] = @ \cup {Len(sent'[c])}]
    /\ UNCHANGED <<internal, resent, records, transfers, request, inTurn, inOrder>>

\* Each telephone of a call group rings.
Ring(c) ==
    /\ Last(c) \in {"nothing", "ringing"}
    /\ Notify(c, [kind |-> "ringing"])

PickUp(c) ==
    /\ Last(c) \in {"ringing", "transfer"}
    /\ \E p \in Parties : Notify(c, [kind |-> "in-progress", destination |-> p])

\* The call is connected to another one, which may have been answered or not.
Transfer(c) ==
    /\ Last(c) \in {"ringing", "in-progress"}
    /\ \E d \in Calls \ {c} : Notify(c, [kind |-> "transfer", merged |-> d])

\* Without any ringing when nobody is available.
HangUp(c) ==
    /\ Last(c) # "ended"
    /\ Notify(c, [kind |-> "ended"])
-----------------------------------------------------------------------------
\* Delivery: in any order, and possibly again.

FirstStep(kind) ==
    CASE kind = "ringing" -> "create"
      [] kind \in {"in-progress", "ended"} -> "load"
      [] kind = "transfer" -> "find"

\* A transfer names no destination, so this does not apply to it.
ToInternalNumber(c, i) == c \in internal /\ sent[c][i].kind # "transfer"

NextInOrder(c, i) == i \in pending[c] /\ \A j \in pending[c] : i <= j

Receive(r, c) ==
    /\ request[r] = Idle
    /\ \E i \in 1 .. Len(sent[c]) :
        /\ \/ i \in pending[c] /\ resent' = resent
           \/ /\ i \notin pending[c] /\ resent < MaxResent
              /\ resent' = resent + 1
        /\ pending' = [pending EXCEPT ![c] = @ \ {i}]
        /\ inOrder' = IF NextInOrder(c, i) THEN inOrder ELSE inOrder \ {c}
        /\ inTurn' = IF Busy(c) THEN inTurn \ {c} ELSE inTurn
        /\ request' = IF ToInternalNumber(c, i) THEN request
                      ELSE [request EXCEPT ![r] =
                               [step |-> FirstStep(sent[c][i].kind), call |-> c,
                                at |-> i, row |-> NoRow, target |-> c]]
    /\ UNCHANGED <<platform, records, transfers>>

\* The request fails or its process is killed; VoIPGRID may post it again.
Die(r) ==
    /\ request[r] # Idle
    /\ pending' = [pending EXCEPT ![request[r].call] = @ \cup {request[r].at}]
    /\ request' = [request EXCEPT ![r] = Idle]
    /\ UNCHANGED <<platform, resent, records, transfers, inTurn, inOrder>>
-----------------------------------------------------------------------------
\* The handlers.

At(r, step) == request[r] # Idle /\ request[r].step = step
Handled(r) == request' = [request EXCEPT ![r] = Idle]
GoOn(r, step, row, target) ==
    request' = [request EXCEPT ![r] =
                   [step |-> step, call |-> request[r].call, at |-> request[r].at,
                    row |-> row, target |-> target]]
GoTo(r, step) == GoOn(r, step, NoRow, request[r].target)
SaveNext(r, row) == GoOn(r, "save", row, request[r].target)
AttachNext(r, target) == GoOn(r, "attach", NoRow, target)

RingingRow(i) ==
    [status |-> "RINGING", start |-> i, end |-> NoTime, destination |-> Nobody]

\* Mutant of AfterCreate: update_or_create instead of create_or_get.
AfterCreateOrUpdate(old, new) == new

\* The row that stands after create_or_get tried to insert this one: call_id
\* is unique, so a row that is there stays as it is.
AfterCreate(old, new) == IF old = NoRow THEN new ELSE old

\* save_ringing, also as part of save_ended, which goes on with the row
\* created or, when there was one, with the row that it then gets.
Create(r) ==
    LET c == request[r].call
        new == RingingRow(request[r].at)
    IN  /\ At(r, "create")
        /\ records' = [records EXCEPT ![c] = AfterCreate(@, new)]
        /\ \/ Notice(r).kind = "ringing" /\ Handled(r)
           \/ Notice(r).kind = "ended" /\ Exists(c) /\ GoTo(r, "load")
           \/ Notice(r).kind = "ended" /\ ~Exists(c) /\ SaveNext(r, new)
        /\ UNCHANGED <<platform, delivery, transfers>>

\* Mutant of Load: a record that does not exist is not treated apart.
LoadUnchecked(r) ==
    /\ At(r, "load")
    /\ SaveNext(r, records[request[r].call])
    /\ UNCHANGED <<platform, delivery, records, transfers>>

\* The beginning of save_in_progress and of save_ended.
Load(r) ==
    LET c == request[r].call IN
    /\ At(r, "load")
    /\ \/ Exists(c) /\ SaveNext(r, records[c])
       \/ ~Exists(c) /\ Notice(r).kind = "in-progress" /\ Handled(r)
       \/ ~Exists(c) /\ Notice(r).kind = "ended" /\ GoTo(r, "create")
    /\ UNCHANGED <<platform, delivery, records, transfers>>

\* Mutant of Updated: a pick-up resets the end of a call that is back in progress.
UpdatedAndReopened(row, n, i) ==
    IF n.kind = "in-progress"
    THEN [status |-> "IN_PROGRESS", start |-> row.start, end |-> NoTime,
          destination |-> n.destination]
    ELSE [status |-> "ENDED", start |-> row.start, end |-> i,
          destination |-> row.destination]

Updated(row, n, i) ==
    IF n.kind = "in-progress"
    THEN [status |-> "IN_PROGRESS", start |-> row.start, end |-> row.end,
          destination |-> n.destination]
    ELSE [status |-> "ENDED", start |-> row.start, end |-> i,
          destination |-> row.destination]

\* Every column is written as it was loaded or created, but for those.
Save(r) ==
    /\ At(r, "save")
    /\ records' = [records EXCEPT ![request[r].call] =
                      Updated(request[r].row, Notice(r), request[r].at)]
    /\ Handled(r)
    /\ UNCHANGED <<platform, delivery, transfers>>

\* Mutant of Find: the merged call is looked up first.
FindEither(r) ==
    LET d == Notice(r).merged IN
    /\ At(r, "find")
    /\ \/ Exists(d) /\ AttachNext(r, d)
       \/ ~Exists(d) /\ AttachNext(r, request[r].call)
    /\ UNCHANGED <<platform, delivery, records, transfers>>

\* save_transfer: the call itself is looked up first, then the merged one.
Find(r) ==
    LET c == request[r].call IN
    /\ At(r, "find")
    /\ \/ Exists(c) /\ AttachNext(r, c)
       \/ ~Exists(c) /\ GoTo(r, "findMerged")
    /\ UNCHANGED <<platform, delivery, records, transfers>>

FindMerged(r) ==
    LET d == Notice(r).merged IN
    /\ At(r, "findMerged")
    /\ \/ Exists(d) /\ AttachNext(r, d)
       \/ ~Exists(d) /\ Handled(r)
    /\ UNCHANGED <<platform, delivery, records, transfers>>

Attach(r) ==
    /\ At(r, "attach")
    /\ transfers' = [transfers EXCEPT ![request[r].call][request[r].target] = @ + 1]
    /\ Handled(r)
    /\ UNCHANGED <<platform, delivery, records>>
-----------------------------------------------------------------------------
Exchange(c) == Ring(c) \/ PickUp(c) \/ Transfer(c) \/ HangUp(c)
Handle(r) == Create(r) \/ Load(r) \/ Save(r) \/ Find(r) \/ FindMerged(r) \/ Attach(r)

Next ==
    \/ \E c \in Calls : Exchange(c)
    \/ \E r \in Requests : Handle(r) \/ Die(r) \/ \E c \in Calls : Receive(r, c)

Spec == Init /\ [][Next]_vars
-----------------------------------------------------------------------------
\* The rows, the requests and what is known of the exchange are well formed; a
\* request holds a row exactly when it is about to save one.
TypeOK ==
    /\ internal \in SUBSET Calls
    /\ sent \in [Calls -> Seq(Notification)]
    /\ \A c \in Calls : Len(sent[c]) <= MaxSent /\ pending[c] \subseteq 1 .. Len(sent[c])
    /\ pending \in [Calls -> SUBSET Time]
    /\ resent \in 0 .. MaxResent
    /\ records \in [Calls -> Row \cup {NoRow}]
    /\ transfers \in [Calls -> [Calls -> Nat]]
    /\ request \in [Requests -> Job \cup {Idle}]
    /\ \A r \in Requests : request[r] # Idle =>
        /\ request[r].at <= Len(sent[request[r].call])
        /\ request[r].step = "save" => request[r].row \in Row
    /\ inTurn \in SUBSET Calls
    /\ inOrder \in SUBSET Calls

\* A call that was picked up or has ended is never shown as ringing again, in
\* whatever order, how often and however concurrently the notifications are
\* handled: save_ended borrows save_ringing, which must not touch a row that
\* another request has created meanwhile.
NeverRingsAgain ==
    [][\A c \in Calls :
          Exists(c) /\ records[c].status # "RINGING"
              => records'[c] # NoRow /\ records'[c].status # "RINGING"]_vars

Ended(c) == sent[c] # <<>> /\ Last(c) = "ended"

\* Once the end of a call has been handled its record has the end time, although
\* it may have come before the ringing or the pick-up, or repeatedly: no
\* handler of a late notification takes the end away.  This needs the
\* notifications of a call to be handled one at a time, since every handler
\* saves all the columns it has loaded.
EndIsKnown ==
    \A c \in Calls \ internal :
        Ended(c) /\ Len(sent[c]) \notin pending[c] /\ c \in inTurn /\ ~Busy(c)
            => Exists(c) /\ records[c].end = Len(sent[c])

Kinds(c) == {sent[c][i].kind : i \in DOMAIN sent[c]}
PickUps(c) == {i \in DOMAIN sent[c] : sent[c][i].kind = "in-progress"}
LastPickUp(c) == CHOOSE i \in PickUps(c) : \A j \in PickUps(c) : j <= i

\* What a reader of the notifications would write down.
Summary(c) ==
    [status |-> CASE "ended" \in Kinds(c) -> "ENDED"
                  [] "ended" \notin Kinds(c) /\ PickUps(c) # {} -> "IN_PROGRESS"
                  [] OTHER -> "RINGING",
     start |-> 1,
     end |-> IF "ended" \in Kinds(c) THEN Len(sent[c]) ELSE NoTime,
     destination |-> IF PickUps(c) = {} THEN Nobody
                     ELSE sent[c][LastPickUp(c)].destination]

\* Notifications that are handled in order, once, and one at a time leave
\* exactly the record they describe, with every transfer of the call on its own
\* record, whatever happens meanwhile to the call it was merged with.
RecordedAsItHappened ==
    \A c \in (inTurn \cap inOrder) \ internal :
        pending[c] = {} /\ ~Busy(c) /\ sent[c] # <<>>
            => /\ records[c] = Summary(c)
               /\ \A d \in Calls : transfers[c][d] =
                    IF d = c
                    THEN Cardinality({i \in DOMAIN sent[c] : sent[c][i].kind = "transfer"})
                    ELSE 0
=============================================================================
