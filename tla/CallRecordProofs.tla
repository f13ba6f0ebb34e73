--------------------------- MODULE CallRecordProofs ---------------------------
(***************************************************************************)
(* What holds of CallRecord for any number of calls, participants, web     *)
(* processes and notifications.                                            *)
(***************************************************************************)
EXTENDS CallRecord, FiniteSetTheorems, TLAPS

USE DEF NoTime, Step, Time

\* A row is no NoRow, and a job is not Idle.
LEMMA NoRowIsNone ==
    /\ \A row \in Row : row # NoRow
    /\ \A j \in Job : j # Idle
    /\ \A i \in Time : RingingRow(i) \in Row
BY SMT DEF Row, NoRow, Job, Idle, RingingRow

\* Saving an attribute or two of a row gives a row.
LEMMA UpdatedIsRow ==
    ASSUME NEW row \in Row, NEW n \in Notification, n.kind \in {"in-progress", "ended"},
           NEW i \in Time
    PROVE  /\ Updated(row, n, i) \in Row
           /\ Updated(row, n, i).status # "RINGING"
           /\ n.kind = "in-progress" => Updated(row, n, i).end = row.end
           /\ n.kind = "ended" => Updated(row, n, i).end = i
<1>1. row = [status |-> row.status, start |-> row.start, end |-> row.end,
             destination |-> row.destination]
      /\ row.status \in {"RINGING", "IN_PROGRESS", "ENDED"} /\ row.start \in Time
      /\ row.end \in Time \cup {NoTime} /\ row.destination \in Parties \cup {Nobody}
  BY SMT DEF Row
<1>2. CASE n.kind = "in-progress"
  <2>1. n.destination \in Parties
    BY <1>2, SMT DEF Notification
  <2>2. Updated(row, n, i) = [status |-> "IN_PROGRESS", start |-> row.start,
                              end |-> row.end, destination |-> n.destination]
    BY <1>1, <1>2, SMT DEF Updated
  <2>3. QED
    BY <1>1, <1>2, <2>1, <2>2, SMT DEF Row
<1>3. CASE n.kind = "ended"
  <2>1. Updated(row, n, i) = [status |-> "ENDED", start |-> row.start,
                              end |-> i, destination |-> row.destination]
    BY <1>1, <1>3, SMT DEF Updated
  <2>2. QED
    BY <1>1, <1>3, <2>1, SMT DEF Row
<1>4. QED
  BY <1>2, <1>3
-----------------------------------------------------------------------------
\* Which kind of notification is at which step of its handler.
Matched(r) ==
    request[r] # Idle =>
        LET k == Notice(r).kind IN
        /\ request[r].step = "create" => k \in {"ringing", "ended"}
        /\ request[r].step \in {"load", "save"} => k \in {"in-progress", "ended"}
        /\ request[r].step \in {"find", "findMerged", "attach"} => k = "transfer"

TypeInv == TypeOK /\ \A r \in Requests : Matched(r)

\* Appending a notification leaves those that were sent before.
LEMMA NotifyKeeps ==
    ASSUME TypeOK, NEW c \in Calls, NEW n \in Notification, Notify(c, n)
    PROVE  /\ sent' \in [Calls -> Seq(Notification)]
           /\ Len(sent'[c]) = Len(sent[c]) + 1
           /\ Len(sent'[c]) <= MaxSent
           /\ sent'[c][Len(sent'[c])] = n
           /\ \A d \in Calls : d # c => sent'[d] = sent[d]
           /\ \A d \in Calls : Len(sent[d]) \in Nat /\ Len(sent'[d]) >= Len(sent[d])
           /\ \A d \in Calls : \A i \in 1 .. Len(sent[d]) : sent'[d][i] = sent[d][i]
           /\ pending' = [pending EXCEPT ![c] = @ \cup {Len(sent'[c])}]
<1>1. /\ sent \in [Calls -> Seq(Notification)]
      /\ sent[c] \in Seq(Notification)
      /\ sent' = [sent EXCEPT ![c] = Append(@, n)]
      /\ pending' = [pending EXCEPT ![c] = @ \cup {Len(sent'[c])}]
      /\ Len(sent[c]) < MaxSent
  BY Zenon DEF TypeOK, Notify
<1>2. sent'[c] = Append(sent[c], n) /\ \A d \in Calls : d # c => sent'[d] = sent[d]
  BY <1>1
<1>3. /\ Append(sent[c], n) \in Seq(Notification)
      /\ Len(Append(sent[c], n)) = Len(sent[c]) + 1
      /\ Append(sent[c], n)[Len(sent[c]) + 1] = n
      /\ \A i \in 1 .. Len(sent[c]) : Append(sent[c], n)[i] = sent[c][i]
      /\ Len(sent[c]) \in Nat
  BY <1>1
<1>4. \A d \in Calls : Len(sent[d]) \in Nat
  BY DEF TypeOK
<1>5. sent' \in [Calls -> Seq(Notification)]
  BY <1>1, <1>3
<1>6. Len(sent'[c]) <= MaxSent
  BY <1>1, <1>2, <1>3, CallAssumption
<1>7. QED
  BY <1>1, <1>2, <1>3, <1>4, <1>5, <1>6, SMT

\* Every step of the exchange sends one notification after a call that has not
\* ended.
LEMMA ExchangeNotifies ==
    ASSUME NEW c \in Calls, Exchange(c)
    PROVE  Last(c) # "ended" /\ \E n \in Notification : Notify(c, n)
<1>1. CASE Ring(c)
  BY <1>1 DEF Ring, Notification
<1>2. CASE PickUp(c)
  BY <1>2 DEF PickUp, Notification
<1>3. CASE Transfer(c)
  BY <1>3 DEF Transfer, Notification
<1>4. CASE HangUp(c)
  BY <1>4 DEF HangUp, Notification
<1>5. QED
  BY <1>1, <1>2, <1>3, <1>4 DEF Exchange

\* What the type invariant says of a request that is at some step.
LEMMA RequestTyped ==
    ASSUME TypeInv, NEW r \in Requests, request[r] # Idle
    PROVE  /\ request[r] \in Job
           /\ request[r].call \in Calls
           /\ request[r].at \in Time
           /\ request[r].at \in 1 .. Len(sent[request[r].call])
           /\ request[r].target \in Calls
           /\ Notice(r) \in Notification
           /\ Matched(r)
<1>1. request[r] \in Job
  BY DEF TypeInv, TypeOK
<1>2. request[r].call \in Calls /\ request[r].at \in Time /\ request[r].target \in Calls
  BY <1>1, SMT DEF Job
<1>3. sent[request[r].call] \in Seq(Notification)
  BY <1>2 DEF TypeInv, TypeOK
<1>4. request[r].at \in 1 .. Len(sent[request[r].call])
  BY <1>2, <1>3, CallAssumption, SMT DEF TypeInv, TypeOK
<1>5. Notice(r) \in Notification
  BY <1>3, <1>4 DEF Notice
<1>6. QED
  BY <1>1, <1>2, <1>4, <1>5 DEF TypeInv
-----------------------------------------------------------------------------
\* What TypeInv says of the requests, without the rest of it.
Valid(job) ==
    /\ job \in Job
    /\ job.at <= Len(sent[job.call])
    /\ job.step = "save" => job.row \in Row
    /\ LET k == sent[job.call][job.at].kind IN
        /\ job.step = "create" => k \in {"ringing", "ended"}
        /\ job.step \in {"load", "save"} => k \in {"in-progress", "ended"}
        /\ job.step \in {"find", "findMerged", "attach"} => k = "transfer"

RequestsOK ==
    /\ request \in [Requests -> Job \cup {Idle}]
    /\ \A r \in Requests : request[r] # Idle => Valid(request[r])

RestOK ==
    /\ internal \in SUBSET Calls
    /\ sent \in [Calls -> Seq(Notification)]
    /\ \A c \in Calls : Len(sent[c]) <= MaxSent /\ pending[c] \subseteq 1 .. Len(sent[c])
    /\ pending \in [Calls -> SUBSET Time]
    /\ resent \in 0 .. MaxResent
    /\ records \in [Calls -> Row \cup {NoRow}]
    /\ transfers \in [Calls -> [Calls -> Nat]]
    /\ inTurn \in SUBSET Calls
    /\ inOrder \in SUBSET Calls

LEMMA TypeInvParts == TypeInv <=> RestOK /\ RequestsOK
<1>1. (\A r \in Requests : request[r] # Idle => Valid(request[r]))
         => \A r \in Requests : Matched(r)
  BY DEF Matched, Valid, Notice
<1>2. TypeInv => \A r \in Requests : request[r] # Idle => Valid(request[r])
  <2>1. SUFFICES ASSUME TypeInv, NEW r \in Requests, request[r] # Idle
                 PROVE  Valid(request[r])
    OBVIOUS
  <2>2. request[r] \in Job /\ Matched(r) /\ request[r].at <= Len(sent[request[r].call])
    BY <2>1, RequestTyped DEF TypeInv, TypeOK
  <2>3. QED
    BY <2>1, <2>2, Zenon DEF Valid, Matched, Notice, TypeInv, TypeOK
<1>3. QED
  BY <1>1, <1>2, Zenon DEF TypeInv, TypeOK, RestOK, RequestsOK, Valid

\* One request goes on to a valid step or is done, the notifications as before.
LEMMA RequestsStep ==
    ASSUME RequestsOK, NEW r \in Requests, NEW job, sent' = sent,
           request' = [request EXCEPT ![r] = job],
           job = Idle \/ Valid(job)
    PROVE  RequestsOK'
<1>1. job \in Job \cup {Idle}
  BY DEF Valid
<1>2. /\ request' \in [Requests -> Job \cup {Idle}]
      /\ request'[r] = job
      /\ \A q \in Requests : q # r => request'[q] = request[q]
  BY <1>1 DEF RequestsOK
<1>3. ASSUME NEW j, Valid(j)
      PROVE  Valid(j)'
  BY <1>3 DEF Valid
<1>4. ASSUME NEW q \in Requests, request'[q] # Idle
      PROVE  Valid(request'[q])
  <2>1. CASE q = r
    BY <2>1, <1>2, <1>4
  <2>2. CASE q # r
    BY <2>2, <1>2, <1>4, SMTT(30) DEF RequestsOK
  <2>3. QED
    BY <2>1, <2>2
<1>5. \A q \in Requests : request'[q] # Idle => Valid(request[q])'
  BY <1>4 DEF Valid
<1>6. QED
  BY <1>2, <1>5 DEF RequestsOK

\* A handler goes on with its own notification, at a step that suits it.
LEMMA GoOnStep ==
    ASSUME TypeInv, NEW r \in Requests, request[r] # Idle, sent' = sent,
           NEW step \in Step, NEW row \in Row \cup {NoRow}, NEW target \in Calls,
           GoOn(r, step, row, target),
           step = "save" => row \in Row,
           step = "create" => Notice(r).kind \in {"ringing", "ended"},
           step \in {"load", "save"} => Notice(r).kind \in {"in-progress", "ended"},
           step \in {"find", "findMerged", "attach"} => Notice(r).kind = "transfer"
    PROVE  RequestsOK'
<1> DEFINE job == [step |-> step, call |-> request[r].call, at |-> request[r].at,
                   row |-> row, target |-> target]
<1>1. /\ request[r].call \in Calls /\ request[r].at \in Time
      /\ request[r].at <= Len(sent[request[r].call])
  BY RequestTyped DEF TypeInv, TypeOK
<1>2. /\ job \in Job /\ job.call = request[r].call /\ job.at = request[r].at
      /\ job.step = step /\ job.row = row
  BY <1>1, SMT DEF Job
<1>3. Valid(job)
  BY <1>1, <1>2, Zenon DEF Valid, Notice
<1>4. request' = [request EXCEPT ![r] = job]
  BY DEF GoOn
<1>5. RequestsOK
  BY TypeInvParts
<1>6. QED
  BY <1>3, <1>4, <1>5, RequestsStep

\* A handler is done.
LEMMA HandledStep ==
    ASSUME TypeInv, NEW r \in Requests, sent' = sent, Handled(r)
    PROVE  RequestsOK'
<1>1. RequestsOK /\ request' = [request EXCEPT ![r] = Idle]
  BY TypeInvParts DEF Handled
<1>2. QED
  BY <1>1, RequestsStep
-----------------------------------------------------------------------------
LEMMA InitTyped == Init => TypeInv
<1>1. SUFFICES ASSUME Init PROVE TypeInv
  OBVIOUS
<1>2. /\ sent \in [Calls -> Seq(Notification)]
      /\ \A c \in Calls : Len(sent[c]) = 0 /\ sent[c] = <<>>
  BY <1>1 DEF Init
<1>3. RestOK
  BY <1>1, <1>2, CallAssumption DEF Init, RestOK
<1>4. RequestsOK
  BY <1>1 DEF Init, RequestsOK
<1>5. QED
  BY <1>3, <1>4, TypeInvParts

LEMMA ExchangeTyped ==
    ASSUME TypeInv, NEW c \in Calls, Exchange(c)
    PROVE  TypeInv'
<1>1. PICK n \in Notification : Notify(c, n)
  BY ExchangeNotifies
<1>2. /\ sent' \in [Calls -> Seq(Notification)]
      /\ Len(sent'[c]) <= MaxSent /\ Len(sent'[c]) = Len(sent[c]) + 1
      /\ \A d \in Calls : d # c => sent'[d] = sent[d]
      /\ \A d \in Calls : Len(sent[d]) \in Nat /\ Len(sent'[d]) >= Len(sent[d])
      /\ \A d \in Calls : \A i \in 1 .. Len(sent[d]) : sent'[d][i] = sent[d][i]
      /\ pending' = [pending EXCEPT ![c] = @ \cup {Len(sent'[c])}]
  BY <1>1, NotifyKeeps DEF TypeInv
<1>3. RestOK /\ RequestsOK
  BY TypeInvParts
<1>4. UNCHANGED <<internal, resent, records, transfers, request, inTurn, inOrder>>
  BY <1>1, Zenon DEF Notify
<1>5. \A d \in Calls : Len(sent'[d]) <= MaxSent
  BY <1>2, <1>3 DEF RestOK
<1>6. \A d \in Calls : pending'[d] \subseteq 1 .. Len(sent'[d])
  <2>1. SUFFICES ASSUME NEW d \in Calls PROVE pending'[d] \subseteq 1 .. Len(sent'[d])
    OBVIOUS
  <2>2. pending[d] \subseteq 1 .. Len(sent[d]) /\ Len(sent[d]) <= Len(sent'[d])
    BY <1>2, <1>3 DEF RestOK
  <2>3. pending'[d] \subseteq pending[d] \cup {Len(sent'[d])}
        /\ (d # c => pending'[d] = pending[d])
    BY <1>2, <1>3 DEF RestOK
  <2>4. QED
    BY <1>2, <2>2, <2>3
<1>7. pending' \in [Calls -> SUBSET Time]
  <2>1. Len(sent'[c]) \in Time
    BY <1>2
  <2>2. QED
    BY <1>2, <1>3, <2>1 DEF RestOK
<1>8. RestOK'
  BY <1>2, <1>3, <1>4, <1>5, <1>6, <1>7, Zenon DEF RestOK
<1>9. RequestsOK'
  <2>1. SUFFICES ASSUME NEW r \in Requests, request[r] # Idle
                 PROVE  Valid(request[r])'
    BY <1>3, <1>4, Zenon DEF RequestsOK
  <2>2. /\ Valid(request[r]) /\ request[r].call \in Calls
        /\ request[r].at \in 1 .. Len(sent[request[r].call])
    BY <1>3, <2>1, RequestTyped DEF RequestsOK
  <2>3. /\ request[r].at <= Len(sent'[request[r].call])
        /\ sent'[request[r].call][request[r].at] = sent[request[r].call][request[r].at]
    BY <1>2, <2>2
  <2>4. QED
    BY <1>4, <2>2, <2>3, Zenon DEF Valid
<1>10. QED
  BY <1>8, <1>9, TypeInvParts, PTL

LEMMA ReceiveTyped ==
    ASSUME TypeInv, NEW r \in Requests, NEW c \in Calls, Receive(r, c)
    PROVE  TypeInv'
<1>1. RestOK /\ RequestsOK
  BY TypeInvParts
<1>2. PICK i \in 1 .. Len(sent[c]) :
        /\ resent' \in {resent, resent + 1} /\ (resent' # resent => resent < MaxResent)
        /\ pending' = [pending EXCEPT ![c] = @ \ {i}]
        /\ request' = IF ToInternalNumber(c, i) THEN request
                      ELSE [request EXCEPT ![r] =
                               [step |-> FirstStep(sent[c][i].kind), call |-> c,
                                at |-> i, row |-> NoRow, target |-> c]]
  BY Zenon DEF Receive
<1>3. /\ sent' = sent /\ internal' = internal /\ records' = records /\ transfers' = transfers
      /\ inTurn' \in SUBSET Calls /\ inOrder' \in SUBSET Calls
  BY <1>1 DEF Receive, platform, RestOK
<1>4. RestOK'
  <2>1. resent' \in 0 .. MaxResent
    BY <1>1, <1>2, CallAssumption DEF RestOK
  <2>2. /\ pending' \in [Calls -> SUBSET Time]
        /\ \A d \in Calls : pending'[d] \subseteq 1 .. Len(sent'[d])
    BY <1>1, <1>2, <1>3 DEF RestOK
  <2>3. QED
    BY <1>1, <1>3, <2>1, <2>2, Zenon DEF RestOK
<1>5. RequestsOK'
  <2> DEFINE job == [step |-> FirstStep(sent[c][i].kind), call |-> c,
                     at |-> i, row |-> NoRow, target |-> c]
  <2>1. CASE ToInternalNumber(c, i)
    BY <1>1, <1>2, <1>3, <2>1, Zenon DEF RequestsOK, Valid
  <2>2. CASE ~ToInternalNumber(c, i)
    <3>1. sent[c] \in Seq(Notification) /\ Len(sent[c]) <= MaxSent
      BY <1>1 DEF RestOK
    <3>2. sent[c][i] \in Notification /\ i \in Time /\ i <= Len(sent[c])
      BY <3>1, CallAssumption
    <3>3. sent[c][i].kind \in {"ringing", "in-progress", "ended", "transfer"}
      BY <3>2, SMT DEF Notification
    <3>4. /\ sent[c][i].kind = "ringing" => FirstStep(sent[c][i].kind) = "create"
          /\ sent[c][i].kind \in {"in-progress", "ended"}
               => FirstStep(sent[c][i].kind) = "load"
          /\ sent[c][i].kind = "transfer" => FirstStep(sent[c][i].kind) = "find"
      BY SMT DEF FirstStep
    <3>5. /\ job \in Job /\ job.at = i /\ job.call = c
          /\ job.step = FirstStep(sent[c][i].kind)
      BY <3>2, <3>3, <3>4, SMT DEF Job
    <3>6. Valid(job)
      <4>1. job.step # "save"
        BY <3>3, <3>4, <3>5
      <4>2. /\ job.step = "create" => sent[c][i].kind \in {"ringing", "ended"}
            /\ job.step \in {"load", "save"} => sent[c][i].kind \in {"in-progress", "ended"}
            /\ job.step \in {"find", "findMerged", "attach"} => sent[c][i].kind = "transfer"
        BY <3>3, <3>4, <3>5
      <4>3. QED
        BY <3>2, <3>5, <4>1, <4>2, Zenon DEF Valid
    <3>7. request' = [request EXCEPT ![r] = job]
      BY <1>2, <2>2
    <3>8. QED
      BY <1>1, <1>3, <3>6, <3>7, RequestsStep
  <2>3. QED
    BY <2>1, <2>2
<1>6. QED
  BY <1>4, <1>5, TypeInvParts, PTL

LEMMA DieTyped ==
    ASSUME TypeInv, NEW r \in Requests, Die(r)
    PROVE  TypeInv'
<1>1. RestOK /\ RequestsOK
  BY TypeInvParts
<1>2. /\ request[r].call \in Calls /\ request[r].at \in Time
      /\ request[r].at \in 1 .. Len(sent[request[r].call])
  BY RequestTyped DEF Die
<1>3. RestOK'
  BY <1>1, <1>2 DEF Die, RestOK, platform
<1>4. RequestsOK'
  BY HandledStep DEF Die, Handled, platform
<1>5. QED
  BY <1>3, <1>4, TypeInvParts, PTL

\* What the six steps of a handler have in common.
LEMMA HandleTyped ==
    ASSUME TypeInv, NEW r \in Requests, Handle(r)
    PROVE  TypeInv'
<1> DEFINE c == request[r].call
<1>1. RestOK /\ RequestsOK
  BY TypeInvParts
<1>2. request[r] # Idle
  BY Zenon DEF Handle, At, Create, Load, Save, Find, FindMerged, Attach
<1>3. /\ c \in Calls /\ request[r].at \in Time /\ request[r].target \in Calls
      /\ Notice(r) \in Notification /\ Matched(r)
      /\ records[c] \in Row \cup {NoRow}
  BY <1>1, <1>2, RequestTyped DEF RestOK
<1>4. Exists(c) => records[c] \in Row
  BY <1>3 DEF Exists
<1>5. UNCHANGED <<internal, sent, pending, resent, inTurn, inOrder>>
  BY Zenon DEF Handle, Create, Load, Save, Find, FindMerged, Attach, platform, delivery
<1>6. ASSUME records' \in [Calls -> Row \cup {NoRow}], transfers' \in [Calls -> [Calls -> Nat]],
             RequestsOK'
      PROVE  TypeInv'
  <2>1. RestOK'
    BY <1>1, <1>5, <1>6, Zenon DEF RestOK
  <2>2. QED
    BY <1>6, <2>1, TypeInvParts, PTL
<1>7. records \in [Calls -> Row \cup {NoRow}] /\ transfers \in [Calls -> [Calls -> Nat]]
  BY <1>1 DEF RestOK
<1>8. CASE Create(r)
  <2>1. RingingRow(request[r].at) \in Row
    BY <1>3, NoRowIsNone
  <2>2. records' = [records EXCEPT ![c] = AfterCreate(@, RingingRow(request[r].at))]
        /\ transfers' = transfers
    BY <1>8, Zenon DEF Create
  <2>3. records' \in [Calls -> Row \cup {NoRow}]
    BY <1>3, <1>7, <2>1, <2>2 DEF AfterCreate
  <2>4. ASSUME Handled(r)
       PROVE  RequestsOK'
    BY <1>5, <2>4, HandledStep
  <2>5. ASSUME Notice(r).kind = "ended" /\ GoTo(r, "load")
       PROVE  RequestsOK'
    BY <1>2, <1>3, <1>5, <2>5, GoOnStep DEF GoTo
  <2>6. ASSUME Notice(r).kind = "ended" /\ SaveNext(r, RingingRow(request[r].at))
       PROVE  RequestsOK'
    BY <1>2, <1>3, <1>5, <2>1, <2>6, GoOnStep DEF SaveNext
  <2>7. RequestsOK'
    BY <1>8, <2>4, <2>5, <2>6, Zenon DEF Create
  <2>8. QED
    BY <1>6, <1>7, <2>2, <2>3, <2>7
<1>9. CASE Load(r)
  <2>1. records' = records /\ transfers' = transfers /\ request[r].step = "load"
    BY <1>9, Zenon DEF Load, At
  <2>2. Notice(r).kind \in {"in-progress", "ended"}
    BY <1>2, <1>3, <2>1 DEF Matched
  <2>3. ASSUME Exists(c) /\ SaveNext(r, records[c])
       PROVE  RequestsOK'
    BY <1>2, <1>3, <1>4, <1>5, <2>2, <2>3, GoOnStep DEF SaveNext
  <2>4. ASSUME Handled(r)
       PROVE  RequestsOK'
    BY <1>5, <2>4, HandledStep
  <2>5. ASSUME Notice(r).kind = "ended" /\ GoTo(r, "create")
       PROVE  RequestsOK'
    BY <1>2, <1>3, <1>5, <2>5, GoOnStep DEF GoTo
  <2>6. RequestsOK'
    BY <1>9, <2>3, <2>4, <2>5, Zenon DEF Load
  <2>7. QED
    BY <1>6, <1>7, <2>1, <2>6
<1>10. CASE Save(r)
  <2>1. /\ records' = [records EXCEPT ![c] = Updated(request[r].row, Notice(r), request[r].at)]
        /\ transfers' = transfers /\ Handled(r) /\ request[r].step = "save"
    BY <1>10, Zenon DEF Save, At
  <2>2. request[r].row \in Row /\ Notice(r).kind \in {"in-progress", "ended"}
    BY <1>2, <1>3, <2>1 DEF Matched, TypeInv, TypeOK
  <2>3. Updated(request[r].row, Notice(r), request[r].at) \in Row
    BY <1>3, <2>2, UpdatedIsRow
  <2>4. records' \in [Calls -> Row \cup {NoRow}]
    BY <1>3, <1>7, <2>1, <2>3
  <2>5. QED
    BY <1>5, <1>6, <1>7, <2>1, <2>4, HandledStep
<1>11. CASE Find(r)
  <2>1. records' = records /\ transfers' = transfers /\ request[r].step = "find"
    BY <1>11, Zenon DEF Find, At
  <2>2. Notice(r).kind = "transfer"
    BY <1>2, <1>3, <2>1 DEF Matched
  <2>3. ASSUME AttachNext(r, c)
       PROVE  RequestsOK'
    BY <1>2, <1>3, <1>5, <2>2, <2>3, GoOnStep DEF AttachNext
  <2>4. ASSUME GoTo(r, "findMerged")
       PROVE  RequestsOK'
    BY <1>2, <1>3, <1>5, <2>2, <2>4, GoOnStep DEF GoTo
  <2>5. QED
    <3>1. RequestsOK'
      BY <1>11, <2>3, <2>4, Zenon DEF Find
    <3>2. QED
      BY <1>6, <1>7, <2>1, <3>1
<1>12. CASE FindMerged(r)
  <2>1. records' = records /\ transfers' = transfers /\ request[r].step = "findMerged"
    BY <1>12, Zenon DEF FindMerged, At
  <2>2. Notice(r).kind = "transfer"
    BY <1>2, <1>3, <2>1 DEF Matched
  <2>3. Notice(r).merged \in Calls
    BY <1>3, <2>2, SMT DEF Notification
  <2>4. ASSUME AttachNext(r, Notice(r).merged)
       PROVE  RequestsOK'
    BY <1>2, <1>3, <1>5, <2>2, <2>3, <2>4, GoOnStep DEF AttachNext
  <2>5. ASSUME Handled(r)
       PROVE  RequestsOK'
    BY <1>5, <2>5, HandledStep
  <2>6. QED
    <3>1. RequestsOK'
      BY <1>12, <2>4, <2>5, Zenon DEF FindMerged
    <3>2. QED
      BY <1>6, <1>7, <2>1, <3>1
<1>13. CASE Attach(r)
  <2>1. /\ records' = records /\ Handled(r)
        /\ transfers' = [transfers EXCEPT ![c][request[r].target] = @ + 1]
    BY <1>13, Zenon DEF Attach
  <2>2. transfers' \in [Calls -> [Calls -> Nat]]
    BY <1>3, <1>7, <2>1
  <2>3. QED
    BY <1>5, <1>6, <1>7, <2>1, <2>2, HandledStep
<1>14. QED
  BY <1>8, <1>9, <1>10, <1>11, <1>12, <1>13 DEF Handle

LEMMA TypeInvStep == TypeInv /\ [Next]_vars => TypeInv'
<1>1. SUFFICES ASSUME TypeInv, [Next]_vars PROVE TypeInv'
  OBVIOUS
<1>2. CASE UNCHANGED vars
  BY <1>1, <1>2, Zenon DEF vars, platform, delivery, TypeInv, TypeOK, Matched, Notice
<1>3. CASE Next
  BY <1>1, <1>3, ExchangeTyped, ReceiveTyped, DieTyped, HandleTyped, Zenon DEF Next
<1>4. QED
  BY <1>1, <1>2, <1>3

\* The state of the records, of the requests and of the exchange is always well
\* formed; in particular no handler ever saves a record that it does not hold.
THEOREM TypeCorrect == Spec => []TypeOK
<1>1. TypeInv => TypeOK
  BY DEF TypeInv
<1>2. QED
  BY InitTyped, TypeInvStep, <1>1, PTL DEF Spec
-----------------------------------------------------------------------------
LEMMA TypeInvAlways == Spec => []TypeInv
BY InitTyped, TypeInvStep, PTL DEF Spec

\* The one step that changes records that exist is Save; Create changes only
\* those that do not.
LEMMA RecordsChange ==
    ASSUME TypeInv, Next, NEW c \in Calls, Exists(c)
    PROVE  \/ records'[c] = records[c]
           \/ \E r \in Requests :
                 /\ Save(r) /\ request[r].call = c
                 /\ request[r].row \in Row /\ Notice(r).kind \in {"in-progress", "ended"}
                 /\ records'[c] = Updated(request[r].row, Notice(r), request[r].at)
<1>1. records \in [Calls -> Row \cup {NoRow}]
  BY DEF TypeInv, TypeOK
<1>2. CASE UNCHANGED records
  BY <1>2
<1>3. ASSUME NEW r \in Requests, Create(r) PROVE records'[c] = records[c]
  BY <1>1, <1>3 DEF Create, AfterCreate, Exists
<1>4. ASSUME NEW r \in Requests, Save(r)
      PROVE  \/ records'[c] = records[c]
             \/ /\ request[r].call = c
                /\ request[r].row \in Row /\ Notice(r).kind \in {"in-progress", "ended"}
                /\ records'[c] = Updated(request[r].row, Notice(r), request[r].at)
  <2>1. request[r] # Idle /\ request[r].step = "save"
    BY <1>4, Zenon DEF Save, At
  <2>2. request[r].row \in Row /\ Notice(r).kind \in {"in-progress", "ended"}
    BY <2>1, RequestTyped DEF TypeInv, TypeOK, Matched
  <2>3. records' = [records EXCEPT ![request[r].call] =
                       Updated(request[r].row, Notice(r), request[r].at)]
    BY <1>4, Zenon DEF Save
  <2>4. QED
    BY <1>1, <2>2, <2>3
<1>5. \/ UNCHANGED records
      \/ \E r \in Requests : Create(r) \/ Save(r)
  BY Zenon DEF Next, Exchange, Ring, PickUp, Transfer, HangUp, Notify, Receive, Die,
               Handle, Load, Find, FindMerged, Attach
<1>6. QED
  BY <1>2, <1>3, <1>4, <1>5

\* A call that was picked up or has ended never rings again, whatever the order,
\* the repetition and the concurrency of its notifications.
THEOREM NoCallRingsAgain == Spec => NeverRingsAgain
<1> DEFINE A == \A c \in Calls :
                  Exists(c) /\ records[c].status # "RINGING"
                      => records'[c] # NoRow /\ records'[c].status # "RINGING"
<1>1. TypeInv /\ [Next]_vars => [A]_vars
  <2>1. SUFFICES ASSUME TypeInv, Next PROVE A
    BY DEF vars
  <2>2. SUFFICES ASSUME NEW c \in Calls, Exists(c), records[c].status # "RINGING"
                 PROVE  records'[c] # NoRow /\ records'[c].status # "RINGING"
    OBVIOUS
  <2>3. CASE records'[c] = records[c]
    BY <2>2, <2>3 DEF Exists
  <2>4. ASSUME NEW r \in Requests, Save(r),
               request[r].row \in Row, Notice(r).kind \in {"in-progress", "ended"},
               records'[c] = Updated(request[r].row, Notice(r), request[r].at)
        PROVE  records'[c] # NoRow /\ records'[c].status # "RINGING"
    <3>1. Notice(r) \in Notification /\ request[r].at \in Time
      BY <2>1, <2>4, RequestTyped DEF Save, At
    <3>2. QED
      BY <2>4, <3>1, UpdatedIsRow, NoRowIsNone
  <2>5. QED
    BY <2>1, <2>2, <2>3, <2>4, RecordsChange
<1>2. QED
  BY <1>1, TypeInvAlways, PTL DEF Spec, NeverRingsAgain
-----------------------------------------------------------------------------
On(r, c) == request[r] # Idle /\ request[r].call = c

\* Nothing follows the end of a call.
EndsLast ==
    \A c \in Calls : \A i \in 1 .. Len(sent[c]) :
        sent[c][i].kind = "ended" => i = Len(sent[c])

\* A call that is handled in turn has one request at most.
Alone ==
    \A c \in inTurn : \A q, r \in Requests : On(q, c) /\ On(r, c) => q = r

\* That request, when it is about to save, holds the record as it is.
Fresh ==
    \A r \in Requests :
        request[r] # Idle /\ request[r].step = "save" /\ request[r].call \in inTurn
            => request[r].row = records[request[r].call]

\* The end of a call is waiting to be handled, is being handled, or is recorded.
EndHandled(c) ==
    /\ Ended(c)
    /\ Len(sent[c]) \notin pending[c]
    /\ \A r \in Requests : On(r, c) => request[r].at # Len(sent[c])
EndRecorded(c) == Exists(c) /\ records[c].end = Len(sent[c])
EndAccounted == \A c \in inTurn \ internal : EndHandled(c) => EndRecorded(c)

EndInv == EndsLast /\ Alone /\ Fresh /\ EndAccounted

LEMMA EndInitially == Init => EndInv
<1>1. SUFFICES ASSUME Init PROVE EndInv
  OBVIOUS
<1>2. \A c \in Calls : sent[c] = <<>> /\ Len(sent[c]) = 0
  BY <1>1 DEF Init
<1>3. EndsLast
  BY <1>2 DEF EndsLast
<1>4. Alone /\ Fresh
  BY <1>1 DEF Init, Alone, Fresh, On
<1>5. EndAccounted
  BY <1>1, <1>2, Zenon DEF Init, EndAccounted, EndHandled, Ended
<1>6. QED
  BY <1>3, <1>4, <1>5 DEF EndInv

LEMMA ExchangeKeepsEnd ==
    ASSUME TypeInv, EndInv, NEW c \in Calls, Exchange(c)
    PROVE  EndInv'
<1>1. PICK n \in Notification : Notify(c, n)
  BY ExchangeNotifies
<1>2. /\ Len(sent'[c]) = Len(sent[c]) + 1
      /\ \A d \in Calls : d # c => sent'[d] = sent[d]
      /\ \A d \in Calls : Len(sent[d]) \in Nat
      /\ \A d \in Calls : \A i \in 1 .. Len(sent[d]) : sent'[d][i] = sent[d][i]
      /\ pending' = [pending EXCEPT ![c] = @ \cup {Len(sent'[c])}]
  BY <1>1, NotifyKeeps DEF TypeInv
<1>3. UNCHANGED <<internal, resent, records, transfers, request, inTurn, inOrder>>
  BY <1>1, Zenon DEF Notify
<1>4. EndsLast'
  <2>1. SUFFICES ASSUME NEW d \in Calls, NEW i \in 1 .. Len(sent'[d]),
                        sent'[d][i].kind = "ended"
                 PROVE  i = Len(sent'[d])
    BY DEF EndsLast
  <2>2. CASE d # c
    BY <1>2, <2>1, <2>2 DEF EndInv, EndsLast
  <2>3. CASE d = c /\ i \in 1 .. Len(sent[c])
    <3>1. sent[c][i].kind = "ended" /\ i = Len(sent[c])
      BY <1>2, <2>1, <2>3 DEF EndInv, EndsLast
    <3>2. sent[c] # <<>> /\ Last(c) = "ended"
      <4>1. sent[c] \in Seq(Notification) /\ Len(sent[c]) >= 1
        BY <2>3 DEF TypeInv, TypeOK
      <4>2. sent[c] # <<>>
        BY <4>1
      <4>3. QED
        BY <3>1, <4>2, Zenon DEF Last
    <3>3. QED
      BY <3>2, ExchangeNotifies
  <2>4. QED
    BY <1>2, <2>1, <2>2, <2>3
<1>5. Alone' /\ Fresh'
  BY <1>3, Zenon DEF EndInv, Alone, Fresh, On
<1>6. EndAccounted'
  <2>1. SUFFICES ASSUME NEW d \in inTurn \ internal, EndHandled(d)'
                 PROVE  EndRecorded(d)'
    BY <1>3, Zenon DEF EndAccounted
  <2>2. d \in Calls /\ pending \in [Calls -> SUBSET Time]
    BY DEF TypeInv, TypeOK
  <2>3. d # c
    BY <1>2, <2>1, <2>2 DEF EndHandled
  <2>4. sent'[d] = sent[d] /\ pending'[d] = pending[d]
    BY <1>2, <2>2, <2>3
  <2>5. EndHandled(d)
    BY <1>3, <2>1, <2>4, Zenon DEF EndHandled, Ended, Last, On
  <2>6. QED
    BY <1>3, <2>1, <2>4, <2>5, Zenon DEF EndInv, EndAccounted, EndRecorded, Exists
<1>7. QED
  BY <1>4, <1>5, <1>6 DEF EndInv

LEMMA ReceiveKeepsEnd ==
    ASSUME TypeInv, EndInv, NEW r \in Requests, NEW c \in Calls, Receive(r, c)
    PROVE  EndInv'
<1>1. PICK i \in 1 .. Len(sent[c]) :
        /\ pending' = [pending EXCEPT ![c] = @ \ {i}]
        /\ request' = IF ToInternalNumber(c, i) THEN request
                      ELSE [request EXCEPT ![r] =
                               [step |-> FirstStep(sent[c][i].kind), call |-> c,
                                at |-> i, row |-> NoRow, target |-> c]]
  BY Zenon DEF Receive
<1>2. /\ sent' = sent /\ internal' = internal /\ records' = records
      /\ inTurn' \subseteq inTurn
      /\ c \in inTurn' => ~Busy(c)
      /\ request[r] = Idle
  BY DEF Receive, platform
<1>3. /\ request \in [Requests -> Job \cup {Idle}] /\ pending \in [Calls -> SUBSET Time]
      /\ inTurn \subseteq Calls
  BY DEF TypeInv, TypeOK
<1>4. \A q \in Requests : q # r => request'[q] = request[q]
  BY <1>1, <1>3
<1>5. request'[r] = Idle \/ (/\ request'[r].call = c /\ request'[r].at = i
                            /\ request'[r].step = FirstStep(sent[c][i].kind))
  BY <1>1, <1>2, <1>3
<1>6. c \notin internal => request'[r].call = c /\ request'[r].at = i /\ request'[r] # Idle
  BY <1>1, <1>2, <1>3, SMT DEF ToInternalNumber, Idle
<1>7. sent[c][i].kind \in {"ringing", "in-progress", "ended", "transfer"}
  <2>1. sent[c] \in Seq(Notification)
    BY DEF TypeInv, TypeOK
  <2>2. sent[c][i] \in Notification
    BY <2>1
  <2>3. QED
    BY <2>2, SMT DEF Notification
<1>8. request'[r] # Idle => request'[r].step # "save"
  BY <1>5, <1>7, SMT DEF FirstStep
<1>9. EndsLast'
  BY <1>2, Zenon DEF EndInv, EndsLast
<1>10. Alone'
  <2>1. SUFFICES ASSUME NEW d \in inTurn', NEW p \in Requests, NEW q \in Requests,
                        On(p, d)', On(q, d)', p # q
                 PROVE  FALSE
    BY DEF Alone
  <2>2. CASE p # r /\ q # r
    BY <1>2, <1>4, <2>1, <2>2 DEF EndInv, Alone, On
  <2>3. CASE p = r \/ q = r
    <3>1. d = c
      BY <1>5, <2>1, <2>3 DEF On
    <3>2. \E o \in {p, q} : o # r /\ On(o, c)
      BY <1>4, <2>1, <2>3, <3>1 DEF On
    <3>3. QED
      BY <1>2, <2>1, <3>1, <3>2 DEF Busy, On
  <2>4. QED
    BY <2>2, <2>3
<1>11. Fresh'
  BY <1>2, <1>4, <1>8 DEF EndInv, Fresh
<1>12. EndAccounted'
  <2>1. SUFFICES ASSUME NEW d \in inTurn' \ internal, EndHandled(d)'
                 PROVE  EndRecorded(d)
    BY <1>2, Zenon DEF EndAccounted, EndRecorded, Exists
  <2>2. d \in Calls /\ d \in inTurn \ internal
    BY <1>2, <1>3
  <2>3. Ended(d) /\ Len(sent[d]) \notin pending'[d]
        /\ \A q \in Requests : On(q, d)' => request'[q].at # Len(sent[d])
    BY <1>2, <2>1, Zenon DEF EndHandled, Ended, Last
  <2>4. \A q \in Requests : On(q, d) => request[q].at # Len(sent[d])
    BY <1>2, <1>4, <2>3, Zenon DEF On
  <2>5. Len(sent[d]) \notin pending[d]
    <3>1. CASE d # c
      BY <1>1, <1>3, <2>2, <2>3, <3>1
    <3>2. CASE d = c
      <4>1. i # Len(sent[c])
        BY <1>6, <2>1, <2>3, <3>2 DEF On
      <4>2. QED
        BY <1>1, <1>3, <2>2, <2>3, <3>2, <4>1
    <3>3. QED
      BY <3>1, <3>2
  <2>6. EndHandled(d)
    BY <2>3, <2>4, <2>5 DEF EndHandled
  <2>7. QED
    BY <2>2, <2>6 DEF EndInv, EndAccounted
<1>13. QED
  BY <1>9, <1>10, <1>11, <1>12 DEF EndInv

LEMMA DieKeepsEnd ==
    ASSUME TypeInv, EndInv, NEW r \in Requests, Die(r)
    PROVE  EndInv'
<1> DEFINE c == request[r].call
<1>1. /\ sent' = sent /\ internal' = internal /\ records' = records /\ inTurn' = inTurn
      /\ pending' = [pending EXCEPT ![c] = @ \cup {request[r].at}]
      /\ request' = [request EXCEPT ![r] = Idle] /\ request[r] # Idle
  BY DEF Die, platform
<1>2. /\ request \in [Requests -> Job \cup {Idle}] /\ pending \in [Calls -> SUBSET Time]
      /\ inTurn \subseteq Calls
  BY DEF TypeInv, TypeOK
<1>3. request'[r] = Idle /\ \A q \in Requests : q # r => request'[q] = request[q]
  BY <1>1, <1>2
<1>4. EndsLast' /\ Alone' /\ Fresh'
  <2>1. EndsLast'
    BY <1>1, Zenon DEF EndInv, EndsLast
  <2>2. \A q \in Requests : request'[q] = Idle \/ request'[q] = request[q]
    BY <1>3
  <2>3. Alone'
    BY <1>1, <2>2 DEF EndInv, Alone, On
  <2>4. Fresh'
    BY <1>1, <2>2 DEF EndInv, Fresh
  <2>5. QED
    BY <2>1, <2>3, <2>4
<1>5. EndAccounted'
  <2>1. SUFFICES ASSUME NEW d \in inTurn \ internal, EndHandled(d)'
                 PROVE  EndRecorded(d)
    BY <1>1, Zenon DEF EndAccounted, EndRecorded, Exists
  <2>2. Ended(d) /\ Len(sent[d]) \notin pending'[d]
        /\ \A q \in Requests : On(q, d)' => request'[q].at # Len(sent[d])
    BY <1>1, <2>1, Zenon DEF EndHandled, Ended, Last
  <2>3. Len(sent[d]) \notin pending[d] /\ (On(r, d) => request[r].at # Len(sent[d]))
    BY <1>1, <1>2, <2>2 DEF On
  <2>4. \A q \in Requests : On(q, d) => request[q].at # Len(sent[d])
    BY <1>3, <2>2, <2>3, Zenon DEF On
  <2>5. EndHandled(d)
    BY <2>2, <2>3, <2>4 DEF EndHandled
  <2>6. QED
    BY <2>5 DEF EndInv, EndAccounted
<1>6. QED
  BY <1>4, <1>5 DEF EndInv

\* What the steps of a handler have in common, for the end of its call.
LEMMA HandleFacts ==
    ASSUME TypeInv, NEW r \in Requests, Handle(r)
    PROVE  /\ UNCHANGED <<internal, sent, pending, inTurn>>
           /\ request[r] # Idle
           /\ \A q \in Requests : q # r => request'[q] = request[q]
           /\ \/ request'[r] = Idle
              \/ /\ request'[r].call = request[r].call
                 /\ request'[r].at = request[r].at
           /\ request'[r] # Idle /\ request'[r].step = "save"
                => request'[r].row = records'[request[r].call]
           /\ request'[r] = Idle => Save(r) \/ Notice(r).kind # "ended"
           /\ \A d \in Calls : d # request[r].call => records'[d] = records[d]
<1> DEFINE c == request[r].call
<1>1. UNCHANGED <<internal, sent, pending, inTurn>>
  BY Zenon DEF Handle, Create, Load, Save, Find, FindMerged, Attach, platform, delivery
<1>2. request[r] # Idle
  BY Zenon DEF Handle, At, Create, Load, Save, Find, FindMerged, Attach
<1>3. /\ request \in [Requests -> Job \cup {Idle}] /\ records \in [Calls -> Row \cup {NoRow}]
      /\ c \in Calls /\ Matched(r)
  BY <1>2, RequestTyped DEF TypeInv, TypeOK
<1>4. \/ Handled(r)
      \/ \E step \in Step, row \in Row \cup {NoRow}, target \in Calls : GoOn(r, step, row, target)
  <2>1. RingingRow(request[r].at) \in Row /\ request[r].target \in Calls
    BY <1>2, RequestTyped, NoRowIsNone
  <2>2. Notice(r).kind = "transfer" => Notice(r).merged \in Calls
    <3>1. Notice(r) \in Notification
      BY <1>2, RequestTyped
    <3>2. QED
      BY <3>1, SMT DEF Notification
  <2>3. request[r].step = "findMerged" => Notice(r).merged \in Calls
    BY <1>2, <1>3, <2>2 DEF Matched
  <2>4. CASE Create(r)
    BY <2>1, <2>4 DEF Create, GoTo, SaveNext
  <2>5. CASE Load(r)
    BY <1>3, <2>1, <2>5 DEF Load, GoTo, SaveNext
  <2>6. CASE Save(r) \/ Attach(r)
    BY <2>6, Zenon DEF Save, Attach
  <2>7. CASE Find(r)
    BY <1>3, <2>1, <2>7 DEF Find, GoTo, AttachNext
  <2>8. CASE FindMerged(r)
    BY <2>1, <2>3, <2>8 DEF FindMerged, At, AttachNext
  <2>9. QED
    BY <2>4, <2>5, <2>6, <2>7, <2>8 DEF Handle
<1>5. \A q \in Requests : q # r => request'[q] = request[q]
  BY <1>3, <1>4, SMT DEF GoOn, Handled
<1>6. \/ request'[r] = Idle
      \/ /\ request'[r].call = request[r].call
         /\ request'[r].at = request[r].at
  BY <1>3, <1>4, SMT DEF GoOn, Handled
<1>7. request'[r] # Idle /\ request'[r].step = "save"
        => request'[r].row = records'[request[r].call]
  <2>1. CASE Create(r)
    <3>1. records'[c] = AfterCreate(records[c], RingingRow(request[r].at))
      BY <1>3, <2>1 DEF Create
    <3>2. \/ Handled(r) \/ GoTo(r, "load")
          \/ ~Exists(c) /\ SaveNext(r, RingingRow(request[r].at))
      BY <2>1, Zenon DEF Create
    <3>3. CASE Handled(r) \/ GoTo(r, "load")
      BY <1>3, <3>3, SMT DEF Handled, GoTo, GoOn
    <3>4. CASE ~Exists(c) /\ SaveNext(r, RingingRow(request[r].at))
      <4>1. request'[r].row = RingingRow(request[r].at)
        BY <1>3, <3>4, SMT DEF SaveNext, GoOn
      <4>2. QED
        BY <3>1, <3>4, <4>1, Zenon DEF AfterCreate, Exists
    <3>5. QED
      BY <3>2, <3>3, <3>4
  <2>2. CASE Load(r)
    <3>1. records' = records
      BY <2>2, Zenon DEF Load
    <3>2. Handled(r) \/ GoTo(r, "create") \/ SaveNext(r, records[c])
      BY <2>2, Zenon DEF Load
    <3>3. QED
      BY <1>3, <3>1, <3>2, SMT DEF Handled, GoTo, SaveNext, GoOn
  <2>3. CASE Save(r) \/ Attach(r)
    BY <1>3, <2>3, SMT DEF Save, Attach, Handled
  <2>4. CASE Find(r) \/ FindMerged(r)
    <3>1. Handled(r) \/ GoTo(r, "findMerged") \/ \E t \in Calls \cup {Notice(r).merged} : AttachNext(r, t)
      BY <1>3, <2>4, Zenon DEF Find, FindMerged
    <3>2. QED
      BY <1>3, <3>1, SMT DEF Handled, GoTo, AttachNext, GoOn
  <2>5. QED
    BY <2>1, <2>2, <2>3, <2>4 DEF Handle
<1>8. request'[r] = Idle => Save(r) \/ Notice(r).kind # "ended"
  <2>1. ASSUME NEW step \in Step, NEW row, NEW target, GoOn(r, step, row, target)
        PROVE  request'[r] # Idle
    BY <1>3, <2>1, SMT DEF GoOn, Idle
  <2>2. CASE Create(r)
    BY <2>1, <2>2 DEF Create, GoTo, SaveNext
  <2>3. CASE Load(r)
    BY <2>1, <2>3 DEF Load, GoTo, SaveNext
  <2>4. CASE Find(r) \/ FindMerged(r) \/ Attach(r)
    BY <1>2, <1>3, <2>4, SMT DEF Find, FindMerged, Attach, At, Matched
  <2>5. QED
    BY <2>2, <2>3, <2>4 DEF Handle
<1>9. \A d \in Calls : d # c => records'[d] = records[d]
  BY <1>3, SMT DEF Handle, Create, Load, Save, Find, FindMerged, Attach
<1>10. QED
  BY <1>1, <1>2, <1>5, <1>6, <1>7, <1>8, <1>9

LEMMA HandleKeepsEnd ==
    ASSUME TypeInv, EndInv, NEW r \in Requests, Handle(r)
    PROVE  EndInv'
<1> DEFINE c == request[r].call
<1>1. /\ sent' = sent /\ internal' = internal /\ pending' = pending /\ inTurn' = inTurn
      /\ request[r] # Idle
      /\ \A q \in Requests : q # r => request'[q] = request[q]
      /\ \/ request'[r] = Idle
         \/ request'[r].call = c /\ request'[r].at = request[r].at
      /\ request'[r] # Idle /\ request'[r].step = "save" => request'[r].row = records'[c]
      /\ request'[r] = Idle => Save(r) \/ Notice(r).kind # "ended"
      /\ \A d \in Calls : d # c => records'[d] = records[d]
  BY HandleFacts
<1>2. /\ c \in Calls /\ request[r].at \in Time /\ Notice(r) \in Notification
      /\ request[r].at \in 1 .. Len(sent[c])
  BY <1>1, RequestTyped
<1>3. \A q \in Requests : request[q] # Idle => request[q].call \in Calls
  BY RequestTyped
<1>4. inTurn \subseteq Calls
  BY DEF TypeInv, TypeOK
<1>5. EndsLast'
  BY <1>1, Zenon DEF EndInv, EndsLast
<1>6. \A q \in Requests, d \in Calls : On(q, d)' => On(q, d)
  BY <1>1 DEF On
<1>7. Alone'
  BY <1>1, <1>4, <1>6 DEF EndInv, Alone
<1>8. Fresh'
  <2>1. SUFFICES ASSUME NEW q \in Requests, request'[q] # Idle, request'[q].step = "save",
                        request'[q].call \in inTurn
                 PROVE  request'[q].row = records'[request'[q].call]
    BY <1>1 DEF Fresh
  <2>2. CASE q = r
    BY <1>1, <2>1, <2>2
  <2>3. CASE q # r
    <3>1. request'[q] = request[q]
      BY <1>1, <2>3
    <3>2. request[q].call # c
      BY <1>1, <2>1, <2>3, <3>1 DEF EndInv, Alone, On
    <3>3. records'[request[q].call] = records[request[q].call]
      BY <1>1, <1>3, <2>1, <3>1, <3>2
    <3>4. QED
      BY <2>1, <3>1, <3>3 DEF EndInv, Fresh
  <2>4. QED
    BY <2>2, <2>3
<1>9. EndAccounted'
  <2>1. SUFFICES ASSUME NEW d \in inTurn \ internal, EndHandled(d)'
                 PROVE  EndRecorded(d)'
    BY <1>1, Zenon DEF EndAccounted
  <2>2. d \in Calls
    BY <1>4
  <2>3. Ended(d) /\ Len(sent[d]) \notin pending[d]
        /\ \A q \in Requests : On(q, d)' => request'[q].at # Len(sent[d])
    BY <1>1, <2>1, Zenon DEF EndHandled, Ended, Last
  <2>4. \A q \in Requests : q # r /\ On(q, d) => request[q].at # Len(sent[d])
    BY <1>1, <2>3 DEF On
  <2>5. CASE On(r, d) /\ request[r].at = Len(sent[d])
    <3>1. d = c
      BY <2>5 DEF On
    <3>2. Notice(r).kind = "ended"
      BY <2>3, <2>5, <3>1 DEF Ended, Last, Notice
    <3>3. request'[r] = Idle
      BY <1>1, <2>3, <2>5, <3>1, SMT DEF On
    <3>4. Save(r)
      BY <1>1, <3>2, <3>3
    <3>5. request[r].row \in Row /\ request[r].step = "save"
      BY <1>1, <3>4, Zenon DEF Save, At, TypeInv, TypeOK
    <3>6. records' = [records EXCEPT ![c] = Updated(request[r].row, Notice(r), request[r].at)]
          /\ records \in [Calls -> Row \cup {NoRow}]
      BY <3>4, Zenon DEF Save, TypeInv, TypeOK
    <3>7. records'[c] = Updated(request[r].row, Notice(r), request[r].at)
      BY <1>2, <3>6
    <3>8. records'[c] \in Row /\ records'[c].end = request[r].at
      BY <1>2, <3>2, <3>5, <3>7, UpdatedIsRow
    <3>9. QED
      BY <1>1, <2>5, <3>1, <3>8, NoRowIsNone DEF EndRecorded, Exists
  <2>6. CASE ~(On(r, d) /\ request[r].at = Len(sent[d]))
    <3>1. EndHandled(d)
      BY <2>3, <2>4, <2>6 DEF EndHandled
    <3>2. EndRecorded(d)
      BY <3>1 DEF EndInv, EndAccounted
    <3>3. Exists(d)
      BY <3>2 DEF EndRecorded
    <3>4. CASE records'[d] = records[d]
      BY <1>1, <3>2, <3>4 DEF EndRecorded, Exists
    <3>5. ASSUME NEW q \in Requests, Save(q), request[q].call = d, request[q].row \in Row,
                 Notice(q).kind \in {"in-progress", "ended"},
                 records'[d] = Updated(request[q].row, Notice(q), request[q].at)
          PROVE  EndRecorded(d)'
      <4>1. request[q] # Idle /\ request[q].step = "save" /\ Handled(q)
        BY <3>5, Zenon DEF Save, At
      <4>2. Notice(q) \in Notification /\ request[q].at \in Time
            /\ request[q].at \in 1 .. Len(sent[d])
        BY <3>5, <4>1, RequestTyped
      <4>3. request[q].row = records[d]
        BY <3>5, <4>1 DEF EndInv, Fresh
      <4>4. Notice(q).kind = "ended" => request[q].at = Len(sent[d])
        BY <2>2, <3>5, <4>2 DEF EndInv, EndsLast, Notice
      <4>5. records'[d] \in Row /\ records'[d].end = Len(sent[d])
        BY <3>2, <3>5, <4>2, <4>3, <4>4, UpdatedIsRow DEF EndRecorded
      <4>6. QED
        BY <1>1, <4>5, NoRowIsNone DEF EndRecorded, Exists
    <3>6. Next
      BY Zenon DEF Next
    <3>7. QED
      BY <2>2, <3>3, <3>4, <3>5, <3>6, RecordsChange
  <2>7. QED
    BY <2>5, <2>6
<1>10. QED
  BY <1>5, <1>7, <1>8, <1>9 DEF EndInv

LEMMA EndInvStep == TypeInv /\ EndInv /\ [Next]_vars => EndInv'
<1>1. SUFFICES ASSUME TypeInv, EndInv, [Next]_vars PROVE EndInv'
  OBVIOUS
<1>2. CASE UNCHANGED vars
  <2>1. /\ internal' = internal /\ sent' = sent /\ pending' = pending /\ records' = records
        /\ request' = request /\ inTurn' = inTurn
    BY <1>2, Zenon DEF vars, platform, delivery
  <2>2. EndsLast' /\ Alone' /\ Fresh'
    BY <1>1, <2>1, Zenon DEF EndInv, EndsLast, Alone, Fresh, On
  <2>3. EndAccounted'
    BY <1>1, <2>1, Zenon DEF EndInv, EndAccounted, EndHandled, EndRecorded, Ended,
                             Last, Exists, On
  <2>4. QED
    BY <2>2, <2>3 DEF EndInv
<1>3. CASE Next
  BY <1>1, <1>3, ExchangeKeepsEnd, ReceiveKeepsEnd, DieKeepsEnd, HandleKeepsEnd,
     Zenon DEF Next
<1>4. QED
  BY <1>1, <1>2, <1>3

\* Once the end of a call has been handled its record has the end time, provided
\* that no two notifications of this call were handled at the same time: in
\* whatever order they came, and whatever was delivered twice.
THEOREM EndStays == Spec => []EndIsKnown
<1>1. TypeInv /\ EndInv => EndIsKnown
  <2>1. SUFFICES ASSUME TypeInv, EndInv, NEW c \in Calls \ internal,
                        Ended(c), Len(sent[c]) \notin pending[c], c \in inTurn, ~Busy(c)
                 PROVE  Exists(c) /\ records[c].end = Len(sent[c])
    BY DEF EndIsKnown
  <2>2. EndHandled(c)
    BY <2>1 DEF EndHandled, Busy, On
  <2>3. QED
    BY <2>1, <2>2 DEF EndInv, EndAccounted, EndRecorded
<1>2. QED
  BY InitTyped, TypeInvStep, EndInitially, EndInvStep, <1>1, PTL DEF Spec
-----------------------------------------------------------------------------
(* What a call's record says, notification by notification.                *)

Followed == (inTurn \cap inOrder) \ internal

EndedTo(c, j) == \E i \in 1 .. j : sent[c][i].kind = "ended"
PickUpsTo(c, j) == {i \in 1 .. j : sent[c][i].kind = "in-progress"}
TransfersTo(c, j) == {i \in 1 .. j : sent[c][i].kind = "transfer"}

\* The destination of the last pick-up among the first j notifications.
ReachedTo(destination, c, j) ==
    \/ PickUpsTo(c, j) = {} /\ destination = Nobody
    \/ \E i \in PickUpsTo(c, j) :
        /\ \A k \in PickUpsTo(c, j) : k <= i
        /\ destination = sent[c][i].destination

\* This row is the summary of the first j notifications, of which there is one.
Describes(row, c, j) ==
    /\ row = [status |-> IF EndedTo(c, j) THEN "ENDED"
                         ELSE IF PickUpsTo(c, j) # {} THEN "IN_PROGRESS"
                         ELSE "RINGING",
              start |-> 1,
              end |-> IF EndedTo(c, j) THEN j ELSE NoTime,
              destination |-> row.destination]
    /\ ReachedTo(row.destination, c, j)

\* The first j notifications of a call are handled, the next one perhaps is being
\* handled, and the others wait.
HandledTo(c, j) ==
    \/ /\ \A r \in Requests : ~On(r, c)
       /\ pending[c] = j + 1 .. Len(sent[c])
    \/ /\ \E r \in Requests : On(r, c) /\ request[r].at = j + 1
       /\ pending[c] = j + 2 .. Len(sent[c])

\* A call that ends at once has its record created as if it rang.
Begun(c) ==
    /\ Len(sent[c]) >= 1 /\ sent[c][1].kind = "ended"
    /\ records[c] = RingingRow(1)

WrittenTo(c, j) ==
    /\ j = 0 => records[c] = NoRow \/ Begun(c)
    /\ j # 0 => records[c] \in Row /\ Describes(records[c], c, j)
    /\ \A d \in Calls : transfers[c][d] =
         IF d = c THEN Cardinality(TransfersTo(c, j)) ELSE 0

Starts ==
    \A c \in Calls : Len(sent[c]) >= 1 => sent[c][1].kind \in {"ringing", "ended"}

\* The record of a call that is followed is there when it is transferred.
OwnTransfers ==
    \A r \in Requests : request[r] # Idle /\ request[r].call \in Followed =>
        /\ request[r].step # "findMerged"
        /\ request[r].step = "attach" => request[r].target = request[r].call

WrittenInOrder ==
    \A c \in Followed : \E j \in 0 .. Len(sent[c]) : HandledTo(c, j) /\ WrittenTo(c, j)

RecordInv == Starts /\ OwnTransfers /\ WrittenInOrder


LEMMA PrefixFacts ==
    ASSUME NEW c, NEW j \in Nat
    PROVE  /\ PickUpsTo(c, j) \subseteq 1 .. j
           /\ TransfersTo(c, j) \subseteq 1 .. j
           /\ IsFiniteSet(TransfersTo(c, j))
           /\ Cardinality(TransfersTo(c, j)) \in Nat
<1>1. PickUpsTo(c, j) \subseteq 1 .. j /\ TransfersTo(c, j) \subseteq 1 .. j
  BY DEF PickUpsTo, TransfersTo
<1>2. IsFiniteSet(1 .. j)
  BY FS_Interval
<1>3. QED
  BY <1>1, <1>2, FS_Subset, FS_CardinalityType

\* One notification more.
LEMMA PrefixGrows ==
    ASSUME NEW c, NEW j \in Nat
    PROVE  /\ EndedTo(c, j + 1) <=> EndedTo(c, j) \/ sent[c][j + 1].kind = "ended"
           /\ PickUpsTo(c, j + 1) = IF sent[c][j + 1].kind = "in-progress"
                                    THEN PickUpsTo(c, j) \cup {j + 1}
                                    ELSE PickUpsTo(c, j)
           /\ Cardinality(TransfersTo(c, j + 1)) =
                IF sent[c][j + 1].kind = "transfer"
                THEN Cardinality(TransfersTo(c, j)) + 1
                ELSE Cardinality(TransfersTo(c, j))
<1>1. 1 .. j + 1 = (1 .. j) \cup {j + 1}
  OBVIOUS
<1>2. EndedTo(c, j + 1) <=> EndedTo(c, j) \/ sent[c][j + 1].kind = "ended"
  BY <1>1, Zenon DEF EndedTo
<1>3. PickUpsTo(c, j + 1) = IF sent[c][j + 1].kind = "in-progress"
                            THEN PickUpsTo(c, j) \cup {j + 1} ELSE PickUpsTo(c, j)
  BY <1>1 DEF PickUpsTo
<1>4. TransfersTo(c, j + 1) = IF sent[c][j + 1].kind = "transfer"
                              THEN TransfersTo(c, j) \cup {j + 1} ELSE TransfersTo(c, j)
  BY <1>1 DEF TransfersTo
<1>5. j + 1 \notin TransfersTo(c, j)
  BY DEF TransfersTo
<1>6. QED
  BY <1>2, <1>3, <1>4, <1>5, PrefixFacts, FS_AddElement

\* The row of the first notification.
LEMMA FirstDescribed ==
    ASSUME TypeInv, NEW c \in Calls, Len(sent[c]) >= 1, NEW row
    PROVE  /\ sent[c][1].kind = "ringing" /\ row = RingingRow(1) => Describes(row, c, 1)
           /\ sent[c][1].kind = "ended" /\ row = Updated(RingingRow(1), sent[c][1], 1)
                => Describes(row, c, 1)
<1>1. EndedTo(c, 1) <=> sent[c][1].kind = "ended"
  BY DEF EndedTo
<1>2. sent[c][1].kind # "in-progress" => PickUpsTo(c, 1) = {}
  BY DEF PickUpsTo
<1>3. ASSUME sent[c][1].kind = "ringing", row = RingingRow(1)
      PROVE  Describes(row, c, 1)
  BY <1>1, <1>2, <1>3 DEF Describes, ReachedTo, RingingRow
<1>4. ASSUME sent[c][1].kind = "ended", row = Updated(RingingRow(1), sent[c][1], 1)
      PROVE  Describes(row, c, 1)
  <2>1. row = [status |-> "ENDED", start |-> 1, end |-> 1, destination |-> Nobody]
    BY <1>4, SMT DEF Updated, RingingRow
  <2>2. QED
    BY <1>1, <1>2, <1>4, <2>1 DEF Describes, ReachedTo
<1>5. QED
  BY <1>3, <1>4

\* The row of one notification more, of a call that has not ended.
LEMMA NextDescribed ==
    ASSUME NEW c, NEW j \in Nat \ {0}, ~EndedTo(c, j),
           NEW row, Describes(row, c, j), NEW new
    PROVE  /\ sent[c][j + 1].kind \in {"ringing", "transfer"} /\ new = row
                => Describes(new, c, j + 1)
           /\ sent[c][j + 1].kind \in {"in-progress", "ended"}
                /\ new = Updated(row, sent[c][j + 1], j + 1)
                => Describes(new, c, j + 1)
<1> DEFINE n == sent[c][j + 1]
<1>0. /\ EndedTo(c, j + 1) <=> n.kind = "ended"
      /\ PickUpsTo(c, j + 1) = IF n.kind = "in-progress"
                               THEN PickUpsTo(c, j) \cup {j + 1} ELSE PickUpsTo(c, j)
      /\ PickUpsTo(c, j) \subseteq 1 .. j
  BY PrefixGrows, PrefixFacts
<1>1. /\ row.start = 1 /\ row.end = NoTime /\ ReachedTo(row.destination, c, j)
      /\ row.status = IF PickUpsTo(c, j) # {} THEN "IN_PROGRESS" ELSE "RINGING"
      /\ row = [status |-> row.status, start |-> 1, end |-> NoTime,
                destination |-> row.destination]
  BY DEF Describes
<1>2. n.kind # "in-progress" => ReachedTo(row.destination, c, j + 1)
  BY <1>0, <1>1 DEF ReachedTo
<1>3. ASSUME n.kind \in {"ringing", "transfer"}, new = row
      PROVE  Describes(new, c, j + 1)
  BY <1>0, <1>1, <1>2, <1>3, Zenon DEF Describes
<1>4. ASSUME n.kind = "ended", new = Updated(row, n, j + 1)
      PROVE  Describes(new, c, j + 1)
  <2>1. new = [status |-> "ENDED", start |-> 1, end |-> j + 1,
               destination |-> row.destination]
    BY <1>1, <1>4, SMT DEF Updated
  <2>2. QED
    BY <1>0, <1>2, <1>4, <2>1 DEF Describes
<1>5. ASSUME n.kind = "in-progress", new = Updated(row, n, j + 1)
      PROVE  Describes(new, c, j + 1)
  <2>1. new = [status |-> "IN_PROGRESS", start |-> 1, end |-> NoTime,
               destination |-> n.destination]
    BY <1>1, <1>5, SMT DEF Updated
  <2>2. /\ j + 1 \in PickUpsTo(c, j + 1)
        /\ \A k \in PickUpsTo(c, j + 1) : k <= j + 1
    BY <1>0, <1>5
  <2>3. ReachedTo(new.destination, c, j + 1)
    BY <2>1, <2>2 DEF ReachedTo
  <2>4. QED
    BY <1>0, <1>5, <2>1, <2>2, <2>3 DEF Describes
<1>6. QED
  BY <1>3, <1>4, <1>5

\* What does not concern a call leaves what is written of it.
LEMMA WrittenStays ==
    ASSUME NEW c \in Calls, NEW j \in Nat, WrittenTo(c, j),
           Len(sent[c]) \in Nat, j <= Len(sent[c]), Len(sent[c]) <= Len(sent'[c]),
           Len(sent'[c]) \in Nat,
           \A i \in 1 .. Len(sent[c]) : sent'[c][i] = sent[c][i],
           records'[c] = records[c], transfers'[c] = transfers[c]
    PROVE  WrittenTo(c, j)'
<1>1. EndedTo(c, j)' <=> EndedTo(c, j)
  BY DEF EndedTo
<1>2. PickUpsTo(c, j)' = PickUpsTo(c, j) /\ PickUpsTo(c, j) \subseteq 1 .. Len(sent[c])
  BY DEF PickUpsTo
<1>3. TransfersTo(c, j)' = TransfersTo(c, j)
  BY DEF TransfersTo
<1>4. Begun(c) => Begun(c)'
  BY DEF Begun
<1>5. ASSUME j # 0
      PROVE  Describes(records[c], c, j)'
  BY <1>1, <1>2, <1>5 DEF WrittenTo, Describes, ReachedTo
<1>6. QED
  BY <1>3, <1>4, <1>5 DEF WrittenTo

LEMMA HandledStays ==
    ASSUME NEW c \in Calls, NEW j \in Nat, HandledTo(c, j),
           sent' = sent, pending'[c] = pending[c],
           \A q \in Requests : On(q, c)' <=> On(q, c),
           \A q \in Requests : On(q, c) => request'[q].at = request[q].at
    PROVE  HandledTo(c, j)'
BY Zenon DEF HandledTo

LEMMA RecordInitially == Init => RecordInv
<1>1. SUFFICES ASSUME Init PROVE RecordInv
  OBVIOUS
<1>2. \A c \in Calls : sent[c] = <<>> /\ Len(sent[c]) = 0
  BY <1>1 DEF Init
<1>3. Starts
  BY <1>2 DEF Starts
<1>4. OwnTransfers
  BY <1>1 DEF Init, OwnTransfers
<1>5. ASSUME NEW c \in Followed
      PROVE  HandledTo(c, 0) /\ WrittenTo(c, 0)
  <2>1. c \in Calls
    BY <1>1, <1>5 DEF Init, Followed
  <2>2. pending[c] = {} /\ records[c] = NoRow /\ \A d \in Calls : transfers[c][d] = 0
    BY <1>1, <2>1 DEF Init
  <2>3. \A r \in Requests : ~On(r, c)
    BY <1>1 DEF Init, On
  <2>4. 1 .. 0 = {} /\ TransfersTo(c, 0) = {}
    BY DEF TransfersTo
  <2>5. HandledTo(c, 0)
    BY <1>2, <2>1, <2>2, <2>3 DEF HandledTo
  <2>6. WrittenTo(c, 0)
    BY <2>2, <2>4, FS_EmptySet DEF WrittenTo
  <2>7. QED
    BY <2>5, <2>6
<1>6. WrittenInOrder
  <2>1. \A c \in Followed : 0 \in 0 .. Len(sent[c])
    BY <1>1, <1>2 DEF Init, Followed
  <2>2. QED
    BY <1>5, <2>1 DEF WrittenInOrder
<1>7. QED
  BY <1>3, <1>4, <1>6 DEF RecordInv

LEMMA ExchangeKeepsRecord ==
    ASSUME TypeInv, RecordInv, NEW c \in Calls, Exchange(c)
    PROVE  RecordInv'
<1>1. PICK n \in Notification :
        /\ Notify(c, n)
        /\ sent[c] = <<>> => n.kind \in {"ringing", "ended"}
  <2>1. CASE Ring(c)
    BY <2>1 DEF Ring, Notification
  <2>2. CASE PickUp(c)
    BY <2>2 DEF PickUp, Last, Notification
  <2>3. CASE Transfer(c)
    BY <2>3 DEF Transfer, Last, Notification
  <2>4. CASE HangUp(c)
    BY <2>4 DEF HangUp, Notification
  <2>5. QED
    BY <2>1, <2>2, <2>3, <2>4 DEF Exchange
<1>2. /\ Len(sent'[c]) = Len(sent[c]) + 1 /\ sent'[c][Len(sent'[c])] = n
      /\ \A d \in Calls : d # c => sent'[d] = sent[d]
      /\ \A d \in Calls : Len(sent[d]) \in Nat
      /\ \A d \in Calls : \A i \in 1 .. Len(sent[d]) : sent'[d][i] = sent[d][i]
      /\ pending' = [pending EXCEPT ![c] = @ \cup {Len(sent'[c])}]
  BY <1>1, NotifyKeeps DEF TypeInv
<1>3. UNCHANGED <<internal, records, transfers, request, inTurn, inOrder>>
  BY <1>1, Zenon DEF Notify
<1>4. Starts'
  <2>1. SUFFICES ASSUME NEW d \in Calls, Len(sent'[d]) >= 1
                 PROVE  sent'[d][1].kind \in {"ringing", "ended"}
    BY DEF Starts
  <2>2. CASE Len(sent[d]) >= 1
    BY <1>2, <2>2 DEF RecordInv, Starts
  <2>3. CASE Len(sent[d]) < 1
    <3>1. d = c /\ Len(sent[c]) = 0
      BY <1>2, <2>1, <2>3
    <3>2. sent[c] = <<>>
      <4>1. sent[c] \in Seq(Notification)
        BY DEF TypeInv, TypeOK
      <4>2. QED
        BY <3>1, <4>1
    <3>3. QED
      BY <1>1, <1>2, <3>1, <3>2
  <2>4. QED
    BY <1>2, <2>2, <2>3
<1>5. OwnTransfers'
  BY <1>3, Zenon DEF RecordInv, OwnTransfers, Followed
<1>6. WrittenInOrder'
  <2>1. SUFFICES ASSUME NEW d \in Followed
                 PROVE  \E j \in 0 .. Len(sent'[d]) : HandledTo(d, j)' /\ WrittenTo(d, j)'
    BY <1>3, Zenon DEF WrittenInOrder, Followed
  <2>2. d \in Calls
    BY DEF TypeInv, TypeOK, Followed
  <2>3. PICK j \in 0 .. Len(sent[d]) : HandledTo(d, j) /\ WrittenTo(d, j)
    BY DEF RecordInv, WrittenInOrder
  <2>4. j \in Nat /\ Len(sent[d]) \in Nat /\ Len(sent'[d]) \in Nat
        /\ Len(sent[d]) <= Len(sent'[d]) /\ j <= Len(sent[d])
    BY <1>2, <2>2, <2>3
  <2>5. WrittenTo(d, j)'
    BY <1>2, <1>3, <2>2, <2>3, <2>4, WrittenStays
  <2>6. HandledTo(d, j)'
    <3>1. CASE d # c
      <4>1. sent'[d] = sent[d] /\ pending'[d] = pending[d]
        BY <1>2, <2>2, <3>1 DEF TypeInv, TypeOK
      <4>2. QED
        BY <1>3, <2>3, <4>1, Zenon DEF HandledTo, On
    <3>2. CASE d = c
      <4>1. /\ pending'[c] = pending[c] \cup {Len(sent[c]) + 1}
            /\ Len(sent'[c]) = Len(sent[c]) + 1
        BY <1>2 DEF TypeInv, TypeOK
      <4>2. CASE \A r \in Requests : ~On(r, c)
        <5>1. pending[c] = j + 1 .. Len(sent[c])
          BY <2>3, <3>2, <4>2 DEF HandledTo
        <5>2. pending'[c] = j + 1 .. Len(sent'[c])
          BY <2>4, <3>2, <4>1, <5>1
        <5>3. \A r \in Requests : ~On(r, c)'
          BY <1>3, <4>2, Zenon DEF On
        <5>4. QED
          BY <3>2, <5>2, <5>3, Zenon DEF HandledTo
      <4>3. CASE \E r \in Requests : On(r, c)
        <5>1. /\ \E r \in Requests : On(r, c) /\ request[r].at = j + 1
              /\ pending[c] = j + 2 .. Len(sent[c])
          BY <2>3, <3>2, <4>3 DEF HandledTo
        <5>2. j + 1 <= Len(sent[c])
          BY <5>1, RequestTyped DEF On
        <5>3. pending'[c] = j + 2 .. Len(sent'[c])
          BY <2>4, <3>2, <4>1, <5>1, <5>2
        <5>4. \E r \in Requests : On(r, c)' /\ request'[r].at = j + 1
          BY <1>3, <5>1, Zenon DEF On
        <5>5. QED
          BY <3>2, <5>3, <5>4, Zenon DEF HandledTo
      <4>4. QED
        BY <4>2, <4>3
    <3>3. QED
      BY <3>1, <3>2
  <2>7. QED
    BY <2>4, <2>5, <2>6
<1>7. QED
  BY <1>4, <1>5, <1>6 DEF RecordInv

LEMMA ReceiveKeepsRecord ==
    ASSUME TypeInv, RecordInv, NEW r \in Requests, NEW c \in Calls, Receive(r, c)
    PROVE  RecordInv'
<1>1. PICK i \in 1 .. Len(sent[c]) :
        /\ pending' = [pending EXCEPT ![c] = @ \ {i}]
        /\ inOrder' = IF NextInOrder(c, i) THEN inOrder ELSE inOrder \ {c}
        /\ request' = IF ToInternalNumber(c, i) THEN request
                      ELSE [request EXCEPT ![r] =
                               [step |-> FirstStep(sent[c][i].kind), call |-> c,
                                at |-> i, row |-> NoRow, target |-> c]]
  BY Zenon DEF Receive
<1>2. /\ sent' = sent /\ internal' = internal /\ records' = records
      /\ transfers' = transfers
      /\ inTurn' \subseteq inTurn
      /\ c \in inTurn' => ~Busy(c)
      /\ request[r] = Idle
  BY DEF Receive, platform
<1>3. /\ request \in [Requests -> Job \cup {Idle}] /\ pending \in [Calls -> SUBSET Time]
      /\ inTurn \subseteq Calls
  BY DEF TypeInv, TypeOK
<1>4. inOrder' \subseteq inOrder /\ (c \in inOrder' => NextInOrder(c, i))
  BY <1>1
<1>5. Followed' \subseteq Followed /\ Followed' \subseteq Calls
  BY <1>2, <1>3, <1>4 DEF Followed
<1>6. \A q \in Requests : q # r => request'[q] = request[q]
  BY <1>1, <1>3
<1>7. request'[r] = Idle \/ (/\ request'[r].call = c
                            /\ request'[r].step = FirstStep(sent[c][i].kind))
  BY <1>1, <1>2, <1>3
<1>8. c \notin internal => request'[r].call = c /\ request'[r].at = i /\ request'[r] # Idle
  BY <1>1, <1>2, <1>3, SMT DEF ToInternalNumber, Idle
<1>9. Starts'
  BY <1>2, Zenon DEF RecordInv, Starts
<1>10. OwnTransfers'
  <2>1. sent[c][i].kind \in {"ringing", "in-progress", "ended", "transfer"}
    <3>1. sent[c] \in Seq(Notification)
      BY DEF TypeInv, TypeOK
    <3>2. sent[c][i] \in Notification
      BY <3>1
    <3>3. QED
      BY <3>2, SMT DEF Notification
  <2>2. FirstStep(sent[c][i].kind) \in {"create", "load", "find"}
    BY <2>1, SMT DEF FirstStep
  <2>3. QED
    BY <1>5, <1>6, <1>7, <2>2 DEF RecordInv, OwnTransfers
<1>11. WrittenInOrder'
  <2>1. SUFFICES ASSUME NEW d \in Followed'
                 PROVE  \E j \in 0 .. Len(sent'[d]) : HandledTo(d, j)' /\ WrittenTo(d, j)'
    BY DEF WrittenInOrder
  <2>2. d \in Calls /\ d \in Followed /\ Len(sent[d]) \in Nat
    BY <1>5 DEF TypeInv, TypeOK
  <2>3. PICK j \in 0 .. Len(sent[d]) : HandledTo(d, j) /\ WrittenTo(d, j)
    BY <2>2 DEF RecordInv, WrittenInOrder
  <2>4. j \in Nat /\ j <= Len(sent[d])
    BY <2>2, <2>3
  <2>5. WrittenTo(d, j)'
    BY <1>2, <2>2, <2>3, <2>4, WrittenStays
  <2>6. HandledTo(d, j)'
    <3>1. CASE d # c
      <4>1. pending'[d] = pending[d]
        BY <1>1, <1>3, <2>2, <3>1
      <4>2. \A q \in Requests : On(q, d)' <=> On(q, d)
        BY <1>2, <1>6, <1>7, <3>1 DEF On
      <4>3. \A q \in Requests : On(q, d) => request'[q].at = request[q].at
        BY <1>2, <1>6 DEF On
      <4>4. QED
        BY <1>2, <2>2, <2>3, <2>4, <4>1, <4>2, <4>3, HandledStays
    <3>2. CASE d = c
      <4>1. /\ \A q \in Requests : ~On(q, c)
            /\ NextInOrder(c, i) /\ c \notin internal
        BY <1>2, <1>4, <2>1, <3>2 DEF Followed, Busy, On
      <4>2. pending[c] = j + 1 .. Len(sent[c])
        BY <2>3, <3>2, <4>1 DEF HandledTo
      <4>3. i = j + 1
        <5>1. i \in j + 1 .. Len(sent[c])
          BY <4>1, <4>2 DEF NextInOrder
        <5>2. j + 1 \in pending[c]
          BY <2>2, <2>4, <3>2, <4>2, <5>1
        <5>3. i <= j + 1
          BY <4>1, <5>2, Zenon DEF NextInOrder
        <5>4. QED
          BY <2>4, <5>1, <5>3
      <4>4. pending'[c] = j + 2 .. Len(sent[c])
        BY <1>1, <1>3, <2>2, <2>4, <3>2, <4>2, <4>3
      <4>5. On(r, c)' /\ request'[r].at = j + 1
        BY <1>8, <4>1, <4>3 DEF On
      <4>6. QED
        BY <1>2, <3>2, <4>4, <4>5 DEF HandledTo
    <3>3. QED
      BY <3>1, <3>2
  <2>7. QED
    BY <1>2, <2>3, <2>5, <2>6
<1>12. QED
  BY <1>9, <1>10, <1>11 DEF RecordInv

LEMMA DieKeepsRecord ==
    ASSUME TypeInv, EndInv, RecordInv, NEW r \in Requests, Die(r)
    PROVE  RecordInv'
<1>0. PICK c : c = request[r].call
  OBVIOUS
<1>1. /\ request[r].call = c
      /\ sent' = sent /\ internal' = internal /\ records' = records
      /\ transfers' = transfers /\ inTurn' = inTurn /\ inOrder' = inOrder
      /\ pending' = [pending EXCEPT ![c] = @ \cup {request[r].at}]
      /\ request' = [request EXCEPT ![r] = Idle] /\ request[r] # Idle
  BY <1>0 DEF Die, platform
<1>2. /\ request \in [Requests -> Job \cup {Idle}] /\ pending \in [Calls -> SUBSET Time]
      /\ inTurn \subseteq Calls
  BY DEF TypeInv, TypeOK
<1>3. request'[r] = Idle /\ \A q \in Requests : q # r => request'[q] = request[q]
  BY <1>1, <1>2
<1>4. Starts' /\ Followed' = Followed
  BY <1>1, Zenon DEF RecordInv, Starts, Followed
<1>5. OwnTransfers'
  BY <1>3, <1>4 DEF RecordInv, OwnTransfers
<1>6. WrittenInOrder'
  <2>1. SUFFICES ASSUME NEW d \in Followed
                 PROVE  \E j \in 0 .. Len(sent'[d]) : HandledTo(d, j)' /\ WrittenTo(d, j)'
    BY <1>4 DEF WrittenInOrder
  <2>2. d \in Calls /\ Len(sent[d]) \in Nat /\ d \in inTurn
    BY <1>2 DEF TypeInv, TypeOK, Followed
  <2>3. PICK j \in 0 .. Len(sent[d]) : HandledTo(d, j) /\ WrittenTo(d, j)
    BY <2>2 DEF RecordInv, WrittenInOrder
  <2>4. j \in Nat /\ j <= Len(sent[d])
    BY <2>2, <2>3
  <2>5. WrittenTo(d, j)'
    BY <1>1, <2>2, <2>3, <2>4, WrittenStays
  <2>6. HandledTo(d, j)'
    <3>1. CASE d # c
      <4>1. pending'[d] = pending[d]
        BY <1>1, <1>2, <2>2, <3>1
      <4>2. \A q \in Requests : On(q, d)' <=> On(q, d)
        BY <1>1, <1>3, <3>1 DEF On
      <4>3. \A q \in Requests : On(q, d) => request'[q].at = request[q].at
        BY <1>1, <1>3, <3>1 DEF On
      <4>4. QED
        BY <1>1, <2>2, <2>3, <2>4, <4>1, <4>2, <4>3, HandledStays
    <3>2. CASE d = c
      <4>1. On(r, c) /\ \A q \in Requests : On(q, c) => q = r
        BY <1>1, <2>2, <3>2 DEF EndInv, Alone, On
      <4>2. request[r].at = j + 1 /\ pending[c] = j + 2 .. Len(sent[c])
        BY <2>3, <3>2, <4>1 DEF HandledTo
      <4>3. j + 1 <= Len(sent[c])
        BY <1>1, <4>2, RequestTyped
      <4>4. pending'[c] = j + 1 .. Len(sent[c])
        BY <1>1, <1>2, <2>2, <2>4, <3>2, <4>2, <4>3
      <4>5. \A q \in Requests : ~On(q, c)'
        BY <1>3, <4>1 DEF On
      <4>6. QED
        BY <1>1, <3>2, <4>4, <4>5, Zenon DEF HandledTo
    <3>3. QED
      BY <3>1, <3>2
  <2>7. QED
    BY <1>1, <2>3, <2>5, <2>6
<1>7. QED
  BY <1>4, <1>5, <1>6 DEF RecordInv

\* The next notification is written: the row describes it, and a transfer counts.
LEMMA WrittenNext ==
    ASSUME NEW c \in Calls, NEW j \in Nat, WrittenTo(c, j), sent' = sent,
           records'[c] \in Row, Describes(records'[c], c, j + 1),
           transfers \in [Calls -> [Calls -> Nat]],
           transfers'[c] = IF sent[c][j + 1].kind = "transfer"
                           THEN [transfers[c] EXCEPT ![c] = @ + 1]
                           ELSE transfers[c]
    PROVE  WrittenTo(c, j + 1)'
<1>1. Describes(records[c], c, j + 1)'
  BY DEF Describes, ReachedTo, EndedTo, PickUpsTo
<1>2. TransfersTo(c, j + 1)' = TransfersTo(c, j + 1)
  BY DEF TransfersTo
<1>3. \A d \in Calls : transfers'[c][d] =
        IF d = c THEN Cardinality(TransfersTo(c, j + 1)) ELSE 0
  <2>1. transfers[c] \in [Calls -> Nat]
    OBVIOUS
  <2>2. \A d \in Calls : transfers[c][d] = IF d = c THEN Cardinality(TransfersTo(c, j)) ELSE 0
    BY DEF WrittenTo
  <2>3. CASE sent[c][j + 1].kind = "transfer"
    <3>1. Cardinality(TransfersTo(c, j + 1)) = Cardinality(TransfersTo(c, j)) + 1
      BY <2>3, PrefixGrows
    <3>2. transfers'[c] = [transfers[c] EXCEPT ![c] = @ + 1]
      BY <2>3
    <3>3. QED
      BY <2>1, <2>2, <3>1, <3>2
  <2>4. CASE sent[c][j + 1].kind # "transfer"
    <3>1. Cardinality(TransfersTo(c, j + 1)) = Cardinality(TransfersTo(c, j))
      BY <2>4, PrefixGrows
    <3>2. transfers'[c] = transfers[c]
      BY <2>4
    <3>3. QED
      BY <2>2, <3>1, <3>2
  <2>5. QED
    BY <2>3, <2>4
<1>4. j + 1 # 0
  OBVIOUS
<1>5. QED
  BY <1>1, <1>2, <1>3, <1>4 DEF WrittenTo

\* The handler of a call that is followed writes what the notification says.
LEMMA HandleWrites ==
    ASSUME TypeInv, EndInv, RecordInv, NEW r \in Requests, Handle(r),
           NEW c \in Followed, request[r].call = c, NEW j \in Nat,
           HandledTo(c, j), WrittenTo(c, j)
    PROVE  /\ j + 1 \in 0 .. Len(sent[c])
           /\ \/ request'[r] # Idle /\ WrittenTo(c, j)'
              \/ request'[r] = Idle /\ WrittenTo(c, j + 1)'
           /\ request'[r] # Idle => /\ request'[r].step # "findMerged"
                                    /\ request'[r].step = "attach" => request'[r].target = c
<1> DEFINE n == sent[c][j + 1]
<1>1. /\ sent' = sent /\ request[r] # Idle
      /\ request \in [Requests -> Job \cup {Idle}]
      /\ records \in [Calls -> Row \cup {NoRow}]
      /\ transfers \in [Calls -> [Calls -> Nat]]
  BY HandleFacts DEF TypeInv, TypeOK
<1>2. /\ c \in Calls /\ c \in inTurn /\ Notice(r) \in Notification /\ Matched(r)
      /\ request[r].at \in 1 .. Len(sent[c]) /\ request[r].at \in Time
      /\ Len(sent[c]) \in Nat
  BY <1>1, RequestTyped DEF Followed, TypeInv, TypeOK
<1>3. request[r].at = j + 1
  BY <1>1, <1>2 DEF HandledTo, EndInv, Alone, On
<1>4. Notice(r) = n /\ j < Len(sent[c]) /\ j + 1 \in 0 .. Len(sent[c])
  BY <1>2, <1>3 DEF Notice
<1>5. j = 0 => n.kind \in {"ringing", "ended"}
  BY <1>2, <1>4 DEF RecordInv, Starts
<1>6. ~EndedTo(c, j)
  BY <1>2, <1>4 DEF EndInv, EndsLast, EndedTo
<1>7. j # 0 => records[c] \in Row /\ Exists(c) /\ Describes(records[c], c, j)
  BY NoRowIsNone DEF WrittenTo, Exists
<1>8. ASSUME records'[c] = records[c], transfers'[c] = transfers[c]
      PROVE  WrittenTo(c, j)'
  BY <1>1, <1>2, <1>4, <1>8, WrittenStays
<1>9. \A step \in Step : \A row, target : GoOn(r, step, row, target) =>
        request'[r] # Idle /\ request'[r].step = step /\ request'[r].target = target
  BY <1>1, SMT DEF GoOn, Idle
<1>10. Handled(r) => request'[r] = Idle
  BY <1>1 DEF Handled
<1>11. CASE Create(r)
  <2>1. /\ request[r].step = "create" /\ transfers' = transfers
        /\ records' = [records EXCEPT ![c] = AfterCreate(@, RingingRow(request[r].at))]
    BY <1>11, Zenon DEF Create, At
  <2>2. records'[c] = AfterCreate(records[c], RingingRow(j + 1))
    BY <1>1, <1>2, <1>3, <2>1
  <2>3. CASE n.kind = "ringing" /\ Handled(r)
    <3>1. j = 0 => records[c] = NoRow
      BY <2>3 DEF WrittenTo, Begun
    <3>2. records'[c] \in Row /\ Describes(records'[c], c, j + 1)
      <4>1. CASE j = 0
        <5>1. records'[c] = RingingRow(1) /\ 1 \in Time
          BY <1>2, <1>3, <2>2, <3>1, <4>1 DEF AfterCreate
        <5>2. Len(sent[c]) >= 1 /\ sent[c][1].kind = "ringing"
          BY <1>2, <1>4, <2>3, <4>1
        <5>3. QED
          BY <1>2, <4>1, <5>1, <5>2, FirstDescribed, NoRowIsNone
      <4>2. CASE j # 0
        <5>1. records'[c] = records[c]
          BY <1>7, <2>2, <4>2 DEF AfterCreate, Exists
        <5>2. QED
          BY <1>6, <1>7, <2>3, <4>2, <5>1, NextDescribed
      <4>3. QED
        BY <4>1, <4>2
    <3>3. WrittenTo(c, j + 1)'
      BY <1>1, <1>2, <2>1, <2>3, <3>2, WrittenNext
    <3>4. QED
      BY <1>4, <1>10, <2>3, <3>3
  <2>4. CASE Exists(c) /\ GoTo(r, "load")
    <3>1. records'[c] = records[c]
      BY <2>2, <2>4 DEF AfterCreate, Exists
    <3>2. QED
      BY <1>4, <1>8, <1>9, <2>1, <2>4, <3>1 DEF GoTo
  <2>5. CASE n.kind = "ended" /\ ~Exists(c) /\ SaveNext(r, RingingRow(request[r].at))
    <3>1. j = 0 /\ records'[c] = RingingRow(1)
      BY <1>7, <2>2, <2>5 DEF AfterCreate, Exists
    <3>2. Begun(c)'
      BY <1>1, <1>2, <1>4, <2>5, <3>1 DEF Begun
    <3>3. WrittenTo(c, j)'
      BY <1>1, <2>1, <3>1, <3>2 DEF WrittenTo, TransfersTo
    <3>4. QED
      BY <1>4, <1>9, <2>5, <3>3 DEF SaveNext
  <2>6. QED
    BY <1>4, <1>11, <2>3, <2>4, <2>5 DEF Create
<1>12. CASE Load(r)
  <2>1. records' = records /\ transfers' = transfers /\ request[r].step = "load"
    BY <1>12, Zenon DEF Load, At
  <2>2. ~(~Exists(c) /\ Notice(r).kind = "in-progress")
    BY <1>4, <1>5, <1>7
  <2>3. GoTo(r, "create") \/ SaveNext(r, records[c])
    BY <1>12, <2>2 DEF Load
  <2>4. QED
    BY <1>4, <1>8, <1>9, <2>1, <2>3 DEF GoTo, SaveNext
<1>13. CASE Save(r)
  <2>1. /\ records' = [records EXCEPT ![c] = Updated(request[r].row, Notice(r), request[r].at)]
        /\ transfers' = transfers /\ Handled(r) /\ request[r].step = "save"
    BY <1>13, Zenon DEF Save, At
  <2>2. /\ request[r].row = records[c] /\ records[c] \in Row
        /\ n.kind \in {"in-progress", "ended"}
    BY <1>1, <1>2, <1>4, <2>1 DEF EndInv, Fresh, TypeInv, TypeOK, Matched
  <2>3. records'[c] = Updated(records[c], n, j + 1)
    BY <1>1, <1>2, <1>3, <1>4, <2>1, <2>2
  <2>4. records'[c] \in Row
    BY <1>2, <1>3, <1>4, <2>2, <2>3, UpdatedIsRow
  <2>5. Describes(records'[c], c, j + 1)
    <3>1. CASE j = 0
      <4>1. records[c] = RingingRow(1)
        BY <2>2, <3>1, NoRowIsNone DEF WrittenTo, Begun
      <4>2. sent[c][1].kind = "ended" /\ Len(sent[c]) >= 1
        BY <1>2, <1>4, <1>5, <2>2, <3>1
      <4>3. records'[c] = Updated(RingingRow(1), sent[c][1], 1)
        BY <2>3, <3>1, <4>1
      <4>4. QED
        BY <1>2, <3>1, <4>2, <4>3, FirstDescribed
    <3>2. CASE j # 0
      BY <1>6, <1>7, <2>2, <2>3, <3>2, NextDescribed
    <3>3. QED
      BY <3>1, <3>2
  <2>6. WrittenTo(c, j + 1)'
    BY <1>1, <1>2, <2>1, <2>2, <2>4, <2>5, WrittenNext
  <2>7. QED
    BY <1>4, <1>10, <2>1, <2>6
<1>14. CASE Find(r)
  <2>1. records' = records /\ transfers' = transfers /\ request[r].step = "find"
    BY <1>14, Zenon DEF Find, At
  <2>2. j # 0
    BY <1>1, <1>2, <1>4, <1>5, <2>1 DEF Matched
  <2>3. AttachNext(r, c)
    BY <1>7, <1>14, <2>2 DEF Find
  <2>4. QED
    BY <1>4, <1>8, <1>9, <2>1, <2>3 DEF AttachNext
<1>15. CASE FindMerged(r)
  <2>1. request[r].step = "findMerged"
    BY <1>15, Zenon DEF FindMerged, At
  <2>2. QED
    BY <1>1, <2>1 DEF RecordInv, OwnTransfers
<1>16. CASE Attach(r)
  <2>1. /\ records' = records /\ Handled(r) /\ request[r].step = "attach"
        /\ transfers' = [transfers EXCEPT ![c][request[r].target] = @ + 1]
    BY <1>16, Zenon DEF Attach, At
  <2>2. n.kind = "transfer" /\ request[r].target = c /\ j # 0
    BY <1>1, <1>2, <1>4, <1>5, <2>1 DEF Matched, RecordInv, OwnTransfers
  <2>3. transfers'[c] = [transfers[c] EXCEPT ![c] = @ + 1]
    BY <1>1, <1>2, <2>1, <2>2
  <2>4. records'[c] \in Row /\ Describes(records'[c], c, j + 1)
    BY <1>6, <1>7, <2>1, <2>2, NextDescribed
  <2>5. WrittenTo(c, j + 1)'
    BY <1>1, <1>2, <2>2, <2>3, <2>4, WrittenNext
  <2>6. QED
    BY <1>4, <1>10, <2>1, <2>5
<1>17. QED
  BY <1>11, <1>12, <1>13, <1>14, <1>15, <1>16 DEF Handle

LEMMA HandleKeepsRecord ==
    ASSUME TypeInv, EndInv, RecordInv, NEW r \in Requests, Handle(r)
    PROVE  RecordInv'
<1>0. PICK c : c = request[r].call
  OBVIOUS
<1>1. /\ request[r].call = c
      /\ sent' = sent /\ internal' = internal /\ pending' = pending /\ inTurn' = inTurn
      /\ request[r] # Idle
      /\ \A q \in Requests : q # r => request'[q] = request[q]
      /\ \/ request'[r] = Idle
         \/ request'[r].call = c /\ request'[r].at = request[r].at
      /\ \A d \in Calls : d # c => records'[d] = records[d]
  BY <1>0, HandleFacts
<1>2. inOrder' = inOrder
  BY Zenon DEF Handle, Create, Load, Save, Find, FindMerged, Attach, delivery
<1>3. \A d \in Calls : d # c => transfers'[d] = transfers[d]
  <2>1. transfers \in [Calls -> [Calls -> Nat]]
    BY DEF TypeInv, TypeOK
  <2>2. \/ transfers' = transfers
        \/ transfers' = [transfers EXCEPT ![c][request[r].target] = @ + 1]
    BY <1>0, Zenon DEF Handle, Create, Load, Save, Find, FindMerged, Attach
  <2>3. QED
    BY <2>1, <2>2
<1>4. Followed' = Followed /\ Followed \subseteq Calls /\ Followed \subseteq inTurn
  BY <1>1, <1>2 DEF Followed, TypeInv, TypeOK
<1>5. Starts'
  BY <1>1, Zenon DEF RecordInv, Starts
<1>6. \A d \in Followed : \E j \in 0 .. Len(sent[d]) : HandledTo(d, j) /\ WrittenTo(d, j)
  BY DEF RecordInv, WrittenInOrder
<1>7. \A d \in Calls : Len(sent[d]) \in Nat
  BY DEF TypeInv, TypeOK
<1>8. OwnTransfers'
  <2>1. SUFFICES ASSUME NEW q \in Requests, request'[q] # Idle,
                        request'[q].call \in Followed
                 PROVE  /\ request'[q].step # "findMerged"
                        /\ request'[q].step = "attach" => request'[q].target = request'[q].call
    BY <1>4 DEF OwnTransfers
  <2>2. CASE q # r
    BY <1>1, <2>1, <2>2 DEF RecordInv, OwnTransfers
  <2>3. CASE q = r
    <3>1. c \in Followed /\ request'[r].call = c
      BY <1>1, <2>1, <2>3
    <3>2. PICK j \in 0 .. Len(sent[c]) : HandledTo(c, j) /\ WrittenTo(c, j)
      BY <1>6, <3>1
    <3>3. j \in Nat
      BY <1>4, <1>7, <3>1, <3>2
    <3>4. QED
      BY <1>1, <2>1, <2>3, <3>1, <3>2, <3>3, HandleWrites
  <2>4. QED
    BY <2>2, <2>3
<1>9. WrittenInOrder'
  <2>1. SUFFICES ASSUME NEW d \in Followed
                 PROVE  \E k \in 0 .. Len(sent[d]) : HandledTo(d, k)' /\ WrittenTo(d, k)'
    BY <1>1, <1>4 DEF WrittenInOrder
  <2>2. PICK j \in 0 .. Len(sent[d]) : HandledTo(d, j) /\ WrittenTo(d, j)
    BY <1>6
  <2>3. d \in Calls /\ j \in Nat /\ Len(sent[d]) \in Nat /\ j <= Len(sent[d])
    BY <1>4, <1>7, <2>2
  <2>4. CASE d # c
    <3>1. WrittenTo(d, j)'
      BY <1>1, <1>3, <2>2, <2>3, <2>4, WrittenStays
    <3>2. HandledTo(d, j)'
      <4>1. \A q \in Requests : On(q, d)' <=> On(q, d)
        BY <1>1, <2>4 DEF On
      <4>2. \A q \in Requests : On(q, d) => request'[q].at = request[q].at
        BY <1>1, <2>4 DEF On
      <4>3. QED
        BY <1>1, <2>2, <2>3, <4>1, <4>2, HandledStays
    <3>3. QED
      BY <2>2, <3>1, <3>2
  <2>5. CASE d = c
    <3>1. On(r, c) /\ \A q \in Requests : On(q, c) => q = r
      BY <1>1, <1>4, <2>5 DEF EndInv, Alone, On
    <3>2. request[r].at = j + 1 /\ pending[c] = j + 2 .. Len(sent[c])
      BY <2>2, <2>5, <3>1 DEF HandledTo
    <3>3. /\ j + 1 \in 0 .. Len(sent[c])
          /\ \/ request'[r] # Idle /\ WrittenTo(c, j)'
             \/ request'[r] = Idle /\ WrittenTo(c, j + 1)'
      BY <1>1, <2>2, <2>3, <2>5, HandleWrites
    <3>4. CASE request'[r] # Idle /\ WrittenTo(c, j)'
      <4>1. On(r, c)' /\ request'[r].at = j + 1
        BY <1>1, <3>2, <3>4 DEF On
      <4>2. HandledTo(c, j)'
        BY <1>1, <3>2, <4>1 DEF HandledTo
      <4>3. QED
        BY <2>2, <2>5, <3>4, <4>2
    <3>5. CASE request'[r] = Idle /\ WrittenTo(c, j + 1)'
      <4>1. \A q \in Requests : ~On(q, c)'
        BY <1>1, <3>1, <3>5 DEF On
      <4>2. pending'[c] = (j + 1) + 1 .. Len(sent'[c])
        BY <1>1, <2>3, <3>2
      <4>3. HandledTo(c, j + 1)'
        BY <4>1, <4>2, Zenon DEF HandledTo
      <4>4. QED
        BY <2>5, <3>3, <3>5, <4>3
    <3>6. QED
      BY <3>3, <3>4, <3>5
  <2>6. QED
    BY <2>4, <2>5
<1>10. QED
  BY <1>5, <1>8, <1>9 DEF RecordInv

LEMMA RecordInvStep == TypeInv /\ EndInv /\ RecordInv /\ [Next]_vars => RecordInv'
<1>1. SUFFICES ASSUME TypeInv, EndInv, RecordInv, [Next]_vars PROVE RecordInv'
  OBVIOUS
<1>2. CASE UNCHANGED vars
  <2>1. /\ internal' = internal /\ sent' = sent /\ pending' = pending /\ records' = records
        /\ request' = request /\ inTurn' = inTurn /\ inOrder' = inOrder
        /\ transfers' = transfers
    BY <1>2, Zenon DEF vars, platform, delivery
  <2>2. Starts' /\ OwnTransfers' /\ Followed' = Followed
    BY <1>1, <2>1, Zenon DEF RecordInv, Starts, OwnTransfers, Followed
  <2>3. \A c, j : HandledTo(c, j)' <=> HandledTo(c, j)
    BY <2>1, Zenon DEF HandledTo, On
  <2>4. \A c, j : WrittenTo(c, j)' <=> WrittenTo(c, j)
    BY <2>1 DEF WrittenTo, Begun, Describes, ReachedTo, EndedTo, PickUpsTo, TransfersTo
  <2>5. QED
    BY <1>1, <2>1, <2>2, <2>3, <2>4 DEF RecordInv, WrittenInOrder
<1>3. CASE Next
  BY <1>1, <1>3, ExchangeKeepsRecord, ReceiveKeepsRecord, DieKeepsRecord,
     HandleKeepsRecord, Zenon DEF Next
<1>4. QED
  BY <1>1, <1>2, <1>3

\* Notifications that are handled in order, once, and one at a time leave exactly
\* the record they describe and count every transfer on it, whatever the
\* requests of other calls do meanwhile and whichever of its own had to be
\* posted again because they died (voipgrid/api/serializers.py:52-206).
THEOREM RecordsTellWhatHappened == Spec => []RecordedAsItHappened
<1>1. TypeInv /\ RecordInv => RecordedAsItHappened
  <2>1. SUFFICES ASSUME TypeInv, RecordInv, NEW c \in Followed,
                        pending[c] = {}, ~Busy(c), sent[c] # <<>>
                 PROVE  /\ records[c] = Summary(c)
                        /\ \A d \in Calls : transfers[c][d] =
                             IF d = c
                             THEN Cardinality({i \in DOMAIN sent[c] :
                                                 sent[c][i].kind = "transfer"})
                             ELSE 0
    BY DEF RecordedAsItHappened, Followed
  <2>2. /\ c \in Calls /\ sent[c] \in Seq(Notification) /\ Len(sent[c]) \in Nat
        /\ DOMAIN sent[c] = 1 .. Len(sent[c]) /\ Len(sent[c]) # 0
    BY <2>1 DEF Followed, TypeInv, TypeOK
  <2>3. PICK j \in 0 .. Len(sent[c]) : HandledTo(c, j) /\ WrittenTo(c, j)
    BY <2>1 DEF RecordInv, WrittenInOrder
  <2>4. j = Len(sent[c])
    <3>1. j + 1 .. Len(sent[c]) = {}
      BY <2>1, <2>3 DEF HandledTo, Busy, On
    <3>2. j + 1 \notin j + 1 .. Len(sent[c])
      BY <3>1
    <3>3. QED
      BY <2>2, <2>3, <3>2
  <2>5. records[c] \in Row /\ Describes(records[c], c, j)
    BY <2>2, <2>3, <2>4 DEF WrittenTo
  <2>6. /\ EndedTo(c, j) <=> "ended" \in Kinds(c)
        /\ PickUpsTo(c, j) = PickUps(c)
        /\ TransfersTo(c, j) = {i \in DOMAIN sent[c] : sent[c][i].kind = "transfer"}
    BY <2>2, <2>4 DEF EndedTo, Kinds, PickUpsTo, PickUps, TransfersTo
  <2>7. records[c].destination = IF PickUps(c) = {} THEN Nobody
                                 ELSE sent[c][LastPickUp(c)].destination
    <3>1. CASE PickUps(c) = {}
      BY <2>5, <2>6, <3>1 DEF Describes, ReachedTo
    <3>2. CASE PickUps(c) # {}
      <4>1. PICK i \in PickUps(c) : /\ \A k \in PickUps(c) : k <= i
                                    /\ records[c].destination = sent[c][i].destination
        BY <2>5, <2>6, <3>2 DEF Describes, ReachedTo
      <4>2. /\ LastPickUp(c) \in PickUps(c)
            /\ \A k \in PickUps(c) : k <= LastPickUp(c)
        BY <4>1, Zenon DEF LastPickUp
      <4>3. PickUps(c) \subseteq Nat
        BY <2>2 DEF PickUps
      <4>4. LastPickUp(c) = i
        BY <4>1, <4>2, <4>3
      <4>5. QED
        BY <3>2, <4>1, <4>4
    <3>3. QED
      BY <3>1, <3>2
  <2>8. records[c] = Summary(c)
    BY <2>4, <2>5, <2>6, <2>7 DEF Describes, Summary
  <2>9. QED
    BY <2>3, <2>6, <2>8 DEF WrittenTo
<1>2. QED
  BY InitTyped, TypeInvStep, EndInitially, EndInvStep, RecordInitially, RecordInvStep,
     <1>1, PTL DEF Spec
=============================================================================
