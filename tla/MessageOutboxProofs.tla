------------------------- MODULE MessageOutboxProofs -------------------------
(***************************************************************************)
(* Theorems about MessageOutbox, for every number of messages, dispatchers *)
(* and faults, slow batches included; at the end its races: a STOP or a    *)
(* payment against a message about to go, dispatchers against each other,  *)
(* and the provider against a crash.                                       *)
(***************************************************************************)
EXTENDS MessageOutbox, FiniteSetTheorems, TLAPS

-----------------------------------------------------------------------------
(* The inductive invariant behind the types *)

(* What a dispatcher may hold: a message that has an attempt left.         *)
Pending == {i \in Item : i.tries < MaxAttempts}

(* A row that may still be sent has an attempt left.                       *)
AttemptLeft ==
  \A m \in Messages :
    row[m].status \in {"none", "queued", "sending"} => row[m].attempts < MaxAttempts

(* Nothing is written twice: a draft has no row yet, and a draft of a      *)
(* notice is a resend, so voiding writes no other.                         *)
DraftsFresh ==
  \A m \in Messages : draft[m] # "none" =>
    /\ m \notin Replies /\ row[m].status = "none"
    /\ m \in Notices => \E n \in Notices : row[n].status # "none"

HeldPending ==
  \A w \in Workers :
    /\ work[w].batch \subseteq Pending
    /\ work[w].phase \notin {"idle", "ready"} => work[w].item \in Pending

IType == TypeOK /\ AttemptLeft /\ DraftsFresh /\ HeldPending

-----------------------------------------------------------------------------
(* Rows *)

(* How one step of the system may change a status.                         *)
Goes(a, b) ==
  \/ b = a
  \/ a = "none" /\ b \in {"queued", "skipped", "sent"}
  \/ a = "queued" /\ b \in {"sending", "cancelled"}
  \/ a = "sending" /\ b \in {"queued", "sent", "failed", "skipped", "cancelled"}
  \/ a = "sent" /\ b \in {"delivered", "read", "failed"}
  \/ a = "delivered" /\ b \in {"read", "failed"}

RowsGo ==
  /\ row' \in [Messages -> Row]
  /\ AttemptLeft'
  /\ \A m \in Messages : Goes(row[m].status, row'[m].status)

(* An updated row is a row.                                                *)
LEMMA StatusUpdate ==
  ASSUME NEW r \in Row, NEW s \in Statuses
  PROVE  LET new == [r EXCEPT !.status = s] IN
         new \in Row /\ new.status = s /\ new.attempts = r.attempts
  BY DEF Row

LEMMA AttemptUpdate ==
  ASSUME NEW r \in Row, NEW s \in Statuses, NEW a \in 0..MaxAttempts
  PROVE  LET new == [r EXCEPT !.status = s, !.attempts = a] IN
         new \in Row /\ new.status = s /\ new.attempts = a
  BY DEF Row

(* Moving messages to a status keeps the rows' types, and goes where a     *)
(* status may go if each of them does.                                     *)
LEMMA MovedGoes ==
  ASSUME TypeOK, AttemptLeft, NEW S, NEW s \in Statuses, row' = Moved(S, s),
         \A m \in Messages \cap S : Goes(row[m].status, s),
         \A m \in Messages \cap S : s \in {"queued", "sending"} =>
           row[m].status \in {"none", "queued", "sending"}
  PROVE  RowsGo
<1>1. row' \in [Messages -> Row]
  <2>1. SUFFICES ASSUME NEW m \in Messages
                 PROVE  Moved(S, s)[m] \in Row
    BY DEF Moved
  <2>2. row[m] \in Row
    BY DEF TypeOK
  <2>3. [row[m] EXCEPT !.status = s] \in Row
    BY <2>2 DEF Row
  <2> QED BY <2>2, <2>3 DEF Moved
<1>2. ASSUME NEW m \in Messages
      PROVE  /\ row'[m] = IF m \in S THEN [row[m] EXCEPT !.status = s] ELSE row[m]
             /\ row[m] \in Row
  BY DEF Moved, TypeOK
<1>3. AttemptLeft'
  BY <1>2 DEF AttemptLeft, Row, Statuses, SentStatuses
<1>4. ASSUME NEW m \in Messages PROVE Goes(row[m].status, row'[m].status)
  BY <1>2 DEF Goes, Row
<1> QED BY <1>1, <1>3, <1>4 DEF RowsGo

(* The same for an update of a row that is "sending".                      *)
LEMMA FromSendingGoes ==
  ASSUME TypeOK, AttemptLeft, NEW m \in Messages, NEW new,
         FromSending(m, new),
         row[m].status = "sending" => new \in Row,
         new.status \in {"queued", "sent", "failed", "skipped", "cancelled"},
         new.status = "queued" => new.attempts < MaxAttempts
  PROVE  RowsGo
<1>1. CASE row[m].status # "sending"
  BY <1>1 DEF FromSending, RowsGo, Goes, AttemptLeft, TypeOK
<1>2. CASE row[m].status = "sending"
  <2>1. row' = [row EXCEPT ![m] = new] /\ row' \in [Messages -> Row]
    BY <1>2 DEF FromSending, TypeOK
  <2>2. ASSUME NEW n \in Messages PROVE row'[n] = IF n = m THEN new ELSE row[n]
    BY <2>1 DEF TypeOK
  <2>3. AttemptLeft'
    BY <2>2 DEF AttemptLeft
  <2>4. ASSUME NEW n \in Messages PROVE Goes(row[n].status, row'[n].status)
    BY <1>2, <2>2 DEF Goes
  <2> QED BY <2>1, <2>3, <2>4 DEF RowsGo
<1> QED BY <1>1, <1>2

(* An update of the status alone.                                          *)
LEMMA FinishGoes ==
  ASSUME TypeOK, AttemptLeft, NEW m \in Messages,
         NEW s \in {"queued", "sent", "failed", "skipped", "cancelled"},
         Finish(m, s)
  PROVE  RowsGo
<1> DEFINE new == [row[m] EXCEPT !.status = s]
<1>1. row[m] \in Row
  BY DEF TypeOK
<1>2. new \in Row /\ new.status = s /\ new.attempts = row[m].attempts
  BY <1>1 DEF Row, Statuses, SentStatuses
<1>3. CASE row[m].status = "sending"
  <2>1. new.attempts < MaxAttempts
    BY <1>2, <1>3 DEF AttemptLeft
  <2> QED BY <1>2, <2>1, FromSendingGoes DEF Finish
<1>4. CASE row[m].status # "sending"
  BY <1>4 DEF Finish, FromSending, RowsGo, Goes, AttemptLeft, TypeOK
<1> QED BY <1>3, <1>4

(* Rows that a step leaves alone.                                          *)
LEMMA SameRowsGo ==
  ASSUME TypeOK, AttemptLeft, UNCHANGED row
  PROVE  RowsGo
  BY DEF RowsGo, Goes, AttemptLeft, TypeOK

LEMMA ApplicationRows ==
  ASSUME IType, NEW m \in Messages, Application(m)
  PROVE  RowsGo
<1> USE DEF IType
<1>1. CASE Enqueue(m)
  BY <1>1, SameRowsGo DEF Enqueue
<1>2. CASE CommitEnqueue(m)
  <2>1. row[m].status = "none" /\ draft[m] \in {"queued", "skipped"}
    BY <1>2 DEF CommitEnqueue, DraftsFresh, TypeOK
  <2>2. draft[m] \in Statuses /\ Goes(row[m].status, draft[m])
    BY <2>1 DEF Statuses, Goes
  <2> QED BY <1>2, <2>1, <2>2, MovedGoes DEF CommitEnqueue
<1>3. CASE AbortEnqueue(m)
  BY <1>3, SameRowsGo DEF AbortEnqueue
<1>4. CASE Answer(m)
  <2>1. "queued" \in Statuses /\ Goes(row[m].status, "queued")
    BY <1>4 DEF Answer, Goes, Statuses
  <2> QED BY <1>4, <2>1, MovedGoes DEF Answer
<1>5. CASE ManualShare(m)
  <2> DEFINE new == [status |-> "sent", attempts |-> 1, manual |-> TRUE]
  <2>1. new \in Row
    BY BoundsAssumption DEF Row, Statuses, SentStatuses
  <2>2. row' = [row EXCEPT ![m] = new] /\ row[m].status = "none"
    BY <1>5 DEF ManualShare
  <2>3. row' \in [Messages -> Row]
    BY <2>1, <2>2 DEF TypeOK
  <2>4. ASSUME NEW n \in Messages PROVE row'[n] = IF n = m THEN new ELSE row[n]
    BY <2>2 DEF TypeOK
  <2>5. AttemptLeft'
    BY <2>4 DEF AttemptLeft
  <2>6. ASSUME NEW n \in Messages PROVE Goes(row[n].status, row'[n].status)
    BY <2>2, <2>4 DEF Goes
  <2> QED BY <2>3, <2>5, <2>6 DEF RowsGo
<1> QED BY <1>1, <1>2, <1>3, <1>4, <1>5 DEF Application

(* Payments, STOP and the void of an invoice cancel queued rows.           *)
LEMMA CancelledGo ==
  ASSUME IType, NEW S, S \subseteq InQueue, row' = Moved(S, "cancelled")
  PROVE  RowsGo
<1>1. "cancelled" \in Statuses
  BY DEF Statuses
<1>2. \A m \in Messages \cap S : Goes(row[m].status, "cancelled")
  BY DEF InQueue, Goes
<1> QED BY <1>1, <1>2, MovedGoes DEF IType

LEMMA VoidRows ==
  ASSUME IType, Void
  PROVE  RowsGo
<1> DEFINE kept == Moved(InQueue, "cancelled")
<1>1. CASE row' = kept
  BY <1>1, CancelledGo
<1>2. CASE NoticeDue /\ \E n \in Notices, verdict \in Verdicts(kept) :
             row' = [kept EXCEPT ![n].status = verdict]
  <2>1. PICK n \in Notices, verdict \in Verdicts(kept) :
           row' = [kept EXCEPT ![n].status = verdict]
    BY <1>2
  <2>2. row[n].status = "none" /\ n \in Messages /\ verdict \in {"queued", "skipped"}
    BY <1>2, <2>1 DEF NoticeDue, Messages, Verdicts
  <2>3. ASSUME NEW m \in Messages
        PROVE  /\ row[m] \in Row
               /\ kept[m] = IF row[m].status = "queued"
                            THEN [row[m] EXCEPT !.status = "cancelled"] ELSE row[m]
               /\ kept[m] \in Row
               /\ kept[m].attempts = row[m].attempts
               /\ kept[m].status = IF row[m].status = "queued"
                                   THEN "cancelled" ELSE row[m].status
    <3>1. row[m] \in Row
      BY DEF IType, TypeOK
    <3>2. "cancelled" \in Statuses
      BY DEF Statuses
    <3> QED BY <3>1, <3>2, StatusUpdate DEF Moved, InQueue
  <2> DEFINE new == [kept[n] EXCEPT !.status = verdict]
  <2>4. new \in Row /\ new.status = verdict /\ new.attempts = row[n].attempts
    <3>1. kept[n] \in Row /\ verdict \in Statuses /\ kept[n].attempts = row[n].attempts
      BY <2>2, <2>3 DEF Statuses
    <3> HIDE DEF kept
    <3> QED BY <3>1, StatusUpdate, Zenon
  <2>5. ASSUME NEW m \in Messages
        PROVE  row'[m] = IF m = n THEN new ELSE kept[m]
    BY <2>1 DEF Moved
  <2>6. row' \in [Messages -> Row]
    <3>1. kept \in [Messages -> Row]
      BY <2>3 DEF Moved
    <3> QED BY <2>1, <2>4, <3>1
  <2> HIDE DEF kept, new
  <2>7. AttemptLeft'
    BY <2>2, <2>3, <2>4, <2>5 DEF AttemptLeft, IType
  <2>8. ASSUME NEW m \in Messages PROVE Goes(row[m].status, row'[m].status)
    BY <2>2, <2>3, <2>4, <2>5 DEF Goes
  <2> QED BY <2>6, <2>7, <2>8 DEF RowsGo
<1> QED BY <1>1, <1>2 DEF Void

LEMMA ProcessRows ==
  ASSUME IType, NEW w \in Workers, NEW i \in work[w].batch, Process(w, i)
  PROVE  RowsGo
<1>1. i.msg \in Messages
  BY DEF IType, HeldPending, Pending, Item
<1> USE <1>1, FinishGoes DEF IType
<1>2. CASE HoldBack(w, i)
  BY <1>2 DEF HoldBack
<1>3. CASE DropStale(w, i)
  BY <1>3 DEF DropStale, StaleReason
<1>4. CASE Defer(w, i)
  BY <1>4 DEF Defer
<1>5. CASE SkipAtLimit(w, i)
  BY <1>5 DEF SkipAtLimit
<1>6. CASE Clear(w, i)
  BY <1>6, SameRowsGo DEF Clear, rows
<1> QED BY <1>2, <1>3, <1>4, <1>5, <1>6 DEF Process

LEMMA MarkSentRows ==
  ASSUME IType, NEW w \in Workers, MarkSent(w)
  PROVE  RowsGo
<1> DEFINE m == work[w].item.msg
           new == [row[m] EXCEPT !.status = "sent", !.attempts = @ + 1]
<1>1. m \in Messages
  BY DEF IType, HeldPending, MarkSent, Pending, Item
<1>2. row[m] \in Row
  BY <1>1 DEF IType, TypeOK
<1>3. ASSUME row[m].status = "sending"
      PROVE  new \in Row
  <2>1. row[m].attempts + 1 \in 0..MaxAttempts
    BY <1>1, <1>2, <1>3, BoundsAssumption DEF IType, AttemptLeft, Row
  <2>2. "sent" \in Statuses
    BY DEF Statuses, SentStatuses
  <2> HIDE DEF m
  <2> QED BY <1>2, <2>1, <2>2 DEF Row
<1>4. new.status = "sent"
  BY <1>2 DEF Row
<1>5. FromSending(m, new)
  BY DEF MarkSent
<1> QED BY <1>1, <1>3, <1>4, <1>5, FromSendingGoes DEF IType

LEMMA HandleErrorRows ==
  ASSUME IType, NEW w \in Workers, HandleError(w)
  PROVE  RowsGo
<1> DEFINE i == work[w].item
           again == work[w].phase = "retry" /\ MayRetry(Attempts(i))
           status == IF again THEN "queued" ELSE "failed"
           tries == Attempts(i)
           new == [row[i.msg] EXCEPT !.status = status, !.attempts = tries]
<1>1. i.msg \in Messages /\ i.tries \in Nat /\ i.tries < MaxAttempts
  BY DEF IType, HeldPending, HandleError, Pending, Item
<1>2. row[i.msg] \in Row
  BY <1>1 DEF IType, TypeOK
<1>3. status \in Statuses /\ tries \in 0..MaxAttempts
  BY <1>1, BoundsAssumption DEF Statuses, Attempts
<1>4. new \in Row /\ new.status = status /\ new.attempts = tries
  <2> HIDE DEF i, status, tries
  <2>1. new \in Row
    BY <1>2, <1>3, AttemptUpdate, Zenon
  <2>2. new.status = status
    BY <1>2 DEF Row
  <2>3. new.attempts = tries
    BY <1>2 DEF Row
  <2> QED BY <2>1, <2>2, <2>3
<1>5. new.status = "queued" => new.attempts < MaxAttempts
  BY <1>4 DEF MayRetry
<1>6. FromSending(i.msg, new)
  BY DEF HandleError
<1>7. new.status \in {"queued", "failed"}
  BY <1>4
<1> HIDE DEF new, status, again
<1> QED BY <1>1, <1>7, <1>4, <1>5, <1>6, FromSendingGoes DEF IType

LEMMA WebhookRows ==
  ASSUME IType, NEW m \in Messages, NEW status \in DOMAIN Replaceable,
         Webhook(m, status)
  PROVE  RowsGo
<1>1. status \in {"delivered", "read", "failed"}
  BY DEF Replaceable
<1>2. status \in Statuses /\ Goes(row[m].status, status)
  BY <1>1 DEF Webhook, Replaceable, Goes, Statuses, SentStatuses
<1> QED BY <1>1, <1>2, MovedGoes DEF Webhook, IType

(* Whatever happens, every row keeps its type and goes where it may.       *)
LEMMA RowsStep ==
  ASSUME IType, Next
  PROVE  RowsGo
<1> USE DEF IType
<1>1. CASE \E m \in Messages : Application(m)
  BY <1>1, ApplicationRows
<1>2. CASE Pay
  BY <1>2, CancelledGo DEF Pay
<1>3. CASE Void
  BY <1>3, VoidRows
<1>4. CASE Stop
  BY <1>4, CancelledGo DEF Stop
<1>5. CASE Start
  BY <1>5, SameRowsGo DEF Start, rows
<1>6. ASSUME NEW w \in Workers, NEW S \in SUBSET Messages, ReturnStuck(w, S)
      PROVE  RowsGo
  <2>1. \A m \in Messages \cap S : row[m].status = "sending"
    BY <1>6 DEF ReturnStuck
  <2>2. "queued" \in Statuses /\ \A m \in Messages \cap S : Goes(row[m].status, "queued")
    BY <2>1 DEF Goes, Statuses
  <2> QED BY <1>6, <2>1, <2>2, MovedGoes DEF ReturnStuck
<1>7. ASSUME NEW w \in Workers, NEW S \in SUBSET Messages, Claim(w, S)
      PROVE  RowsGo
  <2>1. \A m \in Messages \cap S : row[m].status = "queued"
    BY <1>7 DEF Claim, InQueue
  <2>2. "sending" \in Statuses /\ \A m \in Messages \cap S : Goes(row[m].status, "sending")
    BY <2>1 DEF Goes, Statuses
  <2> QED BY <1>7, <2>1, <2>2, MovedGoes DEF Claim
<1>8. ASSUME NEW w \in Workers, Step(w)
      PROVE  RowsGo
  <2>1. CASE \E i \in work[w].batch : Process(w, i)
    BY <1>8, <2>1, ProcessRows
  <2>2. CASE Send(w) \/ Refused(w) \/ Count(w)
    BY <1>8, <2>2, SameRowsGo DEF Send, Refused, Count, rows
  <2>3. CASE MarkSent(w) \/ HandleError(w)
    BY <1>8, <2>3, MarkSentRows, HandleErrorRows
  <2> QED BY <1>8, <2>1, <2>2, <2>3 DEF Step
<1>9. ASSUME NEW w \in Workers, StatementFails(w) \/ Crash(w)
      PROVE  RowsGo
  BY <1>9, SameRowsGo DEF StatementFails, Crash, rows
<1>10. CASE \E m \in Messages, status \in DOMAIN Replaceable : Webhook(m, status)
  BY <1>10, WebhookRows
<1> QED BY <1>1, <1>2, <1>3, <1>4, <1>5, <1>6, <1>7, <1>8, <1>9, <1>10 DEF Next

-----------------------------------------------------------------------------
(* What the dispatchers hold *)

WorkOK == work \in [Workers -> Work] /\ HeldPending

(* A dispatcher is given a new state; what it holds may still be sent.     *)
LEMMA WorkUpdate ==
  ASSUME WorkOK, NEW w \in Workers, NEW new \in Work,
         work' = [work EXCEPT ![w] = new],
         new.batch \subseteq Pending,
         new.phase \notin {"idle", "ready"} => new.item \in Pending
  PROVE  WorkOK'
<1>1. work' \in [Workers -> Work]
  BY DEF WorkOK
<1>2. ASSUME NEW v \in Workers PROVE work'[v] = IF v = w THEN new ELSE work[v]
  BY DEF WorkOK
<1> QED BY <1>1, <1>2 DEF WorkOK, HeldPending

LEMMA ThroughWork ==
  ASSUME WorkOK, NEW w \in Workers, NEW batch, batch \subseteq work[w].batch,
         Through(w, batch)
  PROVE  WorkOK'
<1> DEFINE new == IF batch = {} THEN Idle ELSE [Idle EXCEPT !.phase = "ready", !.batch = batch]
<1>1. batch \subseteq Pending /\ Pending \subseteq Item
  BY DEF WorkOK, HeldPending, Pending
<1>2. new \in Work /\ new.batch \subseteq Pending /\ new.phase \in {"idle", "ready"}
  BY <1>1 DEF Idle, Work, Phases
<1>3. work' = [work EXCEPT ![w] = new]
  BY DEF Through
<1> HIDE DEF new
<1> QED BY <1>2, <1>3, WorkUpdate

LEMMA AtWork ==
  ASSUME WorkOK, NEW w \in Workers, NEW i \in work[w].batch, NEW phase \in Phases,
         At(w, phase, i)
  PROVE  WorkOK'
<1> DEFINE new == [phase |-> phase, batch |-> work[w].batch \ {i}, item |-> i]
<1>1. work[w] \in Work /\ i \in Pending /\ work[w].batch \subseteq Pending
  BY DEF WorkOK, HeldPending
<1>2. new \in Work
  BY <1>1 DEF Work, Pending
<1>3. work' = [work EXCEPT ![w] = new]
  BY <1>1 DEF At, WorkOK, Work
<1> QED BY <1>1, <1>2, <1>3, WorkUpdate

(* Only the phase changes, and not before an item is taken up.             *)
LEMMA PhaseWork ==
  ASSUME WorkOK, NEW w \in Workers, NEW phase \in Phases,
         work[w].phase \notin {"idle", "ready"},
         work' = [work EXCEPT ![w].phase = phase]
  PROVE  WorkOK'
<1> DEFINE new == [work[w] EXCEPT !.phase = phase]
<1>1. work[w] \in Work
  BY DEF WorkOK
<1>2. new \in Work /\ new.batch = work[w].batch /\ new.item = work[w].item
  BY <1>1 DEF Work
<1>3. work' = [work EXCEPT ![w] = new]
  OBVIOUS
<1> HIDE DEF new
<1> QED BY <1>2, <1>3, WorkUpdate DEF WorkOK, HeldPending

LEMMA SameWork ==
  ASSUME WorkOK, UNCHANGED work
  PROVE  WorkOK'
  BY DEF WorkOK, HeldPending

LEMMA ClaimWork ==
  ASSUME IType, NEW w \in Workers, NEW S \in SUBSET Messages, Claim(w, S)
  PROVE  WorkOK'
<1> DEFINE batch == {[msg |-> m, tries |-> row[m].attempts] : m \in S}
           new == [Idle EXCEPT !.phase = "ready", !.batch = batch]
<1>1. ASSUME NEW m \in S PROVE [msg |-> m, tries |-> row[m].attempts] \in Pending
  <2>1. row[m] \in Row /\ row[m].attempts < MaxAttempts
    BY DEF IType, TypeOK, AttemptLeft, Claim, InQueue
  <2> QED BY <2>1 DEF Pending, Item, Row
<1>2. batch \subseteq Pending
  BY <1>1
<1>3. new \in Work /\ new.batch = batch /\ new.phase = "ready"
  BY <1>2 DEF Idle, Work, Phases, Pending
<1>4. work' = [work EXCEPT ![w] = new]
  BY DEF Claim
<1>5. WorkOK
  BY DEF IType, TypeOK, WorkOK
<1> HIDE DEF new
<1> QED BY <1>2, <1>3, <1>4, <1>5, WorkUpdate

LEMMA StepWork ==
  ASSUME WorkOK, NEW w \in Workers, Step(w) \/ StatementFails(w) \/ Crash(w)
  PROVE  WorkOK'
<1>1. ASSUME NEW i \in work[w].batch, Process(w, i)
      PROVE  WorkOK'
  <2>1. CASE HoldBack(w, i) \/ DropStale(w, i) \/ Defer(w, i) \/ SkipAtLimit(w, i)
    <3>1. Through(w, work[w].batch \ {i})
      BY <2>1 DEF HoldBack, DropStale, Defer, SkipAtLimit
    <3> QED BY <3>1, ThroughWork
  <2>2. CASE Clear(w, i)
    BY <2>2, AtWork DEF Clear, Phases
  <2> QED BY <1>1, <2>1, <2>2 DEF Process
<1>2. CASE Send(w) \/ Refused(w) \/ MarkSent(w)
  BY <1>2, PhaseWork DEF Send, Refused, MarkSent, Phases
<1>3. CASE Count(w) \/ HandleError(w)
  <2>1. Through(w, work[w].batch)
    BY <1>3 DEF Count, HandleError
  <2> QED BY <2>1, ThroughWork
<1>4. CASE StatementFails(w)
  <2>1. CASE \E i \in work[w].batch : At(w, "retry", i)
    BY <2>1, AtWork DEF Phases
  <2>2. CASE work[w].phase \in {"taken", "marked"} /\ work' = [work EXCEPT ![w].phase = "retry"]
    BY <2>2, PhaseWork DEF Phases
  <2> QED BY <1>4, <2>1, <2>2 DEF StatementFails
<1>5. CASE Crash(w)
  <2>1. Idle \in Work
    BY DEF Idle, Work, Phases
  <2> QED BY <1>5, <2>1, WorkUpdate DEF Crash, Idle
<1> QED BY <1>1, <1>2, <1>3, <1>4, <1>5 DEF Step

LEMMA WorkStep ==
  ASSUME IType, Next
  PROVE  WorkOK'
<1>1. WorkOK
  BY DEF IType, TypeOK, WorkOK
<1>2. CASE \E m \in Messages : Application(m)
  BY <1>1, <1>2, SameWork
  DEF Application, Enqueue, CommitEnqueue, AbortEnqueue, Answer, ManualShare
<1>3. CASE Pay \/ Void \/ Stop \/ Start
  BY <1>1, <1>3, SameWork DEF Pay, Void, Stop, Start
<1>4. ASSUME NEW w \in Workers, NEW S \in SUBSET Messages, ReturnStuck(w, S) \/ Claim(w, S)
      PROVE  WorkOK'
  BY <1>1, <1>4, SameWork, ClaimWork DEF ReturnStuck
<1>5. ASSUME NEW w \in Workers, Step(w) \/ StatementFails(w) \/ Crash(w)
      PROVE  WorkOK'
  BY <1>1, <1>5, StepWork
<1>6. CASE \E m \in Messages, status \in DOMAIN Replaceable : Webhook(m, status)
  BY <1>1, <1>6, SameWork DEF Webhook
<1> QED BY <1>2, <1>3, <1>4, <1>5, <1>6 DEF Next

-----------------------------------------------------------------------------
(* The other variables *)

(* Drafts stay fresh: a row is written by its own draft alone.             *)
LEMMA DraftStep ==
  ASSUME IType, Next
  PROVE  draft' \in [Messages -> {"none", "queued", "skipped"}] /\ DraftsFresh'
<1> USE DEF IType
<1>0. RowsGo
  BY RowsStep
<1>1. ASSUME NEW m \in Messages, row[m].status # "none" PROVE row'[m].status # "none"
  BY <1>0, <1>1 DEF RowsGo, Goes
<1>2. ASSUME UNCHANGED draft,
             \A m \in Messages : draft[m] # "none" => row'[m].status = "none"
      PROVE  DraftsFresh'
  BY <1>1, <1>2 DEF DraftsFresh, Messages
<1>3. ASSUME UNCHANGED draft,
             \A m \in Messages : row[m].status = "none" => row'[m].status = "none"
      PROVE  DraftsFresh' /\ draft' \in [Messages -> {"none", "queued", "skipped"}]
  BY <1>2, <1>3 DEF DraftsFresh, TypeOK
<1>4. ASSUME NEW m \in Messages, Application(m)
      PROVE  DraftsFresh' /\ draft' \in [Messages -> {"none", "queued", "skipped"}]
  <2>1. CASE Enqueue(m)
    <3>1. PICK verdict \in Verdicts(row) : draft' = [draft EXCEPT ![m] = verdict]
      BY <2>1 DEF Enqueue
    <3>2. UNCHANGED row /\ verdict \in {"queued", "skipped"}
      BY <2>1 DEF Enqueue, Verdicts
    <3>3. m \notin Replies /\ row[m].status = "none"
      BY <2>1, KindsAssumption DEF Enqueue
    <3>4. m \in Notices => \E n \in Notices : row[n].status # "none"
      BY <2>1, KindsAssumption DEF Enqueue, Resendable
    <3>5. ASSUME NEW n \in Messages PROVE draft'[n] = IF n = m THEN verdict ELSE draft[n]
      BY <3>1 DEF TypeOK
    <3> QED BY <3>1, <3>2, <3>3, <3>4, <3>5 DEF DraftsFresh, TypeOK
  <2>2. CASE CommitEnqueue(m) \/ AbortEnqueue(m)
    <3>1. draft' = [draft EXCEPT ![m] = "none"]
      BY <2>2 DEF CommitEnqueue, AbortEnqueue
    <3>2. ASSUME NEW n \in Messages, n # m PROVE row'[n] = row[n] /\ draft'[n] = draft[n]
      BY <2>2, <3>1, <3>2 DEF CommitEnqueue, AbortEnqueue, rows, Moved, TypeOK
    <3>3. draft'[m] = "none"
      BY <3>1 DEF TypeOK
    <3>4. DraftsFresh'
      BY <1>1, <3>2, <3>3 DEF DraftsFresh, Messages
    <3> QED BY <3>1, <3>4 DEF TypeOK
  <2>3. CASE Answer(m) \/ ManualShare(m)
    <3>1. UNCHANGED draft /\ draft[m] = "none"
      BY <2>3 DEF Answer, ManualShare, DraftsFresh
    <3>2. ASSUME NEW n \in Messages, n # m PROVE row'[n] = row[n]
      BY <2>3, <3>2 DEF Answer, ManualShare, Moved, TypeOK
    <3>3. \A n \in Messages : draft[n] # "none" => row'[n].status = "none"
      BY <3>1, <3>2 DEF DraftsFresh
    <3> QED BY <1>2, <3>1, <3>3 DEF TypeOK
  <2> QED BY <1>4, <2>1, <2>2, <2>3 DEF Application
<1>5. CASE Void
  <2>1. UNCHANGED draft
    BY <1>5 DEF Void
  <2>2. CASE row' = Moved(InQueue, "cancelled")
    BY <1>3, <2>1, <2>2 DEF Moved, InQueue
  <2>3. CASE NoticeDue /\ \E n \in Notices, verdict \in Verdicts(Moved(InQueue, "cancelled")) :
                row' = [Moved(InQueue, "cancelled") EXCEPT ![n].status = verdict]
    <3>1. PICK n \in Notices, verdict \in Verdicts(Moved(InQueue, "cancelled")) :
             row' = [Moved(InQueue, "cancelled") EXCEPT ![n].status = verdict]
      BY <2>3
    <3>2. draft[n] = "none"
      BY <2>3, <3>1 DEF NoticeDue, DraftsFresh, Messages
    <3>3. ASSUME NEW m \in Messages, m # n, row[m].status = "none"
          PROVE  row'[m].status = "none"
      BY <3>1, <3>3 DEF Moved, InQueue
    <3>4. \A m \in Messages : draft[m] # "none" => row'[m].status = "none"
      BY <3>2, <3>3 DEF DraftsFresh
    <3> QED BY <1>2, <2>1, <3>4 DEF TypeOK
  <2> QED BY <1>5, <2>2, <2>3 DEF Void
<1>6. CASE Pay \/ Stop \/ Start
  BY <1>3, <1>6 DEF Pay, Stop, Start, rows, Moved, InQueue
<1>7. ASSUME NEW w \in Workers, NEW S \in SUBSET Messages, ReturnStuck(w, S) \/ Claim(w, S)
      PROVE  DraftsFresh' /\ draft' \in [Messages -> {"none", "queued", "skipped"}]
  BY <1>3, <1>7 DEF ReturnStuck, Claim, Moved, InQueue
<1>8. ASSUME NEW w \in Workers, Step(w) \/ StatementFails(w) \/ Crash(w)
      PROVE  DraftsFresh' /\ draft' \in [Messages -> {"none", "queued", "skipped"}]
  <2>1. UNCHANGED draft
    BY <1>8 DEF Step, StatementFails, Crash, Process, HoldBack, DropStale, Defer,
       SkipAtLimit, Clear, Send, Refused, MarkSent, Count, HandleError, rows
  <2>2. UNCHANGED row \/ \E m, new : FromSending(m, new)
    BY <1>8 DEF Step, StatementFails, Crash, Process, HoldBack, DropStale, Defer,
       SkipAtLimit, Clear, Send, Refused, MarkSent, Count, HandleError, rows, Finish
  <2>3. \A m \in Messages : row[m].status = "none" => row'[m].status = "none"
    BY <2>2 DEF FromSending, TypeOK
  <2> QED BY <1>3, <2>1, <2>3
<1>9. CASE \E m \in Messages, status \in DOMAIN Replaceable : Webhook(m, status)
  BY <1>3, <1>9 DEF Webhook, Moved, Replaceable
<1> QED BY <1>4, <1>5, <1>6, <1>7, <1>8, <1>9 DEF Next

(* The counters, and what is known of the invoice and the customer.        *)
CountersOK ==
  /\ usage \in Nat /\ told \in Nat /\ alerted \subseteq Messages
  /\ invoice \in Owed \cup {"settled", "void"} /\ optedOut \in BOOLEAN
  /\ faults \in 0..MaxFaults /\ deferrals \in 0..MaxDeferrals
  /\ overdue \in [Messages -> Nat]
  /\ accepted \in [Messages -> Nat] /\ afterStop \in Nat /\ afterPay \in Nat

LEMMA CountersStep ==
  ASSUME IType, Next
  PROVE  CountersOK'
<1>0. CountersOK
  BY DEF IType, TypeOK, CountersOK
<1>1. ASSUME UNCHANGED <<books, world, bounds, provider>>
      PROVE  CountersOK'
  BY <1>0, <1>1 DEF CountersOK, books, world, bounds, provider
<1>2. ASSUME NEW m \in Messages, Application(m)
      PROVE  CountersOK'
  BY <1>1, <1>2 DEF Application, Enqueue, CommitEnqueue, AbortEnqueue, Answer, ManualShare
<1>3. CASE Pay \/ Void \/ Stop \/ Start
  <2>1. CASE Pay \/ Void
    <3>1. invoice' \in Owed \cup {"settled", "void"}
      BY <2>1 DEF Pay, Void, Owed
    <3>2. UNCHANGED <<books, optedOut, bounds, provider>>
      BY <2>1 DEF Pay, Void
    <3> QED BY <1>0, <3>1, <3>2 DEF CountersOK, books, bounds, provider
  <2>2. CASE Stop \/ Start
    <3>1. optedOut' = TRUE \/ optedOut' = FALSE
      BY <2>2 DEF Stop, Start
    <3>2. optedOut' \in BOOLEAN
      BY <3>1
    <3>3. afterStop' = afterStop \/ afterStop' = 0
      BY <2>2 DEF Stop, Start, provider
    <3>4. UNCHANGED <<books, invoice, bounds, accepted, afterPay>>
      BY <2>2 DEF Stop, Start, provider
    <3> QED BY <1>0, <3>2, <3>3, <3>4 DEF CountersOK, books, bounds
  <2> QED BY <1>3, <2>1, <2>2
<1>4. ASSUME NEW w \in Workers, NEW S \in SUBSET Messages, ReturnStuck(w, S) \/ Claim(w, S)
      PROVE  CountersOK'
  <2>1. CASE Claim(w, S)
    BY <1>1, <2>1 DEF Claim
  <2>2. CASE ReturnStuck(w, S)
    <3> DEFINE early == {m \in S : Held(m)}
    <3>1. UNCHANGED <<books, world, deferrals, provider>>
      BY <2>2 DEF ReturnStuck
    <3>2. CASE UNCHANGED <<faults, overdue>>
      BY <1>1, <3>1, <3>2 DEF bounds
    <3>3. CASE /\ faults < MaxFaults /\ faults' = faults + 1
               /\ overdue' = [m \in Messages |-> overdue[m] + (IF m \in early THEN 1 ELSE 0)]
      <4> HIDE DEF early
      <4>1. overdue' \in [Messages -> Nat] /\ faults' \in 0..MaxFaults
        BY <1>0, <3>3, BoundsAssumption DEF CountersOK
      <4> QED BY <1>0, <3>1, <4>1 DEF CountersOK, books, world, provider
    <3> QED BY <2>2, <3>2, <3>3 DEF ReturnStuck
  <2> QED BY <1>4, <2>1, <2>2
<1>5. ASSUME NEW w \in Workers, NEW i \in work[w].batch, Process(w, i)
      PROVE  CountersOK'
  <2>1. CASE HoldBack(w, i) \/ DropStale(w, i) \/ SkipAtLimit(w, i) \/ Clear(w, i)
    BY <1>1, <2>1 DEF HoldBack, DropStale, SkipAtLimit, Clear
  <2>2. CASE Defer(w, i)
    BY <1>0, <2>2, BoundsAssumption DEF CountersOK, Defer, books, world, provider
  <2> QED BY <1>5, <2>1, <2>2 DEF Process
<1>6. ASSUME NEW w \in Workers, Send(w)
      PROVE  CountersOK'
  <2> DEFINE m == work[w].item.msg
  <2>1. accepted' = [accepted EXCEPT ![m] = @ + 1]
    BY <1>6 DEF Send
  <2>2. accepted \in [Messages -> Nat] /\ m \in Messages
    BY <1>0, <1>6 DEF CountersOK, IType, HeldPending, Send, Pending, Item
  <2> HIDE DEF m
  <2>3. accepted' \in [Messages -> Nat]
    BY <2>1, <2>2
  <2>4. afterStop' \in {afterStop, afterStop + 1} /\ afterPay' \in {afterPay, afterPay + 1}
    BY <1>6 DEF Send
  <2>5. afterStop' \in Nat /\ afterPay' \in Nat
    BY <1>0, <2>4 DEF CountersOK
  <2>6. faults' \in 0..MaxFaults
    BY <1>0, <1>6, BoundsAssumption DEF CountersOK, Send
  <2>7. UNCHANGED <<books, world, deferrals, overdue>>
    BY <1>6 DEF Send
  <2> QED BY <1>0, <2>3, <2>5, <2>6, <2>7 DEF CountersOK, books, world
<1>7. ASSUME NEW w \in Workers, Refused(w) \/ MarkSent(w)
      PROVE  CountersOK'
  BY <1>1, <1>7 DEF Refused, MarkSent
<1>8. ASSUME NEW w \in Workers, Count(w)
      PROVE  CountersOK'
  BY <1>0, <1>8 DEF CountersOK, Count, world, bounds, provider
<1>9. ASSUME NEW w \in Workers, HandleError(w)
      PROVE  CountersOK'
  <2>1. work[w].item.msg \in Messages
    BY <1>9 DEF IType, HeldPending, HandleError, Pending, Item
  <2>2. alerted' \subseteq alerted \cup {work[w].item.msg}
    BY <1>9 DEF HandleError
  <2> QED BY <1>0, <1>9, <2>1, <2>2 DEF CountersOK, HandleError, world, bounds, provider
<1>10. ASSUME NEW w \in Workers, StatementFails(w) \/ Crash(w)
       PROVE  CountersOK'
  BY <1>0, <1>10, BoundsAssumption DEF CountersOK, StatementFails, Crash, books, world, provider
<1>11. ASSUME NEW m \in Messages, NEW status \in DOMAIN Replaceable, Webhook(m, status)
       PROVE  CountersOK'
  BY <1>0, <1>11 DEF CountersOK, Webhook, world, bounds, provider
<1> QED BY <1>2, <1>3, <1>4, <1>5, <1>6, <1>7, <1>8, <1>9, <1>10, <1>11 DEF Next, Step

-----------------------------------------------------------------------------
(* Types and the life of a message *)

LEMMA ITypeInit == Init => IType
<1> SUFFICES ASSUME Init PROVE IType
  OBVIOUS
<1>1. NoRow \in Row /\ NoRow.attempts = 0
  BY BoundsAssumption DEF NoRow, Row
<1>2. Idle \in Work /\ Idle.batch = {} /\ Idle.phase = "idle"
  BY DEF Idle, Work, Phases
<1>3. TypeOK
  <2>1. row \in [Messages -> Row] /\ work \in [Workers -> Work]
    BY <1>1, <1>2 DEF Init
  <2>2. draft \in [Messages -> {"none", "queued", "skipped"}]
    BY DEF Init
  <2>3. faults \in 0..MaxFaults /\ deferrals \in 0..MaxDeferrals
    BY BoundsAssumption DEF Init
  <2> QED BY <2>1, <2>2, <2>3 DEF Init, TypeOK, Owed
<1>4. AttemptLeft
  BY <1>1, BoundsAssumption DEF Init, AttemptLeft
<1>5. DraftsFresh /\ HeldPending
  BY <1>2 DEF Init, DraftsFresh, HeldPending
<1> QED BY <1>3, <1>4, <1>5 DEF IType

LEMMA ITypeNext == IType /\ [Next]_vars => IType'
<1>1. ASSUME IType, Next PROVE IType'
  BY <1>1, RowsStep, WorkStep, DraftStep, CountersStep
  DEF IType, TypeOK, RowsGo, WorkOK, CountersOK
<1>2. ASSUME IType, UNCHANGED vars PROVE IType'
  BY <1>2 DEF IType, TypeOK, AttemptLeft, DraftsFresh, HeldPending,
     vars, books, world, bounds, provider
<1> QED BY <1>1, <1>2

LEMMA ITypeAlways == Spec => []IType
<1> QED BY ITypeInit, ITypeNext, PTL DEF Spec

(* No row ever counts more than MAX_SEND_ATTEMPTS attempts, and no message *)
(* without an attempt left is queued or held: handleError fails it.        *)
THEOREM TypeCorrect == Spec => []TypeOK
<1>1. IType => TypeOK
  BY DEF IType
<1> QED BY <1>1, ITypeAlways, PTL

(* A status that goes where it may moves its message along its life.       *)
LEMMA LifeStep ==
  ASSUME IType, [Next]_vars
  PROVE  [Life!Next]_Stage
<1>1. CASE UNCHANGED vars
  <2>1. UNCHANGED row
    BY <1>1 DEF vars
  <2> QED BY <2>1 DEF Stage, Waiting
<1>2. CASE Next
  <2>1. RowsGo
    BY <1>2, RowsStep
  <2>2. ASSUME NEW m \in Messages
        PROVE  /\ Stage'[m] \in Life!Stages
               /\ Stage'[m] = Stage[m] \/ Stage'[m] \in Life!Follows[Stage[m]]
    <3>1. row[m].status \in Statuses \cup {"none"} /\ row'[m].status \in Statuses \cup {"none"}
      BY <2>1 DEF RowsGo, IType, TypeOK, Row
    <3>2. Goes(row[m].status, row'[m].status)
      BY <2>1 DEF RowsGo
    <3>3. /\ Stage[m] = IF row[m].status \in {"queued", "sending"}
                        THEN "waiting" ELSE row[m].status
          /\ Stage'[m] = IF row'[m].status \in {"queued", "sending"}
                         THEN "waiting" ELSE row'[m].status
      BY DEF Stage, Waiting
    <3> QED BY <3>1, <3>2, <3>3 DEF Goes, Life!Follows, Life!Stages, Statuses, SentStatuses
  <2>3. Stage' = [m \in Messages |-> Stage'[m]]
    BY DEF Stage
  <2>4. Stage' \in [Messages -> Life!Stages]
    BY <2>2, <2>3
  <2> QED BY <2>2, <2>4 DEF Life!Next
<1> QED BY <1>1, <1>2

(* Every dispatcher, posting, STOP and webhook, in any order and with any  *)
(* fault, moves every message along the life MessageLife allows: a status  *)
(* only moves forward, and what has ended stays as it is.                  *)
THEOREM LifeImplemented == Spec => ImplementsMessageLife
<1>1. Init => Life!Init
  BY DEF Init, NoRow, Stage, Waiting, Life!Init
<1>2. IType /\ [Next]_vars => [Life!Next]_Stage
  BY LifeStep
<1> QED BY <1>1, <1>2, ITypeAlways, PTL DEF Spec, ImplementsMessageLife, Life!Spec
-----------------------------------------------------------------------------
(* A STOP or a payment against a message about to go *)

(* The dispatchers past their checks, and those of them with a reminder.   *)
Cleared == {w \in Workers : work[w].phase = "cleared"}
ClearedReminders == {w \in Cleared : work[w].item.msg \in Reminders}

(* Every message that still goes out too late uses up a dispatcher that    *)
(* had passed its checks before.                                           *)
LateBounded ==
  /\ optedOut => afterStop + Cardinality(Cleared) <= Cardinality(Workers)
  /\ ~optedOut => afterStop = 0
  /\ invoice \notin Owed =>
       afterPay + Cardinality(ClearedReminders) <= Cardinality(Workers)
  /\ invoice \in Owed => afterPay = 0

ILate == IType /\ LateBounded

LEMMA ClearedFinite ==
  /\ IsFiniteSet(Workers) /\ Cardinality(Workers) \in Nat
  /\ \A S \in SUBSET Workers : /\ IsFiniteSet(S) /\ Cardinality(S) \in Nat
                               /\ Cardinality(S) <= Cardinality(Workers)
                               /\ \A T \in SUBSET S : Cardinality(T) <= Cardinality(S)
                               /\ \A w \in S : Cardinality(S \ {w}) = Cardinality(S) - 1
<1>1. IsFiniteSet(Workers)
  BY WorkersAssumption
<1>2. ASSUME NEW S \in SUBSET Workers
      PROVE  /\ IsFiniteSet(S) /\ Cardinality(S) \in Nat
             /\ Cardinality(S) <= Cardinality(Workers)
  BY <1>1, <1>2, FS_Subset, FS_CardinalityType
<1>3. ASSUME NEW S \in SUBSET Workers, NEW T \in SUBSET S
      PROVE  Cardinality(T) <= Cardinality(S)
  BY <1>2, FS_Subset
<1>4. ASSUME NEW S \in SUBSET Workers, NEW w \in S
      PROVE  Cardinality(S \ {w}) = Cardinality(S) - 1
  BY <1>2, FS_RemoveElement
<1>5. Cardinality(Workers) \in Nat
  BY <1>1, FS_CardinalityType
<1> QED BY <1>1, <1>2, <1>3, <1>4, <1>5

LEMMA OneLess ==
  ASSUME NEW S \in SUBSET Workers, NEW w \in S, NEW T, T \subseteq S \ {w}
  PROVE  Cardinality(T) <= Cardinality(S) - 1
<1>1. S \ {w} \in SUBSET Workers /\ T \in SUBSET (S \ {w}) /\ T \in SUBSET Workers
  OBVIOUS
<1>2. Cardinality(T) <= Cardinality(S \ {w})
  BY <1>1, ClearedFinite
<1>3. Cardinality(S \ {w}) = Cardinality(S) - 1
  BY ClearedFinite
<1> QED BY <1>2, <1>3

(* Only Clear lets a dispatcher pass its checks.                           *)
LEMMA ClearedShrinks ==
  ASSUME IType, Next, ~ \E w \in Workers : \E i \in work[w].batch : Clear(w, i)
  PROVE  /\ Cleared' \subseteq Cleared
         /\ \A w \in Cleared' : work'[w].item = work[w].item
<1> DEFINE Shrinks == \A w \in Workers :
             work'[w].phase = "cleared" => work'[w] = work[w]
<1> SUFFICES Shrinks
  BY DEF Cleared
<1>0. work \in [Workers -> Work]
  BY DEF IType, TypeOK
<1>1. ASSUME NEW w \in Workers, NEW batch, Through(w, batch)
      PROVE  Shrinks
  BY <1>0, <1>1 DEF Through, Idle
<1>2. ASSUME UNCHANGED work
      PROVE  Shrinks
  BY <1>2
<1>3. ASSUME NEW w \in Workers, NEW phase \in Phases \ {"cleared"},
             work' = [work EXCEPT ![w].phase = phase]
      PROVE  Shrinks
  BY <1>0, <1>3 DEF Work
<1>4. CASE \E m \in Messages : Application(m)
  BY <1>2, <1>4 DEF Application, Enqueue, CommitEnqueue, AbortEnqueue, Answer, ManualShare
<1>5. CASE Pay \/ Void \/ Stop \/ Start
  BY <1>2, <1>5 DEF Pay, Void, Stop, Start
<1>6. ASSUME NEW w \in Workers, NEW S \in SUBSET Messages, ReturnStuck(w, S) \/ Claim(w, S)
      PROVE  Shrinks
  BY <1>0, <1>2, <1>6 DEF ReturnStuck, Claim, Idle
<1>7. ASSUME NEW w \in Workers, NEW i \in work[w].batch, Process(w, i)
      PROVE  Shrinks
  <2>1. Through(w, work[w].batch \ {i})
    BY <1>7 DEF Process, HoldBack, DropStale, Defer, SkipAtLimit
  <2> QED BY <1>1, <2>1
<1>8. ASSUME NEW w \in Workers, Send(w) \/ Refused(w) \/ MarkSent(w)
      PROVE  Shrinks
  BY <1>3, <1>8 DEF Send, Refused, MarkSent, Phases
<1>9. ASSUME NEW w \in Workers, Count(w) \/ HandleError(w)
      PROVE  Shrinks
  BY <1>1, <1>9 DEF Count, HandleError
<1>10. ASSUME NEW w \in Workers, StatementFails(w) \/ Crash(w)
       PROVE  Shrinks
  <2>1. CASE \E i \in work[w].batch : At(w, "retry", i)
    BY <1>0, <2>1 DEF At, Work
  <2>2. CASE work' = [work EXCEPT ![w].phase = "retry"]
    BY <1>3, <2>2 DEF Phases
  <2>3. CASE Crash(w)
    BY <1>0, <2>3 DEF Crash, Idle
  <2> QED BY <1>10, <2>1, <2>2, <2>3 DEF StatementFails
<1>11. CASE \E m \in Messages, status \in DOMAIN Replaceable : Webhook(m, status)
  BY <1>2, <1>11 DEF Webhook
<1> QED BY <1>4, <1>5, <1>6, <1>7, <1>8, <1>9, <1>10, <1>11 DEF Next, Step

(* Only a message taken by the provider is counted as late, and only STOP, *)
(* START, payments and the void change what late means.                    *)
LEMMA LateCounts ==
  ASSUME IType, Next, ~ \E w \in Workers : Send(w)
  PROVE  /\ afterPay' = afterPay
         /\ \/ optedOut' = optedOut /\ afterStop' = afterStop
            \/ ~optedOut /\ optedOut' /\ afterStop' = afterStop
            \/ ~optedOut' /\ afterStop' = 0
         /\ \/ invoice' = invoice
            \/ invoice \in Owed
            \/ invoice' = "void" /\ invoice = "void"
<1>1. ASSUME UNCHANGED <<world, afterStop, afterPay>>
      PROVE  optedOut' = optedOut /\ afterStop' = afterStop /\ afterPay' = afterPay /\ invoice' = invoice
  BY <1>1 DEF world
<1>2. ASSUME NEW m \in Messages, Application(m)
      PROVE  UNCHANGED <<world, afterStop, afterPay>>
  BY <1>2 DEF Application, Enqueue, CommitEnqueue, AbortEnqueue, Answer, ManualShare, provider
<1>3. ASSUME NEW w \in Workers, NEW S \in SUBSET Messages, ReturnStuck(w, S) \/ Claim(w, S)
      PROVE  UNCHANGED <<world, afterStop, afterPay>>
  BY <1>3 DEF ReturnStuck, Claim, provider
<1>4. ASSUME NEW w \in Workers, Step(w) \/ StatementFails(w) \/ Crash(w)
      PROVE  UNCHANGED <<world, afterStop, afterPay>>
  BY <1>4 DEF Step, StatementFails, Crash, Process, HoldBack, DropStale, Defer,
     SkipAtLimit, Clear, Refused, MarkSent, Count, HandleError, provider
<1>5. ASSUME NEW m \in Messages, NEW status \in DOMAIN Replaceable, Webhook(m, status)
      PROVE  UNCHANGED <<world, afterStop, afterPay>>
  BY <1>5 DEF Webhook, provider
<1>6. CASE Pay \/ Void
  <2>1. optedOut' = optedOut /\ afterStop' = afterStop /\ afterPay' = afterPay
    BY <1>6 DEF Pay, Void, provider
  <2>2. CASE Pay
    BY <2>1, <2>2 DEF Pay
  <2>3. CASE Void
    <3>1. invoice \in {"open", "void"} /\ invoice' = "void"
      BY <2>3 DEF Void
    <3> QED BY <2>1, <3>1 DEF Owed
  <2> QED BY <1>6, <2>2, <2>3
<1>7. CASE Stop
  <2>1. afterStop' = afterStop /\ afterPay' = afterPay /\ invoice' = invoice /\ ~optedOut /\ optedOut'
    BY <1>7 DEF Stop, provider
  <2> QED BY <2>1
<1>8. CASE Start
  <2>1. afterPay' = afterPay /\ invoice' = invoice /\ ~optedOut' /\ afterStop' = 0
    BY <1>8 DEF Start
  <2> QED BY <2>1
<1>9. ASSUME NEW w \in Workers, Step(w) \/ StatementFails(w) \/ Crash(w)
      PROVE  optedOut' = optedOut /\ afterStop' = afterStop /\ afterPay' = afterPay /\ invoice' = invoice
  BY <1>1, <1>4, <1>9
<1>10. ASSUME NEW w \in Workers, NEW S \in SUBSET Messages, ReturnStuck(w, S) \/ Claim(w, S)
       PROVE  optedOut' = optedOut /\ afterStop' = afterStop /\ afterPay' = afterPay /\ invoice' = invoice
  BY <1>1, <1>3, <1>10
<1>11. CASE \E m \in Messages : Application(m)
  BY <1>1, <1>2, <1>11
<1>12. CASE \E m \in Messages, status \in DOMAIN Replaceable : Webhook(m, status)
  BY <1>1, <1>5, <1>12
<1> QED BY <1>6, <1>7, <1>8, <1>9, <1>10, <1>11, <1>12 DEF Next

LEMMA LateNext ==
  ASSUME ILate, Next
  PROVE  LateBounded'
<1> USE DEF ILate
<1>1. /\ Cleared \in SUBSET Workers /\ ClearedReminders \in SUBSET Workers
      /\ Cleared' \in SUBSET Workers /\ ClearedReminders' \in SUBSET Workers
  BY DEF Cleared, ClearedReminders
<1>2. afterStop \in Nat /\ afterPay \in Nat
  BY DEF IType, TypeOK
<1>3. ASSUME NEW w \in Workers, Send(w)
      PROVE  LateBounded'
  <2>1. /\ Cleared' \subseteq Cleared
        /\ \A v \in Cleared' : work'[v].item = work[v].item
    <3>1. work'[w].phase \in {"taken", "retry"}
          /\ \A v \in Workers : v # w => work'[v] = work[v]
      BY <1>3 DEF Send, IType, TypeOK, Work
    <3>2. ASSUME NEW v \in Workers, NEW i \in work[v].batch, Clear(v, i)
          PROVE  work[v].phase = "ready" /\ work'[v].phase = "cleared"
      BY <3>2 DEF Clear, At, IType, TypeOK, Work
    <3>3. ~ \E v \in Workers : \E i \in work[v].batch : Clear(v, i)
      BY <3>1, <3>2
    <3> QED BY <3>3, ClearedShrinks
  <2>2. w \in Cleared /\ w \notin Cleared'
    BY <1>3 DEF Send, Cleared, IType, TypeOK, Work
  <2>3. UNCHANGED <<optedOut, invoice>>
    BY <1>3 DEF Send, world
  <2>4. optedOut => afterStop' = afterStop + 1
    BY <1>3 DEF Send
  <2>5. ~optedOut => afterStop' = afterStop
    BY <1>3 DEF Send
  <2>6. Cardinality(Cleared') <= Cardinality(Cleared) - 1
    <3>1. Cleared' \subseteq Cleared \ {w}
      BY <2>1, <2>2
    <3> QED BY <1>1, <2>2, <3>1, OneLess
  <2>7. ClearedReminders' \subseteq ClearedReminders
    BY <2>1 DEF ClearedReminders
  <2>8. CASE work[w].item.msg \in Reminders /\ invoice \notin Owed
    <3>1. afterPay' = afterPay + 1
      BY <1>3, <2>8 DEF Send
    <3>2. w \in ClearedReminders /\ ClearedReminders' \subseteq ClearedReminders \ {w}
      BY <2>2, <2>7, <2>8 DEF ClearedReminders
    <3>3. Cardinality(ClearedReminders') <= Cardinality(ClearedReminders) - 1
      BY <1>1, <3>2, OneLess
    <3> QED BY <1>1, <1>2, <2>3, <2>4, <2>5, <2>6, <2>8, <3>1, <3>3, ClearedFinite
        DEF LateBounded
  <2>9. CASE ~(work[w].item.msg \in Reminders /\ invoice \notin Owed)
    <3>1. afterPay' = afterPay
      BY <1>3, <2>9 DEF Send
    <3>2. Cardinality(ClearedReminders') <= Cardinality(ClearedReminders)
      BY <1>1, <2>7, ClearedFinite
    <3> QED BY <1>1, <1>2, <2>3, <2>4, <2>5, <2>6, <3>1, <3>2, ClearedFinite
        DEF LateBounded
  <2> QED BY <2>8, <2>9
<1>4. CASE ~ \E w \in Workers : Send(w)
  <2>1. ASSUME NEW w \in Workers, NEW i \in work[w].batch, Clear(w, i)
        PROVE  LateBounded'
    <3>1. ~optedOut /\ UNCHANGED <<optedOut, invoice, afterStop, afterPay>>
      BY <2>1 DEF Clear, world, provider, StaleReason
    <3>2. CASE invoice \in Owed
      BY <3>1, <3>2 DEF LateBounded
    <3>3. CASE invoice \notin Owed
      <4>1. i.msg \notin Reminders
        BY <2>1, <3>3 DEF Clear, StaleReason
      <4>2. /\ work[w].phase = "ready" /\ work'[w].item = i
            /\ \A v \in Workers : v # w => work'[v] = work[v]
        BY <2>1 DEF Clear, At, IType, TypeOK, Work
      <4>3. ClearedReminders' \subseteq ClearedReminders
        BY <4>1, <4>2 DEF ClearedReminders, Cleared
      <4>4. Cardinality(ClearedReminders') <= Cardinality(ClearedReminders)
        BY <1>1, <4>3, ClearedFinite
      <4> QED BY <1>1, <1>2, <3>1, <3>3, <4>4, ClearedFinite DEF LateBounded
    <3> QED BY <3>2, <3>3
  <2>2. CASE ~ \E w \in Workers : \E i \in work[w].batch : Clear(w, i)
    <3>1. Cleared' \subseteq Cleared /\ ClearedReminders' \subseteq ClearedReminders
      BY <2>2, ClearedShrinks DEF ClearedReminders
    <3>2. /\ Cardinality(Cleared') <= Cardinality(Cleared)
          /\ Cardinality(ClearedReminders') <= Cardinality(ClearedReminders)
      BY <1>1, <3>1, ClearedFinite
    <3>3. /\ optedOut' => afterStop' + Cardinality(Cleared') <= Cardinality(Workers)
          /\ ~optedOut' => afterStop' = 0
      <4>1. CASE optedOut' = optedOut /\ afterStop' = afterStop
        BY <1>1, <1>2, <3>2, <4>1, ClearedFinite DEF LateBounded
      <4>2. CASE ~optedOut /\ optedOut' /\ afterStop' = afterStop
        BY <1>1, <4>2, ClearedFinite DEF LateBounded
      <4>3. CASE ~optedOut' /\ afterStop' = 0
        BY <4>3
      <4> QED BY <1>4, <4>1, <4>2, <4>3, LateCounts
    <3>4. UNCHANGED afterPay
      BY <1>4, LateCounts
    <3>5. /\ invoice' \notin Owed =>
               afterPay' + Cardinality(ClearedReminders') <= Cardinality(Workers)
          /\ invoice' \in Owed => afterPay' = 0
      <4>1. CASE invoice \in Owed
        BY <1>1, <3>4, <4>1, ClearedFinite DEF LateBounded
      <4>2. CASE invoice \notin Owed
        <5>1. invoice' \notin Owed
          BY <1>4, <4>2, LateCounts DEF Owed
        <5> QED BY <1>1, <1>2, <3>2, <3>4, <4>2, <5>1, ClearedFinite DEF LateBounded
      <4> QED BY <4>1, <4>2
    <3> QED BY <3>3, <3>5 DEF LateBounded
  <2> QED BY <2>1, <2>2
<1> QED BY <1>3, <1>4

LEMMA LateAlways == Spec => []ILate
<1>1. Init => ILate
  <2>1. Init => invoice \in Owed /\ afterPay = 0 /\ ~optedOut /\ afterStop = 0
    BY DEF Init, Owed
  <2> QED BY <2>1, ITypeInit DEF ILate, LateBounded
<1>2. ILate /\ [Next]_vars => ILate'
  <2>1. ASSUME ILate, UNCHANGED vars PROVE LateBounded'
    BY <2>1 DEF ILate, LateBounded, Cleared, ClearedReminders, vars, world, provider
  <2> QED BY <2>1, LateNext, ITypeNext DEF ILate
<1> QED BY <1>1, <1>2, PTL DEF Spec

(* After STOP the provider takes at most one more message from each        *)
(* dispatcher, however many were queued, stuck or waiting for a retry.     *)
THEOREM StopIsHonoured == Spec => []StopHonoured
<1>1. ILate => StopHonoured
  <2> SUFFICES ASSUME ILate PROVE StopHonoured
    OBVIOUS
  <2>1. Cleared \in SUBSET Workers /\ afterStop \in Nat
    BY DEF Cleared, ILate, IType, TypeOK
  <2>2. CASE optedOut
    BY <2>1, <2>2, ClearedFinite DEF ILate, LateBounded, StopHonoured
  <2>3. CASE ~optedOut
    BY <2>3, ClearedFinite DEF ILate, LateBounded, StopHonoured
  <2> QED BY <2>2, <2>3
<1> QED BY <1>1, LateAlways, PTL

(* Once the invoice is settled or void, each dispatcher sends at most the  *)
(* reminder it was about to send.                                          *)
THEOREM NoLateDunning == Spec => []NoDunningAfterPayment
<1>1. ILate => NoDunningAfterPayment
  <2> SUFFICES ASSUME ILate PROVE NoDunningAfterPayment
    OBVIOUS
  <2>1. ClearedReminders \in SUBSET Workers /\ afterPay \in Nat
    BY DEF Cleared, ClearedReminders, ILate, IType, TypeOK
  <2> QED BY <2>1, ClearedFinite DEF ILate, LateBounded, NoDunningAfterPayment
<1> QED BY <1>1, LateAlways, PTL

-----------------------------------------------------------------------------
(* Dispatchers against each other, and the provider against a crash *)

(* A dispatcher's memory is in order: no message is in it twice.           *)
Shape ==
  \A w \in Workers :
    /\ work[w].phase = "idle" => work[w].batch = {}
    /\ work[w].phase \in {"idle", "ready"} => work[w].item = NoItem
    /\ work[w].phase \notin {"idle", "ready"} =>
         \A i \in work[w].batch : i.msg # work[w].item.msg
    /\ \A i, j \in work[w].batch : i.msg = j.msg => i = j

(* Where a dispatcher is with a message.                                   *)
Place(w, m) ==
  IF \E i \in work[w].batch : i.msg = m THEN "batch"
  ELSE IF work[w].phase \notin {"idle", "ready"} /\ work[w].item.msg = m THEN work[w].phase
  ELSE "off"

(* Those who have it, those of them who may still ask the provider to send *)
(* it, and whether someone has not yet marked its row.                     *)
Holding(m) == {w \in Workers : Place(w, m) # "off"}
Trying(m) == {w \in Workers : Place(w, m) \in {"batch", "cleared", "retry", "give_up"}}
Carried(m) == \E w \in Workers : Place(w, m) \notin {"off", "marked"}

(* Queued, or claimed and forgotten: it will be claimed again.             *)
Loose(m) == row[m].status = "queued" \/ (row[m].status = "sending" /\ ~Carried(m))

One(condition) == IF condition THEN 1 ELSE 0

(* Each dispatcher that joins another cost a returned row; so would one    *)
(* that may yet claim it.                                                  *)
Backed ==
  \A m \in Messages :
    Cardinality(Holding(m)) + One(row[m].status = "queued") <= 1 + overdue[m]

(* What the provider took, and what it may yet be asked to take, is paid   *)
(* for by faults, but for the first.                                       *)
PaidByFaults ==
  \A m \in Messages : accepted[m] + Cardinality(Trying(m)) + One(Loose(m)) <= 1 + faults

(* Nobody has a message whose row is not written.                          *)
Unwritten ==
  \A m \in Messages : row[m].status = "none" =>
    accepted[m] = 0 /\ \A w \in Workers : Place(w, m) = "off"

(* Where a dispatcher has neither marked its row nor lost track of it: a   *)
(* statement that fails may send a marked row to handleError.              *)
Undecided ==
  {"batch", "cleared", "taken"} \cup IF "db_error" \in Faults THEN {} ELSE {"retry", "give_up"}

(* A row that was never returned too early is "sending" until then.        *)
StillSending ==
  \A m \in Messages, w \in Workers :
    overdue[m] = 0 /\ Place(w, m) \in Undecided => row[m].status = "sending"

IShape == IType /\ Shape
IOnce == IShape /\ Backed /\ PaidByFaults /\ Unwritten /\ StillSending

LEMMA UndecidedPlaces ==
  /\ {"batch", "cleared", "taken"} \subseteq Undecided
  /\ Undecided \cap {"off", "marked"} = {}
  /\ IF "db_error" \in Faults THEN Undecided = {"batch", "cleared", "taken"}
     ELSE {"retry", "give_up"} \subseteq Undecided
  BY DEF Undecided

LEMMA HeldPlaces ==
  ASSUME IShape, NEW w \in Workers
  PROVE  /\ \A m \in Messages : Holds(w, m) <=> Place(w, m) # "off"
         /\ \A i \in work[w].batch : i.msg \in Messages /\ Place(w, i.msg) = "batch"
         /\ work[w].phase \notin {"idle", "ready"} =>
              /\ work[w].item.msg \in Messages
              /\ Place(w, work[w].item.msg) = work[w].phase
         /\ \A m \in Messages : work[w].phase \in {"idle", "ready"} =>
              Place(w, m) \in {"batch", "off"}
<1>1. /\ work[w].batch \subseteq Item /\ work[w].item \in Item \cup {NoItem}
      /\ work[w].phase \in Phases
  BY DEF IShape, IType, TypeOK, Work
<1>2. work[w].phase \notin {"idle", "ready"} => work[w].item \in Item
  BY DEF IShape, IType, HeldPending, Pending
<1>3. \A i \in Item : i # NoItem /\ i.msg \in Messages
  BY NoItemAssumption DEF Item
<1>4. ASSUME NEW m \in Messages
      PROVE  Holds(w, m) <=> Place(w, m) # "off"
  <2>1. Holds(w, m) <=> \/ \E i \in work[w].batch : i.msg = m
                        \/ work[w].item # NoItem /\ work[w].item.msg = m
    BY <1>1, <1>3 DEF Holds
  <2>2. work[w].item # NoItem <=> work[w].phase \notin {"idle", "ready"}
    BY <1>2, <1>3 DEF IShape, Shape
  <2>3. work[w].phase # "off"
    BY <1>1 DEF Phases
  <2> QED BY <2>1, <2>2, <2>3 DEF Place
<1>5. work[w].phase \notin {"idle", "ready"} =>
        Place(w, work[w].item.msg) = work[w].phase
  BY DEF IShape, Shape, Place
<1>6. \A i \in work[w].batch : Place(w, i.msg) = "batch"
  BY DEF Place
<1>7. \A m \in Messages : work[w].phase \in {"idle", "ready"} =>
        Place(w, m) \in {"batch", "off"}
  BY DEF Place
<1> QED BY <1>1, <1>2, <1>3, <1>4, <1>5, <1>6, <1>7

-----------------------------------------------------------------------------
(* How a dispatcher's own step changes where it is *)

(* It leaves the others alone, and its memory stays in order.              *)
Alone(w) ==
  /\ \A v \in Workers \ {w} : work'[v] = work[v]
  /\ Shape'

LEMMA AlonePlaces ==
  ASSUME NEW w \in Workers, Alone(w)
  PROVE  \A m \in Messages, v \in Workers \ {w} : Place(v, m)' = Place(v, m)
  BY DEF Alone, Place

(* It drops a row of its batch, or its item.                               *)
LEMMA ThroughPlaces ==
  ASSUME IShape, NEW w \in Workers, NEW batch, batch \subseteq work[w].batch,
         Through(w, batch)
  PROVE  /\ Alone(w)
         /\ \A m \in Messages :
              Place(w, m)' = IF \E i \in batch : i.msg = m THEN "batch" ELSE "off"
<1>1. work \in [Workers -> Work]
  BY DEF IShape, IType, TypeOK
<1>2. /\ \A v \in Workers : v # w => work'[v] = work[v]
      /\ work'[w].batch = batch /\ work'[w].item = NoItem
      /\ work'[w].phase = IF batch = {} THEN "idle" ELSE "ready"
  BY <1>1 DEF Through, Idle
<1>3. Shape'
  BY <1>2 DEF IShape, Shape
<1> QED BY <1>2, <1>3 DEF Alone, Place

LEMMA DropPlaces ==
  ASSUME IShape, NEW w \in Workers, NEW i \in work[w].batch, work[w].phase = "ready",
         Through(w, work[w].batch \ {i})
  PROVE  /\ Alone(w)
         /\ Place(w, i.msg)' = "off"
         /\ \A m \in Messages : m # i.msg => Place(w, m)' = Place(w, m)
<1>1. /\ Alone(w)
      /\ \A m \in Messages : Place(w, m)' =
           IF \E j \in work[w].batch \ {i} : j.msg = m THEN "batch" ELSE "off"
  BY ThroughPlaces
<1>2. \A j \in work[w].batch \ {i} : j.msg # i.msg
  BY DEF IShape, Shape
<1>3. i.msg \in Messages
  BY HeldPlaces
<1> QED BY <1>1, <1>2, <1>3 DEF Place

LEMMA EndPlaces ==
  ASSUME IShape, NEW w \in Workers, work[w].phase \notin {"idle", "ready"},
         Through(w, work[w].batch)
  PROVE  /\ Alone(w)
         /\ \A m \in Messages :
              Place(w, m)' = IF m = work[w].item.msg THEN "off" ELSE Place(w, m)
<1>1. /\ Alone(w)
      /\ \A m \in Messages : Place(w, m)' =
           IF \E j \in work[w].batch : j.msg = m THEN "batch" ELSE "off"
  BY ThroughPlaces
<1>2. \A j \in work[w].batch : j.msg # work[w].item.msg
  BY DEF IShape, Shape
<1>3. work[w].item.msg \in Messages
  BY HeldPlaces
<1> QED BY <1>1, <1>2, <1>3 DEF Place

(* It takes a row of its batch up.                                         *)
LEMMA AtPlaces ==
  ASSUME IShape, NEW w \in Workers, NEW i \in work[w].batch, work[w].phase = "ready",
         NEW phase \in Phases \ {"idle", "ready"}, At(w, phase, i)
  PROVE  /\ Alone(w)
         /\ Place(w, i.msg)' = phase
         /\ \A m \in Messages : m # i.msg => Place(w, m)' = Place(w, m)
<1>1. work \in [Workers -> Work]
  BY DEF IShape, IType, TypeOK
<1>2. /\ \A v \in Workers : v # w => work'[v] = work[v]
      /\ work'[w].batch = work[w].batch \ {i} /\ work'[w].item = i
      /\ work'[w].phase = phase
  BY <1>1 DEF At, Work
<1>3. \A j \in work[w].batch \ {i} : j.msg # i.msg
  BY DEF IShape, Shape
<1>4. Shape'
  BY <1>2, <1>3 DEF IShape, Shape
<1> QED BY <1>2, <1>3, <1>4 DEF Alone, Place

(* It goes on with its item.                                               *)
LEMMA PhasePlaces ==
  ASSUME IShape, NEW w \in Workers, work[w].phase \notin {"idle", "ready"},
         NEW phase \in Phases \ {"idle", "ready"}, work' = [work EXCEPT ![w].phase = phase]
  PROVE  /\ Alone(w)
         /\ \A m \in Messages :
              Place(w, m)' = IF m = work[w].item.msg THEN phase ELSE Place(w, m)
<1>1. work \in [Workers -> Work]
  BY DEF IShape, IType, TypeOK
<1>2. /\ \A v \in Workers : v # w => work'[v] = work[v]
      /\ work'[w].batch = work[w].batch /\ work'[w].item = work[w].item
      /\ work'[w].phase = phase
  BY <1>1 DEF Work
<1>3. \A j \in work[w].batch : j.msg # work[w].item.msg
  BY DEF IShape, Shape
<1>4. Shape'
  BY <1>2 DEF IShape, Shape
<1> QED BY <1>2, <1>3, <1>4 DEF Alone, Place

LEMMA ClaimPlaces ==
  ASSUME IShape, NEW w \in Workers, NEW S \in SUBSET Messages, Claim(w, S)
  PROVE  /\ Alone(w)
         /\ \A m \in Messages : /\ Place(w, m) = "off"
                                /\ Place(w, m)' = IF m \in S THEN "batch" ELSE "off"
<1> DEFINE batch == {[msg |-> m, tries |-> row[m].attempts] : m \in S}
<1>1. work \in [Workers -> Work]
  BY DEF IShape, IType, TypeOK
<1>2. /\ \A v \in Workers : v # w => work'[v] = work[v]
      /\ work'[w].batch = batch /\ work'[w].item = NoItem /\ work'[w].phase = "ready"
  BY <1>1 DEF Claim, Idle
<1>3. \A m \in Messages : (\E i \in batch : i.msg = m) <=> m \in S
  <2>1. \A m \in S : [msg |-> m, tries |-> row[m].attempts] \in batch
    OBVIOUS
  <2>2. \A i \in batch : i.msg \in S
    OBVIOUS
  <2> QED BY <2>1, <2>2
<1>6. \A i, j \in batch : i.msg = j.msg => i = j
  OBVIOUS
<1> HIDE DEF batch
<1>4. Shape'
  BY <1>2, <1>6 DEF IShape, Shape
<1>5. \A m \in Messages : Place(w, m) = "off"
  BY DEF Claim, IShape, Shape, Place
<1> QED BY <1>2, <1>3, <1>4, <1>5 DEF Alone, Place

LEMMA CrashPlaces ==
  ASSUME IShape, NEW w \in Workers, Crash(w)
  PROVE  Alone(w) /\ \A m \in Messages : Place(w, m)' = "off"
<1>1. work \in [Workers -> Work]
  BY DEF IShape, IType, TypeOK
<1>2. /\ \A v \in Workers : v # w => work'[v] = work[v]
      /\ work'[w] = Idle
  BY <1>1 DEF Crash
<1>3. Shape'
  BY <1>2 DEF IShape, Shape, Idle
<1> QED BY <1>2, <1>3 DEF Alone, Place, Idle

-----------------------------------------------------------------------------
(* What one step may do about one message *)

Same(m) == accepted'[m] = accepted[m] /\ overdue'[m] = overdue[m] /\ faults' = faults

(* The application, the customer or the provider: nobody's memory changes. *)
Outside(m) ==
  /\ \A w \in Workers : Place(w, m)' = Place(w, m)
  /\ Same(m)
  /\ \/ row'[m].status = row[m].status
     \/ row[m].status = "none"
     \/ row[m].status = "queued" /\ row'[m].status = "cancelled"
     \/ row[m].status \in SentStatuses /\ row'[m].status \in SentStatuses \cup {"failed"}

(* The row is queued again: nobody has it, or one of them is slow.         *)
Returns(m) ==
  /\ \A w \in Workers : Place(w, m)' = Place(w, m)
  /\ accepted'[m] = accepted[m]
  /\ row[m].status = "sending" /\ row'[m].status = "queued"
  /\ \/ /\ overdue'[m] = overdue[m] /\ faults' \in {faults, faults + 1}
        /\ \A w \in Workers : Place(w, m) = "off"
     \/ overdue'[m] = overdue[m] + 1 /\ faults' = faults + 1

Writes(m, statuses) ==
  IF row[m].status = "sending" THEN row'[m].status \in statuses
  ELSE row'[m].status = row[m].status

(* A dispatcher goes from one place to the next.                           *)
Turns(w, m) ==
  LET from == Place(w, m)
      to == Place(w, m)'
      kept == row'[m].status = row[m].status IN
  \/ kept /\ to = from /\ accepted'[m] = accepted[m] /\ faults' \in {faults, faults + 1}
  \/ Same(m) /\ row[m].status = "queued" /\ row'[m].status = "sending"
             /\ from = "off" /\ to = "batch"
  \/ Same(m) /\ from \in {"batch", "retry", "give_up"} /\ to = "off"
             /\ Writes(m, {"queued", "skipped", "cancelled", "failed"})
  \/ Same(m) /\ kept /\ from = "batch" /\ to = "cleared"
  \/ kept /\ from = "cleared" /\ accepted'[m] = accepted[m] + 1
          /\ \/ to = "taken" /\ faults' = faults
             \/ to = "retry" /\ faults' = faults + 1
  \/ Same(m) /\ kept /\ from = "cleared" /\ to \in {"retry", "give_up"}
  \/ Same(m) /\ from = "taken" /\ to = "marked" /\ Writes(m, {"sent"})
  \/ Same(m) /\ kept /\ from = "marked" /\ to = "off"
  \/ kept /\ from \in {"batch", "taken", "marked"} /\ to = "retry" /\ "db_error" \in Faults
          /\ accepted'[m] = accepted[m] /\ faults' = faults + 1
  \/ kept /\ to = "off" /\ accepted'[m] = accepted[m] /\ faults' = faults + 1
Turn(w, m) ==
  /\ \A v \in Workers \ {w} : Place(v, m)' = Place(v, m)
  /\ overdue'[m] = overdue[m]
  /\ Turns(w, m)

Goings(m) == Outside(m) \/ Returns(m) \/ \E w \in Workers : Turn(w, m)

LEMMA KeepsWork ==
  ASSUME IShape, UNCHANGED work
  PROVE  Shape' /\ \A m \in Messages, w \in Workers : Place(w, m)' = Place(w, m)
  BY DEF IShape, Shape, Place

LEMMA ApplicationGoings ==
  ASSUME IShape, NEW n \in Messages, Application(n)
  PROVE  Shape' /\ \A m \in Messages : Outside(m)
<1>1. UNCHANGED <<work, provider, bounds>>
  BY DEF Application, Enqueue, CommitEnqueue, AbortEnqueue, Answer, ManualShare
<1>2. \A m \in Messages : row'[m].status = row[m].status \/ row[m].status = "none"
  <2>1. CASE Enqueue(n) \/ AbortEnqueue(n)
    BY <2>1 DEF Enqueue, AbortEnqueue, rows
  <2>2. CASE CommitEnqueue(n)
    BY <2>2 DEF CommitEnqueue, Moved, IShape, IType, DraftsFresh
  <2>3. CASE Answer(n)
    BY <2>3 DEF Answer, Moved
  <2>4. CASE ManualShare(n)
    BY <2>4 DEF ManualShare, IShape, IType, TypeOK
  <2> QED BY <2>1, <2>2, <2>3, <2>4 DEF Application
<1> QED BY <1>1, <1>2, KeepsWork DEF Outside, Same, provider, bounds

LEMMA WorldGoings ==
  ASSUME IShape, Pay \/ Void \/ Stop \/ Start
  PROVE  Shape' /\ \A m \in Messages : Outside(m)
<1>1. UNCHANGED <<work, accepted, bounds>>
  BY DEF Pay, Void, Stop, Start, provider
<1>2. ASSUME NEW S, S \subseteq InQueue, row' = Moved(S, "cancelled"), NEW m \in Messages
      PROVE  \/ row'[m].status = row[m].status
             \/ row[m].status = "queued" /\ row'[m].status = "cancelled"
  <2>1. row[m] \in Row
    BY DEF IShape, IType, TypeOK
  <2> QED BY <1>2, <2>1 DEF Moved, InQueue, Row
<1>3. ASSUME Void, NEW m \in Messages
      PROVE  \/ row'[m].status = row[m].status
             \/ row[m].status = "none"
             \/ row[m].status = "queued" /\ row'[m].status = "cancelled"
  <2> DEFINE kept == Moved(InQueue, "cancelled")
  <2>1. CASE row' = kept
    BY <1>2, <2>1
  <2>2. CASE NoticeDue /\ \E n \in Notices, verdict \in Verdicts(kept) :
               row' = [kept EXCEPT ![n].status = verdict]
    <3>1. PICK n \in Notices : row[n].status = "none" /\
             \E verdict : row' = [kept EXCEPT ![n].status = verdict]
      BY <2>2 DEF NoticeDue
    <3>2. row[m] \in Row
      BY DEF IShape, IType, TypeOK
    <3>3. m # n => row'[m] = kept[m]
      BY <3>1 DEF Moved
    <3> QED BY <3>1, <3>2, <3>3 DEF Moved, InQueue, Row
  <2> QED BY <1>3, <2>1, <2>2 DEF Void
<1>4. ASSUME Pay \/ Stop \/ Start, NEW m \in Messages
      PROVE  \/ row'[m].status = row[m].status
             \/ row[m].status = "queued" /\ row'[m].status = "cancelled"
  <2>1. CASE Pay
    BY <1>2, <2>1 DEF Pay
  <2>2. CASE Stop
    BY <1>2, <2>2 DEF Stop
  <2>3. CASE Start
    BY <2>3 DEF Start, rows
  <2> QED BY <1>4, <2>1, <2>2, <2>3
<1> QED BY <1>1, <1>3, <1>4, KeepsWork DEF Outside, Same, bounds

LEMMA WebhookGoings ==
  ASSUME IShape, NEW n \in Messages, NEW status \in DOMAIN Replaceable, Webhook(n, status)
  PROVE  Shape' /\ \A m \in Messages : Outside(m)
<1>1. UNCHANGED <<work, accepted, bounds>>
  BY DEF Webhook, provider
<1>2. /\ status \in SentStatuses \cup {"failed"}
      /\ row[n].status \in SentStatuses
  BY DEF Webhook, Replaceable, SentStatuses
<1>3. ASSUME NEW m \in Messages
      PROVE  row'[m].status = IF m = n THEN status ELSE row[m].status
  BY DEF Webhook, Moved, IShape, IType, TypeOK, Row
<1> QED BY <1>1, <1>2, <1>3, KeepsWork DEF Outside, Same, bounds

LEMMA ReturnGoings ==
  ASSUME IShape, NEW w \in Workers, NEW S \in SUBSET Messages, ReturnStuck(w, S)
  PROVE  Shape' /\ \A m \in Messages : Goings(m)
<1> DEFINE early == {m \in S : Held(m)}
<1>1. UNCHANGED <<work, accepted>> /\ row' = Moved(S, "queued")
  BY DEF ReturnStuck, provider
<1>2. ASSUME NEW m \in Messages
      PROVE  /\ m \in S => row[m].status = "sending" /\ row'[m].status = "queued"
             /\ m \notin S => row'[m] = row[m]
  BY <1>1 DEF ReturnStuck, Moved, IShape, IType, TypeOK, Row
<1>3. \A m \in Messages : Held(m) <=> \E v \in Workers : Place(v, m) # "off"
  BY HeldPlaces DEF Held
<1>4. overdue \in [Messages -> Nat]
  BY DEF IShape, IType, TypeOK
<1>5. Shape' /\ \A m \in Messages, v \in Workers : Place(v, m)' = Place(v, m)
  BY <1>1, KeepsWork
<1>6. CASE UNCHANGED <<faults, overdue>> /\ early = {}
  <2>1. \A m \in S : \A v \in Workers : Place(v, m) = "off"
    BY <1>3, <1>6
  <2>2. \A m \in Messages : Same(m)
    BY <1>1, <1>6 DEF Same
  <2>3. ASSUME NEW m \in Messages PROVE Returns(m) \/ Outside(m)
    BY <1>1, <1>2, <1>5, <2>1, <2>2 DEF Returns, Outside, Same
  <2> QED BY <1>5, <2>3 DEF Goings
<1>7. CASE /\ faults' = faults + 1
           /\ overdue' = [m \in Messages |-> overdue[m] + (IF m \in early THEN 1 ELSE 0)]
  <2> HIDE DEF early
  <2>1. ASSUME NEW m \in Messages, m \in early
        PROVE  Returns(m)
    <3>1. overdue'[m] = overdue[m] + 1 /\ m \in S
      BY <1>7, <2>1 DEF early
    <3> QED BY <1>1, <1>2, <1>5, <1>7, <3>1 DEF Returns
  <2>2. ASSUME NEW m \in Messages, m \notin early, m \in S
        PROVE  Returns(m)
    <3>1. overdue'[m] = overdue[m]
      BY <1>4, <1>7, <2>2
    <3>2. \A v \in Workers : Place(v, m) = "off"
      BY <1>3, <2>2 DEF early
    <3>3. row[m].status = "sending" /\ row'[m].status = "queued" /\ accepted'[m] = accepted[m]
      BY <1>1, <1>2, <2>2
    <3>4. faults' \in {faults, faults + 1}
      BY <1>7
    <3> QED BY <1>5, <3>1, <3>2, <3>3, <3>4 DEF Returns
  <2>3. ASSUME NEW m \in Messages, m \notin S
        PROVE  Turn(w, m)
    <3>1. overdue'[m] = overdue[m]
      BY <1>4, <1>7, <2>3 DEF early
    <3> QED BY <1>1, <1>2, <1>5, <1>7, <2>3, <3>1 DEF Turn, Turns
  <2> QED BY <1>5, <2>1, <2>2, <2>3 DEF Goings
<1> QED BY <1>6, <1>7 DEF ReturnStuck

LEMMA ClaimGoings ==
  ASSUME IShape, NEW w \in Workers, NEW S \in SUBSET Messages, Claim(w, S)
  PROVE  Shape' /\ \A m \in Messages : Turn(w, m)
<1>1. UNCHANGED <<provider, bounds>> /\ row' = Moved(S, "sending") /\ S \subseteq InQueue
  BY DEF Claim
<1>2. ASSUME NEW m \in Messages
      PROVE  /\ m \in S => row[m].status = "queued" /\ row'[m].status = "sending"
             /\ m \notin S => row'[m] = row[m]
  BY <1>1 DEF Moved, InQueue, IShape, IType, TypeOK, Row
<1>3. \A m \in Messages : Same(m)
  BY <1>1 DEF Same, provider, bounds
<1>4. /\ Alone(w)
      /\ \A m \in Messages : /\ Place(w, m) = "off"
                             /\ Place(w, m)' = IF m \in S THEN "batch" ELSE "off"
  BY ClaimPlaces
<1>5. \A m \in Messages : Turns(w, m)
  BY <1>2, <1>3, <1>4 DEF Turns, Same
<1> QED BY <1>3, <1>4, <1>5, AlonePlaces DEF Turn, Same, Alone

(* A dispatcher's update of a row it has claimed.                          *)
LEMMA FinishWrites ==
  ASSUME IShape, NEW n \in Messages, NEW new, NEW s, FromSending(n, new), new.status = s
  PROVE  /\ Writes(n, {s})
         /\ \A m \in Messages : m # n => row'[m].status = row[m].status
  BY DEF FromSending, Writes, IShape, IType, TypeOK

LEMMA ProcessGoings ==
  ASSUME IShape, NEW w \in Workers, NEW i \in work[w].batch, Process(w, i)
  PROVE  Shape' /\ \A m \in Messages : Turn(w, m)
<1>1. /\ work[w].phase = "ready" /\ i.msg \in Messages /\ Place(w, i.msg) = "batch"
      /\ \A m \in Messages : Same(m)
  BY HeldPlaces DEF Process, HoldBack, DropStale, Defer, SkipAtLimit, Clear, provider,
     bounds, Same
<1>2. CASE HoldBack(w, i) \/ DropStale(w, i) \/ Defer(w, i) \/ SkipAtLimit(w, i)
  <2>1. Through(w, work[w].batch \ {i})
    BY <1>2 DEF HoldBack, DropStale, Defer, SkipAtLimit
  <2>2. PICK s \in {"queued", "skipped", "cancelled"} : Finish(i.msg, s)
    BY <1>2 DEF HoldBack, DropStale, Defer, SkipAtLimit, StaleReason
  <2>3. /\ Alone(w)
        /\ Place(w, i.msg)' = "off"
        /\ \A m \in Messages : m # i.msg => Place(w, m)' = Place(w, m)
    BY <1>1, <2>1, DropPlaces
  <2>4. [row[i.msg] EXCEPT !.status = s].status = s
    BY <1>1 DEF IShape, IType, TypeOK, Row
  <2>5. /\ Writes(i.msg, {s})
        /\ \A m \in Messages : m # i.msg => row'[m].status = row[m].status
    BY <1>1, <2>2, <2>4, FinishWrites DEF Finish
  <2>6. \A m \in Messages : Turns(w, m)
    BY <1>1, <2>3, <2>5 DEF Turns, Same, Writes
  <2> QED BY <1>1, <2>3, <2>6, AlonePlaces DEF Turn, Same, Alone
<1>3. CASE Clear(w, i)
  <2>1. At(w, "cleared", i) /\ UNCHANGED row
    BY <1>3 DEF Clear, rows
  <2>2. /\ Alone(w)
        /\ Place(w, i.msg)' = "cleared"
        /\ \A m \in Messages : m # i.msg => Place(w, m)' = Place(w, m)
    BY <1>1, <2>1, AtPlaces DEF Phases
  <2>3. \A m \in Messages : Turns(w, m)
    BY <1>1, <2>1, <2>2 DEF Turns, Same
  <2> QED BY <1>1, <2>2, <2>3, AlonePlaces DEF Turn, Same, Alone
<1> QED BY <1>2, <1>3 DEF Process

LEMMA ProviderGoings ==
  ASSUME IShape, NEW w \in Workers, Send(w) \/ Refused(w)
  PROVE  Shape' /\ \A m \in Messages : Turn(w, m)
<1>0. PICK n \in Messages : n = work[w].item.msg /\ Place(w, n) = work[w].phase
  BY HeldPlaces DEF Send, Refused
<1>1. /\ work[w].phase = "cleared" /\ Place(w, n) = "cleared"
      /\ UNCHANGED <<row, overdue>>
  BY <1>0 DEF Send, Refused, rows, bounds
<1>2. CASE Send(w)
  <2>1. PICK phase \in {"taken", "retry"} :
          /\ work' = [work EXCEPT ![w].phase = phase]
          /\ faults' = IF phase = "taken" THEN faults ELSE faults + 1
    BY <1>2 DEF Send
  <2>2. /\ Alone(w)
        /\ Place(w, n)' = phase
        /\ \A m \in Messages : m # n => Place(w, m)' = Place(w, m)
    BY <1>0, <1>1, <2>1, PhasePlaces DEF Phases
  <2>3. accepted' = [accepted EXCEPT ![n] = @ + 1] /\ accepted \in [Messages -> Nat]
    BY <1>0, <1>2 DEF Send, IShape, IType, TypeOK
  <2>4. \A m \in Messages : accepted'[m] = IF m = n THEN accepted[m] + 1 ELSE accepted[m]
    BY <1>1, <2>3
  <2>5. \A m \in Messages : Turns(w, m)
    BY <1>1, <2>1, <2>2, <2>4 DEF Turns
  <2> QED BY <1>1, <2>2, <2>5, AlonePlaces DEF Turn, Alone
<1>3. CASE Refused(w)
  <2>1. PICK phase \in {"retry", "give_up"} : work' = [work EXCEPT ![w].phase = phase]
    BY <1>3 DEF Refused
  <2>2. /\ Alone(w)
        /\ Place(w, n)' = phase
        /\ \A m \in Messages : m # n => Place(w, m)' = Place(w, m)
    BY <1>0, <1>1, <2>1, PhasePlaces DEF Phases
  <2>3. \A m \in Messages : Same(m)
    BY <1>3 DEF Refused, Same, provider, bounds
  <2>4. \A m \in Messages : Turns(w, m)
    BY <1>1, <2>2, <2>3 DEF Turns, Same
  <2> QED BY <1>1, <2>2, <2>4, AlonePlaces DEF Turn, Alone
<1> QED BY <1>2, <1>3

LEMMA RecordGoings ==
  ASSUME IShape, NEW w \in Workers, MarkSent(w) \/ Count(w) \/ HandleError(w)
  PROVE  Shape' /\ \A m \in Messages : Turn(w, m)
<1>0. PICK n \in Messages : n = work[w].item.msg /\ Place(w, n) = work[w].phase
  BY HeldPlaces DEF MarkSent, Count, HandleError
<1>1. work[w].phase \in {"taken", "marked", "retry", "give_up"}
  BY DEF MarkSent, Count, HandleError
<1>2. \A m \in Messages : Same(m)
  BY DEF MarkSent, Count, HandleError, Same, provider, bounds
<1>3. row[n] \in Row
  BY DEF IShape, IType, TypeOK
<1>4. CASE MarkSent(w)
  <2>1. /\ Alone(w)
        /\ Place(w, n)' = "marked"
        /\ \A m \in Messages : m # n => Place(w, m)' = Place(w, m)
    BY <1>0, <1>1, <1>4, PhasePlaces DEF MarkSent, Phases
  <2>2. [row[n] EXCEPT !.status = "sent", !.attempts = @ + 1].status = "sent"
    BY <1>3 DEF Row
  <2>3. /\ Writes(n, {"sent"})
        /\ \A m \in Messages : m # n => row'[m].status = row[m].status
    BY <1>0, <1>4, <2>2, FinishWrites DEF MarkSent
  <2>4. Place(w, n) = "taken"
    BY <1>0, <1>4 DEF MarkSent
  <2>5. \A m \in Messages : Turns(w, m)
    BY <1>2, <2>1, <2>3, <2>4 DEF Turns, Same
  <2> QED BY <1>2, <2>1, <2>5, AlonePlaces DEF Turn, Same, Alone
<1>5. CASE Count(w) \/ HandleError(w)
  <2>1. Through(w, work[w].batch)
    BY <1>5 DEF Count, HandleError
  <2>2. /\ Alone(w)
        /\ Place(w, n)' = "off"
        /\ \A m \in Messages : m # n => Place(w, m)' = Place(w, m)
    BY <1>0, <1>1, <2>1, EndPlaces
  <2>3. CASE Count(w)
    <3>1. UNCHANGED row /\ Place(w, n) = "marked"
      BY <1>0, <2>3 DEF Count, rows
    <3>2. \A m \in Messages : Turns(w, m)
      BY <1>2, <2>2, <3>1 DEF Turns, Same
    <3> QED BY <1>2, <2>2, <3>2, AlonePlaces DEF Turn, Same, Alone
  <2>4. CASE HandleError(w)
    <3>1. PICK s \in {"queued", "failed"} :
            FromSending(n, [row[n] EXCEPT !.status = s, !.attempts = Attempts(work[w].item)])
      BY <1>0, <2>4 DEF HandleError
    <3>2. [row[n] EXCEPT !.status = s, !.attempts = Attempts(work[w].item)].status = s
      BY <1>3 DEF Row
    <3>3. /\ Writes(n, {s})
          /\ \A m \in Messages : m # n => row'[m].status = row[m].status
      BY <1>1, <3>1, <3>2, FinishWrites
    <3>4. Place(w, n) \in {"retry", "give_up"}
      BY <1>0, <2>4 DEF HandleError
    <3>5. \A m \in Messages : Turns(w, m)
      BY <1>2, <2>2, <3>3, <3>4 DEF Turns, Same, Writes
    <3> QED BY <1>2, <2>2, <3>5, AlonePlaces DEF Turn, Same, Alone
  <2> QED BY <1>5, <2>3, <2>4
<1> QED BY <1>4, <1>5

LEMMA FaultGoings ==
  ASSUME IShape, NEW w \in Workers, StatementFails(w) \/ Crash(w)
  PROVE  Shape' /\ \A m \in Messages : Turn(w, m)
<1>1. /\ UNCHANGED <<row, accepted, overdue>> /\ faults' = faults + 1
  BY DEF StatementFails, Crash, rows, provider
<1>2. ASSUME NEW i \in work[w].batch, work[w].phase = "ready", At(w, "retry", i),
             "db_error" \in Faults
      PROVE  Shape' /\ \A m \in Messages : Turn(w, m)
  <2>1. Place(w, i.msg) = "batch"
    BY HeldPlaces
  <2>2. /\ Alone(w)
        /\ Place(w, i.msg)' = "retry"
        /\ \A m \in Messages : m # i.msg => Place(w, m)' = Place(w, m)
    BY <1>2, AtPlaces DEF Phases
  <2>3. \A m \in Messages : Turns(w, m)
    BY <1>1, <1>2, <2>1, <2>2 DEF Turns
  <2> QED BY <1>1, <2>2, <2>3, AlonePlaces DEF Turn, Alone
<1>3. ASSUME work[w].phase \in {"taken", "marked"}, work' = [work EXCEPT ![w].phase = "retry"],
             "db_error" \in Faults
      PROVE  Shape' /\ \A m \in Messages : Turn(w, m)
  <2>1. PICK n \in Messages : n = work[w].item.msg /\ Place(w, n) = work[w].phase
    BY <1>3, HeldPlaces
  <2>2. /\ Alone(w)
        /\ Place(w, n)' = "retry"
        /\ \A m \in Messages : m # n => Place(w, m)' = Place(w, m)
    BY <1>3, <2>1, PhasePlaces DEF Phases
  <2>3. \A m \in Messages : Turns(w, m)
    BY <1>1, <1>3, <2>1, <2>2 DEF Turns
  <2> QED BY <1>1, <2>2, <2>3, AlonePlaces DEF Turn, Alone
<1>4. CASE Crash(w)
  <2>1. Alone(w) /\ \A m \in Messages : Place(w, m)' = "off"
    BY <1>4, CrashPlaces
  <2>2. \A m \in Messages : Turns(w, m)
    BY <1>1, <2>1 DEF Turns
  <2> QED BY <1>1, <2>1, <2>2, AlonePlaces DEF Turn, Alone
<1> QED BY <1>2, <1>3, <1>4 DEF StatementFails

(* Every step does to a message what one of the three may do.              *)
LEMMA NextGoings ==
  ASSUME IShape, Next
  PROVE  Shape' /\ \A m \in Messages : Goings(m)
<1>1. CASE \E n \in Messages : Application(n)
  BY <1>1, ApplicationGoings DEF Goings
<1>2. CASE Pay \/ Void \/ Stop \/ Start
  BY <1>2, WorldGoings DEF Goings
<1>3. ASSUME NEW w \in Workers, NEW S \in SUBSET Messages, ReturnStuck(w, S) \/ Claim(w, S)
      PROVE  Shape' /\ \A m \in Messages : Goings(m)
  BY <1>3, ReturnGoings, ClaimGoings DEF Goings
<1>4. ASSUME NEW w \in Workers, Step(w) \/ StatementFails(w) \/ Crash(w)
      PROVE  Shape' /\ \A m \in Messages : Goings(m)
  BY <1>4, ProcessGoings, ProviderGoings, RecordGoings, FaultGoings DEF Goings, Step
<1>5. CASE \E n \in Messages, status \in DOMAIN Replaceable : Webhook(n, status)
  BY <1>5, WebhookGoings DEF Goings
<1> QED BY <1>1, <1>2, <1>3, <1>4, <1>5 DEF Next

-----------------------------------------------------------------------------
(* What that does to the counts *)

LEMMA OneChanges ==
  ASSUME NEW S \in SUBSET Workers, NEW T \in SUBSET Workers, NEW w \in Workers,
         S \ {w} = T \ {w}
  PROVE  Cardinality(T) + One(w \in S) = Cardinality(S) + One(w \in T)
<1>1. IsFiniteSet(S) /\ IsFiniteSet(T)
  BY ClearedFinite
<1>2. /\ Cardinality(S) \in Nat /\ Cardinality(T) \in Nat
      /\ Cardinality(S \ {w}) = IF w \in S THEN Cardinality(S) - 1 ELSE Cardinality(S)
      /\ Cardinality(T \ {w}) = IF w \in T THEN Cardinality(T) - 1 ELSE Cardinality(T)
  BY <1>1, FS_CardinalityType, FS_RemoveElement
<1> QED BY <1>2 DEF One

LEMMA CountedTypes ==
  ASSUME IShape, NEW m \in Messages
  PROVE  /\ accepted[m] \in Nat /\ overdue[m] \in Nat /\ faults \in Nat
         /\ Cardinality(Holding(m)) \in Nat /\ Cardinality(Trying(m)) \in Nat
<1>1. accepted[m] \in Nat /\ overdue[m] \in Nat /\ faults \in Nat
  BY BoundsAssumption DEF IShape, IType, TypeOK
<1>2. Holding(m) \in SUBSET Workers /\ Trying(m) \in SUBSET Workers
  BY DEF Holding, Trying
<1> QED BY <1>1, <1>2, ClearedFinite

LEMMA CountedTypesNext ==
  ASSUME IShape', NEW m \in Messages
  PROVE  /\ accepted'[m] \in Nat /\ overdue'[m] \in Nat /\ faults' \in Nat
         /\ Cardinality(Holding(m))' \in Nat /\ Cardinality(Trying(m))' \in Nat
<1>1. accepted'[m] \in Nat /\ overdue'[m] \in Nat /\ faults' \in Nat
  BY BoundsAssumption DEF IShape, IType, TypeOK
<1>2. Holding(m)' \in SUBSET Workers /\ Trying(m)' \in SUBSET Workers
  BY DEF Holding, Trying
<1> QED BY <1>1, <1>2, ClearedFinite

(* A dispatcher's turn adds at most itself to those who hold the message   *)
(* or try it.                                                              *)
LEMMA TurnCounts ==
  ASSUME NEW m \in Messages, NEW w \in Workers, Turn(w, m)
  PROVE  /\ Cardinality(Holding(m))' + One(Place(w, m) # "off")
              = Cardinality(Holding(m)) + One(Place(w, m)' # "off")
         /\ Cardinality(Trying(m))' + One(w \in Trying(m))
              = Cardinality(Trying(m)) + One(w \in Trying(m)')
<1>1. /\ Holding(m) = {v \in Workers : Place(v, m) # "off"}
      /\ Holding(m)' = {v \in Workers : Place(v, m)' # "off"}
  BY DEF Holding
<1>2. \A v \in Workers \ {w} : Place(v, m)' = Place(v, m)
  BY DEF Turn
<1>3. Holding(m) \ {w} = Holding(m)' \ {w}
  BY <1>1, <1>2
<1>4. Trying(m) \ {w} = Trying(m)' \ {w}
  BY <1>2 DEF Trying
<1>5. /\ Holding(m) \in SUBSET Workers /\ Holding(m)' \in SUBSET Workers
      /\ Trying(m) \in SUBSET Workers /\ Trying(m)' \in SUBSET Workers
  BY DEF Holding, Trying
<1>6. /\ Cardinality(Holding(m)') + One(w \in Holding(m))
           = Cardinality(Holding(m)) + One(w \in Holding(m)')
      /\ Cardinality(Trying(m)') + One(w \in Trying(m))
           = Cardinality(Trying(m)) + One(w \in Trying(m)')
  BY <1>3, <1>4, <1>5, OneChanges
<1>7. /\ (w \in Holding(m)) <=> (Place(w, m) # "off")
      /\ (w \in Holding(m)') <=> (Place(w, m)' # "off")
  BY <1>1
<1> QED BY <1>6, <1>7 DEF One

LEMMA BackedStep ==
  ASSUME IOnce, IShape', NEW m \in Messages, Goings(m)
  PROVE  Cardinality(Holding(m))' + One(row[m].status = "queued")' <= 1 + overdue'[m]
<1>1. /\ overdue[m] \in Nat /\ Cardinality(Holding(m)) \in Nat
      /\ Holding(m) = {w \in Workers : Place(w, m) # "off"}
      /\ Cardinality(Holding(m)) + One(row[m].status = "queued") <= 1 + overdue[m]
  BY CountedTypes DEF IOnce, Backed, Holding
<1>2. /\ Cardinality(Holding(m))' \in Nat
      /\ Holding(m)' = {w \in Workers : Place(w, m)' # "off"}
  BY CountedTypesNext DEF Holding
<1>3. ASSUME \A w \in Workers : Place(w, m) = "off"
      PROVE  Cardinality(Holding(m)) = 0
  <2>1. Holding(m) = {}
    BY <1>1, <1>3
  <2> QED BY <2>1, FS_EmptySet
<1>4. ASSUME \A w \in Workers : Place(w, m)' = Place(w, m)
      PROVE  Cardinality(Holding(m))' = Cardinality(Holding(m))
  BY <1>1, <1>2, <1>4
<1>5. CASE Outside(m)
  <2>1. overdue'[m] = overdue[m]
    BY <1>5 DEF Outside, Same
  <2>2. CASE row[m].status = "none"
    <3>1. \A w \in Workers : Place(w, m) = "off"
      BY <2>2 DEF IOnce, Unwritten
    <3> QED BY <1>1, <1>3, <1>4, <1>5, <2>1, <3>1 DEF Outside, One
  <2>3. CASE row[m].status # "none"
    <3>1. row'[m].status = "queued" => row[m].status = "queued"
      BY <1>5, <2>3 DEF Outside, SentStatuses
    <3> QED BY <1>1, <1>4, <1>5, <2>1, <3>1 DEF Outside, One
  <2> QED BY <2>2, <2>3
<1>6. CASE Returns(m)
  <2>1. Cardinality(Holding(m))' = Cardinality(Holding(m)) /\ row[m].status # "queued"
    BY <1>4, <1>6 DEF Returns
  <2>2. CASE overdue'[m] = overdue[m] /\ \A w \in Workers : Place(w, m) = "off"
    BY <1>1, <1>3, <2>1, <2>2 DEF One
  <2>3. CASE overdue'[m] = overdue[m] + 1
    BY <1>1, <2>1, <2>3 DEF One
  <2> QED BY <1>6, <2>2, <2>3 DEF Returns
<1>7. ASSUME NEW w \in Workers, Turn(w, m)
      PROVE  Cardinality(Holding(m))' + One(row[m].status = "queued")' <= 1 + overdue'[m]
  <2>1. Cardinality(Holding(m))' + One(Place(w, m) # "off")
          = Cardinality(Holding(m)) + One(Place(w, m)' # "off")
    BY <1>7, TurnCounts
  <2>2. overdue'[m] = overdue[m]
    BY <1>7 DEF Turn
  <2>3. One(Place(w, m)' # "off") + One(row'[m].status = "queued")
          <= One(Place(w, m) # "off") + One(row[m].status = "queued")
    BY <1>7 DEF Turn, Turns, Writes, One
  <2>4. /\ One(Place(w, m)' # "off") \in 0..1 /\ One(row'[m].status = "queued") \in 0..1
        /\ One(Place(w, m) # "off") \in 0..1 /\ One(row[m].status = "queued") \in 0..1
    BY DEF One
  <2> QED BY <1>1, <1>2, <2>1, <2>2, <2>3, <2>4
<1> QED BY <1>5, <1>6, <1>7 DEF Goings

LEMMA PaidStep ==
  ASSUME IOnce, IShape', NEW m \in Messages, Goings(m)
  PROVE  accepted'[m] + Cardinality(Trying(m))' + One(Loose(m))' <= 1 + faults'
<1>1. /\ accepted[m] \in Nat /\ faults \in Nat /\ Cardinality(Trying(m)) \in Nat
      /\ accepted[m] + Cardinality(Trying(m)) + One(Loose(m)) <= 1 + faults
  BY CountedTypes DEF IOnce, PaidByFaults
<1>2. Cardinality(Trying(m))' \in Nat
  BY CountedTypesNext
<1>3. ASSUME \A w \in Workers : Place(w, m)' = Place(w, m)
      PROVE  /\ Cardinality(Trying(m))' = Cardinality(Trying(m))
             /\ Carried(m)' <=> Carried(m)
  BY <1>3 DEF Trying, Carried
<1>4. CASE Outside(m)
  <2>1. accepted'[m] = accepted[m] /\ faults' = faults
    BY <1>4 DEF Outside, Same
  <2>2. CASE row[m].status = "none"
    <3>1. accepted[m] = 0 /\ Trying(m) = {}
      BY <2>2 DEF IOnce, Unwritten, Trying
    <3>2. Cardinality(Trying(m)) = 0
      BY <3>1, FS_EmptySet
    <3> QED BY <1>1, <1>3, <1>4, <2>1, <3>1, <3>2 DEF Outside, One
  <2>3. CASE row[m].status # "none"
    <3>1. /\ row'[m].status = "queued" => row[m].status = "queued"
          /\ row'[m].status = "sending" => row[m].status = "sending"
      BY <1>4, <2>3 DEF Outside, SentStatuses
    <3>2. Loose(m)' => Loose(m)
      BY <1>3, <1>4, <3>1 DEF Loose, Outside
    <3> QED BY <1>1, <1>3, <1>4, <2>1, <3>2 DEF Outside, One
  <2> QED BY <2>2, <2>3
<1>5. CASE Returns(m)
  <2>1. Cardinality(Trying(m))' = Cardinality(Trying(m)) /\ accepted'[m] = accepted[m]
    BY <1>3, <1>5 DEF Returns
  <2>2. CASE faults' \in {faults, faults + 1} /\ \A w \in Workers : Place(w, m) = "off"
    <3>1. Loose(m)
      BY <1>5, <2>2 DEF Loose, Carried, Returns
    <3> QED BY <1>1, <2>1, <2>2, <3>1 DEF One
  <2>3. CASE faults' = faults + 1
    BY <1>1, <2>1, <2>3 DEF One
  <2> QED BY <1>5, <2>2, <2>3 DEF Returns
<1>6. ASSUME NEW w \in Workers, Turn(w, m)
      PROVE  accepted'[m] + Cardinality(Trying(m))' + One(Loose(m))' <= 1 + faults'
  <2>1. Cardinality(Trying(m))' + One(w \in Trying(m))
          = Cardinality(Trying(m)) + One(w \in Trying(m)')
    BY <1>6, TurnCounts
  <2> DEFINE trying == {"batch", "cleared", "retry", "give_up"}
             others == \E v \in Workers \ {w} : Place(v, m) \notin {"off", "marked"}
  <2>2. /\ (w \in Trying(m)) <=> Place(w, m) \in trying
        /\ (w \in Trying(m)') <=> Place(w, m)' \in trying
    BY DEF Trying
  <2>3. /\ Carried(m) <=> Place(w, m) \notin {"off", "marked"} \/ others
        /\ Carried(m)' <=> Place(w, m)' \notin {"off", "marked"} \/ others
    <3>1. \A v \in Workers \ {w} : Place(v, m)' = Place(v, m)
      BY <1>6 DEF Turn
    <3> QED BY <3>1 DEF Carried
  <2> DEFINE before == row[m].status = "queued"
                       \/ (row[m].status = "sending" /\ Place(w, m) \in {"off", "marked"} /\ ~others)
             after == row'[m].status = "queued"
                       \/ (row'[m].status = "sending" /\ Place(w, m)' \in {"off", "marked"} /\ ~others)
  <2>4. (Loose(m) <=> before) /\ (Loose(m)' <=> after)
    BY <2>3 DEF Loose
  <2> HIDE DEF others
  <2>5. accepted'[m] + One(Place(w, m)' \in trying) + One(after) + faults
          <= accepted[m] + One(Place(w, m) \in trying) + One(before) + faults'
    BY <1>1, <1>6 DEF Turn, Turns, Same, Writes, One
  <2>6. accepted'[m] \in Nat /\ faults' \in Nat
    BY CountedTypesNext
  <2>7. /\ One(w \in Trying(m)) = One(Place(w, m) \in trying)
        /\ One(w \in Trying(m)') = One(Place(w, m)' \in trying)
        /\ One(Loose(m)) = One(before) /\ One(Loose(m)') = One(after)
    BY <2>2, <2>4 DEF One
  <2>8. /\ One(Place(w, m) \in trying) \in 0..1 /\ One(before) \in 0..1
        /\ One(Place(w, m)' \in trying) \in 0..1 /\ One(after) \in 0..1
    BY DEF One
  <2>9. One(Loose(m))' = One(Loose(m)')
    BY DEF One
  <2> HIDE DEF before, after, trying
  <2> QED BY <1>1, <1>2, <2>1, <2>5, <2>6, <2>7, <2>8, <2>9
<1> QED BY <1>4, <1>5, <1>6 DEF Goings

LEMMA UnwrittenStep ==
  ASSUME IOnce, RowsGo, NEW m \in Messages, Goings(m), row'[m].status = "none"
  PROVE  accepted'[m] = 0 /\ \A w \in Workers : Place(w, m)' = "off"
<1>1. row[m].status = "none"
  BY DEF RowsGo, Goes
<1>2. accepted[m] = 0 /\ \A w \in Workers : Place(w, m) = "off"
  BY <1>1 DEF IOnce, Unwritten
<1>3. CASE Outside(m)
  BY <1>2, <1>3 DEF Outside, Same
<1>4. CASE Returns(m)
  BY <1>1, <1>4 DEF Returns
<1>5. ASSUME NEW w \in Workers, Turn(w, m)
      PROVE  accepted'[m] = 0 /\ \A v \in Workers : Place(v, m)' = "off"
  BY <1>1, <1>2, <1>5 DEF Turn, Turns, Same
<1> QED BY <1>3, <1>4, <1>5 DEF Goings

(* Nobody else holds a message that was never returned too early.          *)
LEMMA Exclusive ==
  ASSUME IOnce, NEW m \in Messages, overdue[m] = 0, NEW w \in Workers, Place(w, m) # "off"
  PROVE  /\ row[m].status # "queued"
         /\ \A v \in Workers : Place(v, m) # "off" => v = w
<1>0. Holding(m) = {v \in Workers : Place(v, m) # "off"}
  BY DEF Holding
<1>1. /\ Cardinality(Holding(m)) \in Nat
      /\ Cardinality(Holding(m)) + One(row[m].status = "queued") <= 1
  BY CountedTypes DEF IOnce, Backed
<1>2. w \in Holding(m) /\ Holding(m) \in SUBSET Workers
  BY <1>0
<1>3. Cardinality(Holding(m) \ {w}) = Cardinality(Holding(m)) - 1
  BY <1>2, ClearedFinite
<1>4. Holding(m) \ {w} \in SUBSET Workers
  BY <1>2
<1>5. Cardinality(Holding(m) \ {w}) \in Nat /\ IsFiniteSet(Holding(m) \ {w})
  BY <1>4, ClearedFinite
<1>6. row[m].status # "queued" /\ Cardinality(Holding(m) \ {w}) = 0
  BY <1>1, <1>3, <1>5 DEF One
<1>7. Holding(m) \ {w} = {}
  BY <1>5, <1>6, FS_EmptySet
<1> QED BY <1>0, <1>6, <1>7

LEMMA StillSendingStep ==
  ASSUME IOnce, IShape', NEW m \in Messages, Goings(m), overdue'[m] = 0,
         NEW w \in Workers, Place(w, m)' \in Undecided
  PROVE  row'[m].status = "sending"
<1>1. overdue[m] \in Nat
  BY CountedTypes DEF IOnce
<1>2. ASSUME overdue[m] = 0, Place(w, m) \in Undecided
      PROVE  row[m].status = "sending"
  BY <1>2 DEF IOnce, StillSending
<1>3. CASE Outside(m)
  <2>1. Place(w, m) \in Undecided /\ overdue[m] = 0
    BY <1>3 DEF Outside, Same
  <2> QED BY <1>2, <1>3, <2>1 DEF Outside, SentStatuses
<1>4. CASE Returns(m)
  BY <1>1, <1>4, UndecidedPlaces DEF Returns
<1>5. ASSUME NEW v \in Workers, Turn(v, m)
      PROVE  row'[m].status = "sending"
  <2>1. overdue[m] = 0
    BY <1>5 DEF Turn
  <2>2. CASE v # w
    <3>1. Place(w, m) \in Undecided /\ Place(w, m) # "off"
      BY <1>5, <2>2, UndecidedPlaces DEF Turn
    <3>2. row[m].status = "sending" /\ Place(v, m) = "off"
      BY <1>2, <2>1, <2>2, <3>1, Exclusive
    <3> QED BY <1>5, <3>2 DEF Turn, Turns, Same
  <2>3. CASE v = w
    <3>1. Place(w, m) \in Undecided => row[m].status = "sending"
      BY <1>2, <2>1
    <3> QED BY <1>5, <2>3, <3>1, UndecidedPlaces DEF Turn, Turns, Writes
  <2> QED BY <2>2, <2>3
<1> QED BY <1>3, <1>4, <1>5 DEF Goings

LEMMA OnceInit == Init => IOnce
<1> SUFFICES ASSUME Init PROVE IOnce
  OBVIOUS
<1>1. IType
  BY ITypeInit
<1>2. \A w \in Workers : /\ work[w].phase = "idle" /\ work[w].batch = {}
                         /\ work[w].item = NoItem
  BY DEF Init, Idle
<1>3. \A w \in Workers, m \in Messages : Place(w, m) = "off"
  BY <1>2 DEF Place
<1>4. IShape
  BY <1>1, <1>2 DEF IShape, Shape
<1>5. \A m \in Messages : Holding(m) = {} /\ Trying(m) = {}
  BY <1>3 DEF Holding, Trying
<1>6. \A m \in Messages : /\ row[m].status = "none" /\ accepted[m] = 0 /\ overdue[m] = 0
  BY DEF Init, NoRow
<1>7. Backed /\ PaidByFaults
  BY <1>5, <1>6, FS_EmptySet DEF Backed, PaidByFaults, Loose, One, Init
<1>8. Unwritten /\ StillSending
  BY <1>3, <1>6, UndecidedPlaces DEF Unwritten, StillSending
<1> QED BY <1>4, <1>7, <1>8 DEF IOnce

LEMMA OnceNext ==
  ASSUME IOnce, [Next]_vars
  PROVE  IOnce'
<1>1. CASE Next
  <2>1. RowsGo
    BY <1>1, RowsStep DEF IOnce, IShape
  <2>2. IShape' /\ \A m \in Messages : Goings(m)
    BY <1>1, NextGoings, ITypeNext DEF IOnce, IShape
  <2>3. Backed'
    BY <2>2, BackedStep DEF Backed
  <2>4. PaidByFaults'
    BY <2>2, PaidStep DEF PaidByFaults
  <2>5. Unwritten'
    BY <2>1, <2>2, UnwrittenStep DEF Unwritten
  <2>6. StillSending'
    BY <2>2, StillSendingStep DEF StillSending, Undecided
  <2> QED BY <2>2, <2>3, <2>4, <2>5, <2>6 DEF IOnce
<1>2. CASE UNCHANGED vars
  <2>1. UNCHANGED <<row, work, accepted, faults, overdue>>
    BY <1>2 DEF vars, rows, provider, bounds
  <2>2. \A m \in Messages, w \in Workers :
          Place(w, m)' = Place(w, m)
    BY <2>1 DEF Place
  <2>3. \A m \in Messages : /\ Holding(m)' = Holding(m) /\ Trying(m)' = Trying(m)
                            /\ Loose(m)' <=> Loose(m)
    BY <2>1, <2>2 DEF Holding, Trying, Loose, Carried
  <2>4. Backed' /\ PaidByFaults'
    BY <2>1, <2>3 DEF IOnce, Backed, PaidByFaults, One
  <2>5. Unwritten' /\ StillSending'
    BY <2>1, <2>2 DEF IOnce, Unwritten, StillSending, Undecided
  <2>6. Shape'
    BY <2>1 DEF IOnce, IShape, Shape
  <2> QED BY <1>2, <2>4, <2>5, <2>6, ITypeNext DEF IOnce, IShape
<1> QED BY <1>1, <1>2

LEMMA OnceAlways == Spec => []IOnce
<1>1. IOnce /\ [Next]_vars => IOnce'
  BY OnceNext
<1> QED BY <1>1, OnceInit, PTL DEF Spec

(* Whatever crashes, fails or is slow, a message is with one dispatcher at *)
(* a time, and with one more for each time its row was queued again while  *)
(* one still had it; a batch within STUCK_SENDING_MINUTES is never joined. *)
THEOREM OneDispatcherAtATime == Spec => []OneWorkerPerMessage
<1>1. IOnce => OneWorkerPerMessage
  <2> SUFFICES ASSUME IOnce, NEW m \in Messages
               PROVE  Cardinality(Holders(m)) <= 1 + overdue[m]
    BY DEF OneWorkerPerMessage
  <2>1. Holders(m) = Holding(m)
    BY HeldPlaces DEF IOnce, Holders, Holding
  <2>2. /\ Cardinality(Holding(m)) \in Nat /\ overdue[m] \in Nat
        /\ Cardinality(Holding(m)) + One(row[m].status = "queued") <= 1 + overdue[m]
    BY CountedTypes DEF IOnce, Backed
  <2> QED BY <2>1, <2>2 DEF One
<1> QED BY <1>1, OnceAlways, PTL

(* ... and the customer gets it once, and once more for each crash, lost   *)
(* answer, failed statement or slow batch.                                 *)
THEOREM DuplicatesArePaidFor == Spec => []DuplicatesNeedFaults
<1>1. IOnce => DuplicatesNeedFaults
  <2> SUFFICES ASSUME IOnce, NEW m \in Messages
               PROVE  accepted[m] <= 1 + faults
    BY DEF DuplicatesNeedFaults
  <2>1. /\ accepted[m] \in Nat /\ faults \in Nat /\ Cardinality(Trying(m)) \in Nat
        /\ accepted[m] + Cardinality(Trying(m)) + One(Loose(m)) <= 1 + faults
    BY CountedTypes DEF IOnce, PaidByFaults
  <2> QED BY <2>1 DEF One
<1> QED BY <1>1, OnceAlways, PTL

-----------------------------------------------------------------------------
(* The notice that the allowance is used up *)

(* Nobody is told before the count reaches the limit, which it does once.  *)
ToldAtLimit == told <= 1 /\ (usage < Limit => told = 0)

LEMMA ToldStep ==
  ASSUME IType, ToldAtLimit, Next
  PROVE  ToldAtLimit'
<1>0. usage \in Nat /\ told \in Nat /\ Limit \in Nat
  BY BoundsAssumption DEF IType, TypeOK
<1>1. ASSUME usage' = usage /\ told' = told
      PROVE  ToldAtLimit'
  BY <1>1 DEF ToldAtLimit
<1>2. ASSUME NEW w \in Workers, Count(w)
      PROVE  ToldAtLimit'
  <2>1. CASE Counted(work[w].item.msg)
    <3>1. usage' = usage + 1 /\ told' = IF usage + 1 = Limit THEN told + 1 ELSE told
      BY <1>2, <2>1 DEF Count, ReachesLimit
    <3> QED BY <1>0, <3>1 DEF ToldAtLimit
  <2>2. CASE ~Counted(work[w].item.msg)
    BY <1>1, <1>2, <2>2 DEF Count
  <2> QED BY <2>1, <2>2
<1>3. ASSUME NEW m \in Messages, Application(m)
      PROVE  usage' = usage /\ told' = told
  BY <1>3 DEF Application, Enqueue, CommitEnqueue, AbortEnqueue, Answer, ManualShare, books
<1>4. CASE Pay \/ Void \/ Stop \/ Start
  BY <1>1, <1>4 DEF Pay, Void, Stop, Start, books
<1>5. ASSUME NEW w \in Workers, NEW S \in SUBSET Messages, ReturnStuck(w, S) \/ Claim(w, S)
      PROVE  usage' = usage /\ told' = told
  BY <1>5 DEF ReturnStuck, Claim, books
<1>6. ASSUME NEW w \in Workers, NEW i \in work[w].batch, Process(w, i)
      PROVE  usage' = usage /\ told' = told
  BY <1>6 DEF Process, HoldBack, DropStale, Defer, SkipAtLimit, Clear, books
<1>7. ASSUME NEW w \in Workers, Send(w) \/ Refused(w) \/ MarkSent(w) \/ HandleError(w)
      PROVE  usage' = usage /\ told' = told
  BY <1>7 DEF Send, Refused, MarkSent, HandleError, books
<1>8. ASSUME NEW w \in Workers, StatementFails(w) \/ Crash(w)
      PROVE  usage' = usage /\ told' = told
  BY <1>8 DEF StatementFails, Crash, books
<1>9. ASSUME NEW m \in Messages, NEW status \in DOMAIN Replaceable, Webhook(m, status)
      PROVE  usage' = usage /\ told' = told
  BY <1>9 DEF Webhook, books
<1> QED BY <1>1, <1>2, <1>3, <1>4, <1>5, <1>6, <1>7, <1>8, <1>9 DEF Next, Step

(* However many dispatchers count at the same time, the owners are told    *)
(* once that the month's allowance is used up.                             *)
THEOREM AllowanceToldOnce == Spec => []ToldOnce
<1> DEFINE I == IType /\ ToldAtLimit
<1>1. Init => I
  BY ITypeInit DEF Init, ToldAtLimit
<1>2. I /\ [Next]_vars => I'
  <2>1. ASSUME I, UNCHANGED vars PROVE ToldAtLimit'
    BY <2>1 DEF ToldAtLimit, vars, books
  <2> QED BY <2>1, ToldStep, ITypeNext
<1>3. I => ToldOnce
  BY DEF ToldAtLimit, ToldOnce
<1> QED BY <1>1, <1>2, <1>3, PTL DEF Spec

-----------------------------------------------------------------------------
(* The alerts to senders *)

LEMMA AlertsStep ==
  ASSUME "db_error" \notin Faults, IOnce, AlertsTrue, Next
  PROVE  AlertsTrue'
<1>0. RowsGo /\ alerted \subseteq Messages /\ row \in [Messages -> Row]
  BY RowsStep DEF IOnce, IShape, IType, TypeOK
<1>1. \A m \in alerted : row'[m].status = "failed" \/ overdue'[m] > 0
  <2>1. \A m \in Messages : overdue'[m] \in {overdue[m], overdue[m] + 1} /\ overdue[m] \in Nat
    BY NextGoings, CountedTypes DEF IOnce, Goings, Outside, Returns, Turn, Same
  <2> QED BY <1>0, <2>1 DEF RowsGo, Goes, AlertsTrue
<1>2. ASSUME alerted' = alerted
      PROVE  AlertsTrue'
  BY <1>1, <1>2 DEF AlertsTrue
<1>3. ASSUME NEW w \in Workers, HandleError(w)
      PROVE  AlertsTrue'
  <2> DEFINE i == work[w].item
             new == [row[i.msg] EXCEPT !.status = "failed", !.attempts = Attempts(i)]
  <2>1. i.msg \in Messages /\ work[w].phase \in {"retry", "give_up"}
    BY <1>3, HeldPlaces DEF IOnce, HandleError
  <2>2. row[i.msg] \in Row /\ (overdue[i.msg] = 0 => row[i.msg].status = "sending")
    <3>1. Place(w, i.msg) \in Undecided
      BY <2>1, HeldPlaces, UndecidedPlaces DEF IOnce
    <3> QED BY <1>0, <2>1, <3>1 DEF IOnce, StillSending
  <2>3. CASE work[w].phase = "retry" /\ MayRetry(Attempts(i))
    BY <1>2, <1>3, <2>3 DEF HandleError
  <2>4. CASE ~(work[w].phase = "retry" /\ MayRetry(Attempts(i)))
    <3>1. alerted' = alerted \cup {i.msg} /\ UNCHANGED overdue
      BY <1>3, <2>4 DEF HandleError, bounds
    <3>2. CASE overdue[i.msg] = 0
      <4>1. row' = [row EXCEPT ![i.msg] = new]
        BY <1>3, <2>2, <2>4, <3>2 DEF HandleError, FromSending
      <4>2. new.status = "failed"
        BY <2>2 DEF Row
      <4>3. row'[i.msg].status = "failed"
        BY <1>0, <2>1, <4>1, <4>2
      <4> QED BY <1>1, <3>1, <4>3 DEF AlertsTrue
    <3>3. CASE overdue[i.msg] # 0
      <4>1. overdue[i.msg] > 0
        BY <2>1, <3>3, CountedTypes DEF IOnce
      <4> QED BY <1>1, <3>1, <4>1 DEF AlertsTrue
    <3> QED BY <3>2, <3>3
  <2> QED BY <2>3, <2>4
<1>4. ASSUME NEW m \in Messages, NEW status \in DOMAIN Replaceable, Webhook(m, status)
      PROVE  AlertsTrue'
  <2>1. alerted' = IF status = "failed" THEN alerted \cup {m} ELSE alerted
    BY <1>4 DEF Webhook
  <2>2. row'[m].status = status
    BY <1>0, <1>4 DEF Webhook, Moved, Row
  <2> QED BY <1>1, <2>1, <2>2 DEF AlertsTrue
<1>5. ASSUME NEW m \in Messages, Application(m)
      PROVE  alerted' = alerted
  BY <1>5 DEF Application, Enqueue, CommitEnqueue, AbortEnqueue, Answer, ManualShare, books
<1>6. CASE Pay \/ Void \/ Stop \/ Start
  BY <1>2, <1>6 DEF Pay, Void, Stop, Start, books
<1>7. ASSUME NEW w \in Workers, NEW S \in SUBSET Messages, ReturnStuck(w, S) \/ Claim(w, S)
      PROVE  alerted' = alerted
  BY <1>7 DEF ReturnStuck, Claim, books
<1>8. ASSUME NEW w \in Workers, NEW i \in work[w].batch, Process(w, i)
      PROVE  alerted' = alerted
  BY <1>8 DEF Process, HoldBack, DropStale, Defer, SkipAtLimit, Clear, books
<1>9. ASSUME NEW w \in Workers, Send(w) \/ Refused(w) \/ MarkSent(w) \/ Count(w)
      PROVE  alerted' = alerted
  BY <1>9 DEF Send, Refused, MarkSent, Count, books
<1>10. ASSUME NEW w \in Workers, StatementFails(w) \/ Crash(w)
       PROVE  alerted' = alerted
  BY <1>10 DEF StatementFails, Crash, books
<1> QED BY <1>2, <1>3, <1>4, <1>5, <1>6, <1>7, <1>8, <1>9, <1>10 DEF Next, Step

(* A sender who is told that a message was not delivered finds it failed,  *)
(* unless a slow batch gave it to two dispatchers, as long as no statement *)
(* of the dispatcher fails: one that fails after the row was marked sends  *)
(* it to handleError, which alerts all the same.                           *)
THEOREM AlertsAreTrue ==
  ASSUME "db_error" \notin Faults
  PROVE  Spec => []AlertsTrue
<1>1. Init => AlertsTrue
  BY DEF Init, AlertsTrue
<1>2. IOnce /\ AlertsTrue /\ [Next]_vars => AlertsTrue'
  <2>1. ASSUME AlertsTrue, UNCHANGED vars PROVE AlertsTrue'
    BY <2>1 DEF AlertsTrue, vars, books, bounds
  <2> QED BY <2>1, AlertsStep
<1> QED BY <1>1, <1>2, OnceAlways, PTL DEF Spec
=============================================================================
