---------------------------- MODULE MessageOutbox ----------------------------
(***************************************************************************)
(* The WhatsApp outbox: MessagingService writes rows next to the posting   *)
(* that causes them, the dispatchers of one or more processes claim and    *)
(* send them, and the provider's webhooks report back.  The messages are   *)
(* those about one invoice, and the automatic replies to its customer.     *)
(*                                                                         *)
(* A dispatcher uses no transaction: its claim, its checks, the provider's *)
(* call, the row's update and the count are steps of their own, and        *)
(* anything may happen in between.                                         *)
(* Time is left out: a row may be due, or stuck, whenever the code's       *)
(* deadlines allow it to be.                                               *)
(***************************************************************************)
EXTENDS Integers, FiniteSets, FiniteSetsExt

CONSTANTS
  Workers,      (* processes that run the dispatcher                       *)
  Issued,       (* the invoice and its resends (idempotency keys)          *)
  Reminders,    (* reminders of the invoice                                *)
  Notices,      (* notices that the invoice is cancelled; {} to leave them *)
                (* out of an instance                                      *)
  Replies,      (* automatic replies to the customer                       *)
  MaxAttempts,  (* MAX_SEND_ATTEMPTS                                       *)
  Batch,        (* DISPATCH_BATCH                                          *)
  Limit,        (* messages the plan or the owner allows in the month      *)
  Faults,       (* what may go wrong, of FaultKinds                        *)
  MaxFaults,    (* bound: how often it may                                 *)
  MaxDeferrals, (* bound: how often quiet hours may put a message off      *)
  NoItem

(***************************************************************************)
(* crash: a process stops, or gives its batch up because even handleError  *)
(* fails.  lost_answer: the provider accepts a message and its answer is   *)
(* lost.  db_error: a statement of the dispatcher fails.  slow: a batch    *)
(* takes more than STUCK_SENDING_MINUTES and its rows are queued again.    *)
(***************************************************************************)
FaultKinds == {"crash", "lost_answer", "db_error", "slow"}

Messages == Issued \cup Reminders \cup Notices \cup Replies

ASSUME KindsAssumption ==
  /\ Issued \cap Reminders = {} /\ Issued \cap Notices = {}
  /\ Reminders \cap Notices = {}
  /\ Replies \cap (Issued \cup Reminders \cup Notices) = {}
ASSUME BoundsAssumption ==
  /\ MaxAttempts \in Nat \ {0} /\ Batch \in Nat /\ Limit \in Nat
  /\ MaxFaults \in Nat /\ MaxDeferrals \in Nat
ASSUME FaultsAssumption == Faults \subseteq FaultKinds
ASSUME WorkersAssumption == IsFiniteSet(Workers)

VARIABLES
  row,          (* the outbound_messages rows                              *)
  draft,        (* verdict of a row written by a posting not yet committed *)
  work,         (* what each dispatcher holds in memory                    *)
  usage,        (* messaging_usage of the month, service replies excluded  *)
  told,         (* notices that the allowance is used up                   *)
  alerted,      (* messages reported to their sender as not delivered      *)
  invoice,      (* status of the invoice                                   *)
  optedOut,     (* whatsapp_opt_out of the customer                        *)
  faults, deferrals,
  overdue,      (* how often a row was queued again while still held       *)
  accepted,     (* how often the provider took each message                *)
  afterStop,    (* messages it took since the customer's last STOP         *)
  afterPay      (* reminders it took since the invoice was settled         *)

rows == <<row, draft>>
books == <<usage, told, alerted>>
world == <<invoice, optedOut>>
bounds == <<faults, deferrals, overdue>>
provider == <<accepted, afterStop, afterPay>>
vars == <<row, draft, work, books, world, bounds, provider>>

-----------------------------------------------------------------------------
(* Rows *)

SentStatuses == {"sent", "delivered", "read"}
Statuses == SentStatuses \cup {"queued", "sending", "failed", "skipped", "cancelled"}

(* manual: shared by hand, channel wa_link.                                *)
Row == [status : Statuses \cup {"none"}, attempts : 0..MaxAttempts, manual : BOOLEAN]
NoRow == [status |-> "none", attempts |-> 0, manual |-> FALSE]

Counted(m) == m \notin Replies

Unread == {m \in Messages : row[m].status \in {"queued", "sending", "sent"}}
InQueue == {m \in Messages : row[m].status = "queued"}
Waiting(m) == row[m].status \in {"queued", "sending"}

(* Moves messages S to a status.                                           *)
Moved(S, status) ==
  [m \in Messages |-> IF m \in S THEN [row[m] EXCEPT !.status = status] ELSE row[m]]

(***************************************************************************)
(* skipReason, on rows r: used in the month plus waiting to go.  Features, *)
(* rules, the number and consent may also hold a message back.             *)
(***************************************************************************)
WaitingToGo(r) == {m \in Messages : Counted(m) /\ r[m].status \in {"queued", "sending"}}
Verdicts(r) ==
  IF optedOut \/ usage + Cardinality(WaitingToGo(r)) >= Limit
    THEN {"skipped"} ELSE {"queued", "skipped"}

-----------------------------------------------------------------------------
(* The application *)

(* A partly paid invoice can no longer be voided.                          *)
Owed == {"open", "partial"}

(* Resend needs an earlier message that is no longer on its way.           *)
Resendable(S) == \E m \in S : row[m].status \notin {"none", "queued", "sending"}

(***************************************************************************)
(* doEnqueue in the transaction of a posting, of the dunning run or of a   *)
(* resend: the checks see committed rows, the row is seen at the commit.   *)
(* A message is an idempotency key: a second row for it is not written.    *)
(***************************************************************************)
Enqueue(m) ==
  /\ row[m].status = "none" /\ draft[m] = "none"
  /\ \/ m \in Issued /\ (invoice # "void" \/ Resendable(Issued))
     \/ m \in Reminders /\ (invoice \in Owed \/ Resendable(Reminders))
     \/ m \in Notices /\ Resendable(Notices)
  /\ \E verdict \in Verdicts(row) : draft' = [draft EXCEPT ![m] = verdict]
  /\ UNCHANGED <<row, work, books, world, bounds, provider>>

CommitEnqueue(m) ==
  /\ draft[m] # "none"
  /\ row' = Moved({m}, draft[m])
  /\ draft' = [draft EXCEPT ![m] = "none"]
  /\ UNCHANGED <<work, books, world, bounds, provider>>

(* The posting fails, or enqueue fails and rolls back to its savepoint.    *)
AbortEnqueue(m) ==
  /\ draft[m] # "none"
  /\ draft' = [draft EXCEPT ![m] = "none"]
  /\ UNCHANGED <<row, work, books, world, bounds, provider>>

(***************************************************************************)
(* replyToInbound: the customer writes to a number that sent them a        *)
(* message.  The reply is filed under that message's document.             *)
(***************************************************************************)
Answer(m) ==
  /\ m \in Replies /\ row[m].status = "none"
  /\ ~optedOut
  /\ \E n \in Messages \ Replies : row[n].status \in SentStatuses /\ ~row[n].manual
  /\ row' = Moved({m}, "queued")
  /\ UNCHANGED <<draft, work, books, world, bounds, provider>>

(* logManualShare: someone sent the invoice from their own chat.           *)
ManualShare(m) ==
  /\ m \in Issued /\ row[m].status = "none" /\ draft[m] = "none"
  /\ row' = [row EXCEPT ![m] = [status |-> "sent", attempts |-> 1, manual |-> TRUE]]
  /\ UNCHANGED <<draft, work, books, world, bounds, provider>>

(* A payment, in part or in full, cancels the queued reminders.            *)
Pay ==
  /\ invoice \in Owed
  /\ invoice' \in {"partial", "settled"}
  /\ row' = Moved(InQueue \cap Reminders, "cancelled")
  /\ UNCHANGED <<draft, work, books, optedOut, bounds, provider>>

(* requireSent: the customer was sent the invoice or a reminder of it.     *)
WasSent == \E m \in Issued \cup Reminders : row[m].status \in SentStatuses

(* Its key is the invoice's, so a second notice is not written.            *)
NoticeDue ==
  WasSent /\ Notices # {} /\ \A n \in Notices : row[n].status = "none"

(***************************************************************************)
(* Voiding the invoice cancels everything queued about it and, in the same *)
(* transaction, queues a notice if one is due.  Nothing refuses to void an *)
(* invoice a second time.                                                  *)
(***************************************************************************)
Void ==
  LET kept == Moved(InQueue, "cancelled") IN
  /\ invoice \in {"open", "void"}
  /\ invoice' = "void"
  /\ \/ /\ NoticeDue
        /\ \E n \in Notices, verdict \in Verdicts(kept) :
             row' = [kept EXCEPT ![n].status = verdict]
     \/ ~NoticeDue /\ row' = kept
  /\ UNCHANGED <<draft, work, books, optedOut, bounds, provider>>

(* handleInbound: STOP also cancels what is queued to the customer.        *)
Stop ==
  /\ ~optedOut
  /\ optedOut' = TRUE
  /\ row' = Moved(InQueue, "cancelled")
  /\ UNCHANGED <<draft, work, books, invoice, bounds, provider>>

Start ==
  /\ optedOut
  /\ optedOut' = FALSE
  /\ afterStop' = 0
  /\ UNCHANGED <<rows, work, books, invoice, bounds, accepted, afterPay>>

-----------------------------------------------------------------------------
(* The dispatcher *)

(***************************************************************************)
(* A claimed row as the dispatcher remembers it: tries is the row's number *)
(* of attempts when it was claimed.  phase says where processOne is with   *)
(* item: "cleared" all its checks passed, "taken" by the provider,         *)
(* "marked" as sent, or in handleError after an error worth a retry or     *)
(* not.  "ready" is between two rows of the batch.                         *)
(***************************************************************************)
Item == [msg : Messages, tries : 0..MaxAttempts]
ASSUME NoItemAssumption == NoItem \notin Item
Phases == {"idle", "ready", "cleared", "taken", "marked", "retry", "give_up"}
Work == [phase : Phases, batch : SUBSET Item, item : Item \cup {NoItem}]
Idle == [phase |-> "idle", batch |-> {}, item |-> NoItem]

Init ==
  /\ row = [m \in Messages |-> NoRow]
  /\ draft = [m \in Messages |-> "none"]
  /\ work = [w \in Workers |-> Idle]
  /\ usage = 0 /\ told = 0 /\ alerted = {}
  /\ invoice = "open" /\ optedOut = FALSE
  /\ faults = 0 /\ deferrals = 0 /\ overdue = [m \in Messages |-> 0]
  /\ accepted = [m \in Messages |-> 0] /\ afterStop = 0 /\ afterPay = 0

Holds(w, m) == \E i \in (work[w].batch \cup {work[w].item}) \ {NoItem} : i.msg = m

Held(m) == \E w \in Workers : Holds(w, m)

(***************************************************************************)
(* The claim first queues again what has been "sending" for longer than    *)
(* STUCK_SENDING_MINUTES: whoever held it is gone, or, a fault, is slow.   *)
(* One slow batch may have several rows that are returned together.        *)
(***************************************************************************)
ReturnStuckAtOnce(w, S) ==
  /\ work[w].phase = "idle"
  /\ S # {} /\ \A m \in S : row[m].status = "sending"
  /\ row' = Moved(S, "queued")
  /\ UNCHANGED <<draft, work, books, world, bounds, provider>>
ReturnStuck(w, S) ==
  LET early == {m \in S : Held(m)} IN
  /\ work[w].phase = "idle"
  /\ S # {} /\ \A m \in S : row[m].status = "sending"
  /\ \/ early = {} /\ UNCHANGED <<faults, overdue>>
     \/ /\ early # {} /\ "slow" \in Faults /\ faults < MaxFaults
        /\ faults' = faults + 1
        /\ overdue' = [m \in Messages |-> overdue[m] + (IF m \in early THEN 1 ELSE 0)]
  /\ row' = Moved(S, "queued")
  /\ UNCHANGED <<draft, work, books, world, deferrals, provider>>

Claim(w, S) ==
  /\ work[w].phase = "idle"
  /\ S # {} /\ S \subseteq InQueue /\ Cardinality(S) <= Batch
  /\ row' = Moved(S, "sending")
  /\ work' = [work EXCEPT ![w] =
       [Idle EXCEPT !.phase = "ready",
                    !.batch = {[msg |-> m, tries |-> row[m].attempts] : m \in S}]]
  /\ UNCHANGED <<draft, books, world, bounds, provider>>

(* The dispatcher goes on to processOne with an item of its batch.         *)
At(w, phase, i) ==
  work' = [work EXCEPT ![w].phase = phase, ![w].batch = @ \ {i}, ![w].item = i]

(* ... or is through with it: the next one, or the end of runOnce.         *)
Through(w, batch) ==
  work' = [work EXCEPT ![w] =
    IF batch = {} THEN Idle ELSE [Idle EXCEPT !.phase = "ready", !.batch = batch]]

(* Every write of the dispatcher leaves a row alone that is not "sending". *)
FromSending(m, new) ==
  row' = IF row[m].status = "sending" THEN [row EXCEPT ![m] = new] ELSE row
Finish(m, status) == FromSending(m, [row[m] EXCEPT !.status = status])

StaleUnlessStopped(m) ==
  IF m \in Reminders /\ invoice \notin Owed THEN "cancelled" ELSE "none"
StaleUnlessPaid(m) == IF optedOut THEN "skipped" ELSE "none"
(* What staleReason answers, or "none".                                    *)
StaleReason(m) ==
  IF optedOut THEN "skipped"
  ELSE IF m \in Reminders /\ invoice \notin Owed THEN "cancelled" ELSE "none"

(* The number is gone or has changed, collections are paused, or the       *)
(* company has turned the feature off.                                     *)
HoldBack(w, i) ==
  /\ work[w].phase = "ready" /\ i \in work[w].batch
  /\ \E status \in {"skipped", "cancelled"} : Finish(i.msg, status)
  /\ Through(w, work[w].batch \ {i})
  /\ UNCHANGED <<draft, books, world, bounds, provider>>

DropStale(w, i) ==
  /\ work[w].phase = "ready" /\ i \in work[w].batch
  /\ StaleReason(i.msg) # "none"
  /\ Finish(i.msg, StaleReason(i.msg))
  /\ Through(w, work[w].batch \ {i})
  /\ UNCHANGED <<draft, books, world, bounds, provider>>

(* Quiet hours; a reply is exempt.                                         *)
Defer(w, i) ==
  /\ work[w].phase = "ready" /\ i \in work[w].batch
  /\ StaleReason(i.msg) = "none" /\ i.msg \notin Replies
  /\ deferrals < MaxDeferrals
  /\ deferrals' = deferrals + 1
  /\ Finish(i.msg, "queued")
  /\ Through(w, work[w].batch \ {i})
  /\ UNCHANGED <<draft, books, world, faults, overdue, provider>>

AtLimit(m) == Counted(m) /\ usage >= Limit

SkipAtLimit(w, i) ==
  /\ work[w].phase = "ready" /\ i \in work[w].batch
  /\ StaleReason(i.msg) = "none" /\ AtLimit(i.msg)
  /\ Finish(i.msg, "skipped")
  /\ Through(w, work[w].batch \ {i})
  /\ UNCHANGED <<draft, books, world, bounds, provider>>

Clear(w, i) ==
  /\ work[w].phase = "ready" /\ i \in work[w].batch
  /\ StaleReason(i.msg) = "none" /\ ~AtLimit(i.msg)
  /\ At(w, "cleared", i)
  /\ UNCHANGED <<rows, books, world, bounds, provider>>

(* The provider takes the message; its answer may be lost.                 *)
Send(w) ==
  LET m == work[w].item.msg IN
  /\ work[w].phase = "cleared"
  /\ accepted' = [accepted EXCEPT ![m] = @ + 1]
  /\ afterStop' = IF optedOut THEN afterStop + 1 ELSE afterStop
  /\ afterPay' = IF m \in Reminders /\ invoice \notin Owed THEN afterPay + 1 ELSE afterPay
  /\ \/ /\ work' = [work EXCEPT ![w].phase = "taken"]
        /\ UNCHANGED faults
     \/ /\ "lost_answer" \in Faults /\ faults < MaxFaults
        /\ faults' = faults + 1
        /\ work' = [work EXCEPT ![w].phase = "retry"]
  /\ UNCHANGED <<rows, books, world, deferrals, overdue>>

(* The provider refuses it, or the PDF cannot be produced.                 *)
Refused(w) ==
  /\ work[w].phase = "cleared"
  /\ \E phase \in {"retry", "give_up"} : work' = [work EXCEPT ![w].phase = phase]
  /\ UNCHANGED <<rows, books, world, bounds, provider>>

MarkSentLeavesSending(w) ==
  LET m == work[w].item.msg IN
  /\ work[w].phase = "taken"
  /\ FromSending(m, [row[m] EXCEPT !.attempts = @ + 1])
  /\ work' = [work EXCEPT ![w].phase = "marked"]
  /\ UNCHANGED <<draft, books, world, bounds, provider>>
MarkSent(w) ==
  LET m == work[w].item.msg IN
  /\ work[w].phase = "taken"
  /\ FromSending(m, [row[m] EXCEPT !.status = "sent", !.attempts = @ + 1])
  /\ work' = [work EXCEPT ![w].phase = "marked"]
  /\ UNCHANGED <<draft, books, world, bounds, provider>>

PassesLimit(used) == used >= Limit
ReachesLimit(used) == used = Limit

(* The month's count, and a notice to the owners when it reaches the limit.*)
Count(w) ==
  LET m == work[w].item.msg IN
  /\ work[w].phase = "marked"
  /\ usage' = IF Counted(m) THEN usage + 1 ELSE usage
  /\ told' = IF Counted(m) /\ ReachesLimit(usage') THEN told + 1 ELSE told
  /\ Through(w, work[w].batch)
  /\ UNCHANGED <<rows, alerted, world, bounds, provider>>

SameAttempts(i) == i.tries
Attempts(i) == i.tries + 1
MayRetry(attempts) == attempts < MaxAttempts

(* handleError.  A message given up is reported, whatever its row says.    *)
HandleError(w) ==
  LET i == work[w].item
      attempts == Attempts(i)
      again == work[w].phase = "retry" /\ MayRetry(attempts)
      status == IF again THEN "queued" ELSE "failed" IN
  /\ work[w].phase \in {"retry", "give_up"}
  /\ FromSending(i.msg, [row[i.msg] EXCEPT !.status = status, !.attempts = attempts])
  /\ alerted' = IF again THEN alerted ELSE alerted \cup {i.msg}
  /\ Through(w, work[w].batch)
  /\ UNCHANGED <<draft, usage, told, world, bounds, provider>>

(* A statement fails before the provider is asked, or after.               *)
StatementFails(w) ==
  /\ "db_error" \in Faults /\ faults < MaxFaults
  /\ faults' = faults + 1
  /\ \/ /\ work[w].phase = "ready"
        /\ \E i \in work[w].batch : At(w, "retry", i)
     \/ /\ work[w].phase \in {"taken", "marked"}
        /\ work' = [work EXCEPT ![w].phase = "retry"]
  /\ UNCHANGED <<rows, books, world, deferrals, overdue, provider>>

Crash(w) ==
  /\ "crash" \in Faults /\ faults < MaxFaults
  /\ work[w].phase # "idle"
  /\ faults' = faults + 1
  /\ work' = [work EXCEPT ![w] = Idle]
  /\ UNCHANGED <<rows, books, world, deferrals, overdue, provider>>

ReplaceableAfterFailure ==
  [delivered |-> {"sent"}, read |-> {"sent", "delivered", "failed"},
   failed |-> {"sent", "delivered"}]
(***************************************************************************)
(* applyProviderStatus.  The provider may report any status of a message   *)
(* at any time, late, twice or out of order.  A report that arrives before *)
(* the row holds its provider id finds no row and is lost.                 *)
(***************************************************************************)
Replaceable == [delivered |-> {"sent"}, read |-> {"sent", "delivered"},
                failed |-> {"sent", "delivered"}]

Webhook(m, status) ==
  /\ ~row[m].manual /\ row[m].status \in Replaceable[status]
  /\ row' = Moved({m}, status)
  /\ alerted' = IF status = "failed" THEN alerted \cup {m} ELSE alerted
  /\ UNCHANGED <<draft, work, usage, told, world, bounds, provider>>

-----------------------------------------------------------------------------
Application(m) == Enqueue(m) \/ CommitEnqueue(m) \/ AbortEnqueue(m) \/ Answer(m) \/ ManualShare(m)

Process(w, i) ==
  HoldBack(w, i) \/ DropStale(w, i) \/ Defer(w, i) \/ SkipAtLimit(w, i) \/ Clear(w, i)

Step(w) ==
  \/ \E i \in work[w].batch : Process(w, i)
  \/ Send(w) \/ Refused(w) \/ MarkSent(w) \/ Count(w) \/ HandleError(w)

Next ==
  \/ \E m \in Messages : Application(m)
  \/ Pay \/ Void \/ Stop \/ Start
  \/ \E w \in Workers, S \in SUBSET Messages : ReturnStuck(w, S) \/ Claim(w, S)
  \/ \E w \in Workers : Step(w) \/ StatementFails(w) \/ Crash(w)
  \/ \E m \in Messages, status \in DOMAIN Replaceable : Webhook(m, status)

Spec == Init /\ [][Next]_vars

(***************************************************************************)
(* The timer runs the dispatcher every five seconds, its statements end    *)
(* (calls to the provider time out), and the claim takes the oldest due    *)
(* rows first, so none is passed over for ever.                            *)
(***************************************************************************)
Returned(m) == \E w \in Workers, S \in SUBSET Messages : m \in S /\ ReturnStuck(w, S)
Claimed(m) == \E w \in Workers, S \in SUBSET Messages : m \in S /\ Claim(w, S)

Fairness ==
  /\ \A w \in Workers : WF_vars(Step(w))
  /\ \A m \in Messages : SF_vars(Returned(m)) /\ SF_vars(Claimed(m))

FairSpec == Spec /\ Fairness

-----------------------------------------------------------------------------
(* Properties *)

(* Every variable has its type; no row counts more than MAX_SEND_ATTEMPTS. *)
TypeOK ==
  /\ row \in [Messages -> Row]
  /\ draft \in [Messages -> {"none", "queued", "skipped"}]
  /\ work \in [Workers -> Work]
  /\ usage \in Nat /\ told \in Nat /\ alerted \subseteq Messages
  /\ invoice \in Owed \cup {"settled", "void"} /\ optedOut \in BOOLEAN
  /\ faults \in 0..MaxFaults /\ deferrals \in 0..MaxDeferrals
  /\ overdue \in [Messages -> Nat]
  /\ accepted \in [Messages -> Nat] /\ afterStop \in Nat /\ afterPay \in Nat

(***************************************************************************)
(* A message is with one dispatcher: FOR UPDATE SKIP LOCKED and the status *)
(* "sending" keep a claimed row from every other claim.  Only a batch that *)
(* outlives STUCK_SENDING_MINUTES is joined by another, one each time its  *)
(* row is returned, whoever writes to the row in the meantime.             *)
(***************************************************************************)
Holders(m) == {w \in Workers : Holds(w, m)}
OneWorkerPerMessage == \A m \in Messages : Cardinality(Holders(m)) <= 1 + overdue[m]

(***************************************************************************)
(* The provider takes a message a second time only after a fault: a crash, *)
(* a lost answer, a failed statement or a slow batch each costs one        *)
(* duplicate at most.                                                      *)
(***************************************************************************)
DuplicatesNeedFaults == \A m \in Messages : accepted[m] <= 1 + faults

(***************************************************************************)
(* Dispatchers that check the allowance at the same time may pass it       *)
(* together, but by no more than one message each; a fault may leave one   *)
(* more uncounted.                                                         *)
(***************************************************************************)
Sends == MapThenSumSet(LAMBDA m : accepted[m], Messages \ Replies)
AllowanceNearlyKept == Sends < Limit + Cardinality(Workers) + faults

(* The owners are told once that the allowance is used up.                 *)
ToldOnce == told <= 1

(***************************************************************************)
(* After STOP the customer gets at most the message each dispatcher was    *)
(* about to send, whatever was queued, stuck or waiting for a retry.       *)
(***************************************************************************)
StopHonoured == afterStop <= Cardinality(Workers)

(* The same for reminders once the invoice is settled or void.             *)
NoDunningAfterPayment == afterPay <= Cardinality(Workers)

(***************************************************************************)
(* Nobody is told that an invoice is cancelled who was not sent it: by the *)
(* provider, or by hand.                                                   *)
(***************************************************************************)
NoticeOnlyIfSent ==
  (\E n \in Notices : row[n].status # "none") =>
    \E m \in Issued \cup Reminders : accepted[m] > 0 \/ row[m].manual

(***************************************************************************)
(* A sender alerted that a message was not delivered finds it failed; but  *)
(* when a slow batch let another dispatcher take it up, one of them may    *)
(* report a failure while the other sends it.                              *)
(***************************************************************************)
AlertsTrue == \A m \in alerted : row[m].status = "failed" \/ overdue[m] > 0

(***************************************************************************)
(* Statuses only move forward, and nothing leaves "read", "failed",        *)
(* "skipped" or "cancelled".                                               *)
(***************************************************************************)
Stage ==
  [m \in Messages |-> IF Waiting(m) THEN "waiting" ELSE row[m].status]
Life == INSTANCE MessageLife WITH stage <- Stage
ImplementsMessageLife == Life!Spec

(* Every message queued is sent, or comes to another end.                  *)
EveryMessageEnds == \A m \in Messages : Waiting(m) ~> ~Waiting(m)
=============================================================================
