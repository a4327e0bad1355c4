---------------------------- MODULE MessageRules ----------------------------
(***************************************************************************)
(* The rules around the outbox of MessageOutbox: what a company may set,   *)
(* which messages its postings, its runs and its people write, to whom     *)
(* they may go, when, with what in them, and what the screens say of it.   *)
(* A value printed in a message is only its name; days, hours and money    *)
(* are numbers, in one time zone without a change of clocks.               *)
(***************************************************************************)
EXTENDS MessageOutbox, OrderMessages

CONSTANTS Hours,    \* bound: hours in a day
          LastDay   \* bound: days a reminder may be scheduled from the due one

ASSUME RulesAssumption == Hours \in Nat \ {0} /\ LastDay \in Nat

-----------------------------------------------------------------------------
(* What a company has set. *)

Default == [enabled |-> FALSE, since |-> 0, cap |-> -1, confirmed |-> FALSE,
  quiet |-> [start |-> 21, end |-> 9], schedule |-> [before |-> {3}, after |-> {0, 7, 15, 30}],
  rules |-> [invoice_issued |-> "auto", invoice_revised |-> "auto", invoice_cancelled |-> "auto",
             payment_received |-> "auto", po_issued |-> "auto", po_cancelled |-> "auto",
             remittance |-> "auto", approval_pending |-> "auto", reminder_upcoming |-> "off",
             reminder_overdue |-> "auto", statement |-> "off", delivery_update |-> "off"]]
NotSet == [none |-> TRUE]
Over(new, old) == [f \in DOMAIN old |-> IF f \in DOMAIN new THEN new[f] ELSE old[f]]

(* mergeRules and resolve: a rule, or a whole row, may not be stored yet.   *)
Resolved(stored) ==
  IF stored = NotSet THEN Default ELSE [stored EXCEPT !.rules = Over(@, Default.rules)]

(* update and upsert, at a time; sent holds the fields that were sent.      *)
Update(stored, sent, now) ==
  LET current == Resolved(stored)
      written == [f \in DOMAIN sent |->
        CASE f = "rules" -> Over(sent[f], current.rules)
          [] f = "schedule" -> [sent[f] EXCEPT !.before = @ \ {0}]
          [] OTHER -> sent[f]]
      saved == Over(written, IF stored = NotSet THEN Default ELSE stored)
  IN IF "enabled" \in DOMAIN sent /\ sent.enabled /\ current.since = 0
       THEN [saved EXCEPT !.since = now] ELSE saved

-----------------------------------------------------------------------------
(* The messages, by who writes them: what each puts in, what is looked up   *)
(* for it, and whether a PDF goes with it.                                  *)

Message(event, party, params, pdf) ==
  [event |-> event, party |-> party, params |-> params, pdf |-> pdf]
IssuedMessage == Message("invoice_issued", "customer", {"invoiceNumber", "total", "dueDate"}, TRUE)
CancelledMessage == Message("invoice_cancelled", "customer", {"invoiceNumber", "total"}, FALSE)
ReceivedMessage ==
  Message("payment_received", "customer", {"amount", "receiptNumber", "balance"}, TRUE)
PoIssuedMessage == Message("po_issued", "vendor", {"poNumber", "total", "expectedDate"}, TRUE)
PoCancelledMessage == Message("po_cancelled", "vendor", {"poNumber"}, FALSE)
RemittanceMessage == Message("remittance", "vendor", {"amount", "reference", "bills"}, TRUE)
ApprovalMessage ==
  Message("approval_pending", "user", {"summary", "approvalPath", "requester"}, FALSE)
DeliveryMessage ==
  Message("delivery_update", "customer", {"deliveryNumber", "statusText"}, FALSE)
ReminderMessage(offset) ==
  Message(IF offset < 0 THEN "reminder_upcoming" ELSE "reminder_overdue", "customer",
          {"invoiceNumber", "balance", "dueDate"}, offset >= 0)
StatementMessage == Message("statement", "customer", {"period", "closingBalance"}, TRUE)
TestMessage == Message("test", "user", {}, FALSE)
Written ==
  {IssuedMessage, CancelledMessage, ReceivedMessage, PoIssuedMessage, PoCancelledMessage,
   RemittanceMessage, ApprovalMessage, DeliveryMessage, ReminderMessage(-1),
   ReminderMessage(0), StatementMessage, TestMessage}

(* TEMPLATES: the values a template prints, in its body or its button.      *)
Template(document, params) == [document |-> document, params |-> {"company"} \cup params]
Named(params) == {"recipientName"} \cup params
Templates ==
  [invoice_issued |-> Template(TRUE, Named({"invoiceNumber", "total", "dueDate"})),
   invoice_revised |-> Template(TRUE, Named({"invoiceNumber", "total", "dueDate"})),
   invoice_cancelled |-> Template(FALSE, Named({"invoiceNumber", "total"})),
   payment_received |-> Template(TRUE, Named({"amount", "receiptNumber", "balance"})),
   reminder_upcoming |-> Template(FALSE, Named({"invoiceNumber", "balance", "dueDate"})),
   reminder_overdue |-> Template(TRUE, Named({"invoiceNumber", "balance", "dueDate"})),
   statement |-> Template(TRUE, Named({"period", "closingBalance"})),
   po_issued |-> Template(TRUE, Named({"poNumber", "total", "expectedDate"})),
   po_cancelled |-> Template(FALSE, Named({"poNumber"})),
   remittance |-> Template(TRUE, Named({"amount", "bills", "reference"})),
   approval_pending |-> Template(FALSE, {"requester", "summary", "approvalPath"}),
   delivery_update |-> Template(FALSE, Named({"deliveryNumber", "statusText"})),
   test |-> Template(FALSE, Named({}))]

(* doEnqueue adds the names; logManualShare writes no values, and a share   *)
(* is marked sent.  resend writes the row's values again, the names anew.   *)
Stored(msg) == [msg EXCEPT !.params = @ \cup {"company", "recipientName"}]
Shared(msg) == [msg EXCEPT !.params = {}, !.pdf = FALSE]
CanResend(status, shared, event) ==
  status \in {"failed", "skipped", "cancelled"} /\ ~shared /\ event # "auto_reply"
Resent(stored) == Stored([stored EXCEPT !.params = @ \ {"company", "recipientName"}])
(* processOne sends a row: no value printed is left out, a PDF is there.    *)
Complete(stored) ==
  LET t == Templates[stored.event]
  IN t.params \subseteq stored.params /\ (t.document => stored.pdf)

-----------------------------------------------------------------------------
(* Who may be written to. *)

(* number: what is known of the contact's number; reached: a message was    *)
(* delivered to it, or WhatsApp refused it since, or neither.               *)
Contacts == [number : {"none", "unusable", "usable"}, out : BOOLEAN, consent : BOOLEAN,
             reached : {"yes", "refused", "unknown"}]
ContactReasons == {"no_number", "opted_out", "no_consent"}

SkipReason(event, explicit, contact, s, used, allowance) ==
  LET test == event = "test"
      rule == IF test THEN "auto" ELSE s.rules[event]
  IN CASE ~s.enabled /\ ~test -> "connect_disabled"
       [] rule = "off" -> "rule_off"
       [] rule = "manual" /\ ~explicit -> "rule_manual"
       [] contact.number # "usable" -> "no_number"
       [] contact.out -> "opted_out"
       [] ~contact.consent /\ ~s.confirmed -> "no_consent"
       [] ~test /\ s.cap >= 0 /\ used >= s.cap -> "cap_reached"
       [] ~test /\ used >= allowance -> "plan_limit_reached"
       [] OTHER -> "none"

(* contactHealth *)
Health(contact, s) ==
  CASE contact.out -> "opted_out"
    [] contact.number = "unusable" -> "invalid"
    [] contact.number = "none" -> "missing"
    [] contact.reached = "refused" -> "not_on_whatsapp"
    [] ~contact.consent /\ ~s.confirmed -> "no_consent"
    [] contact.reached = "yes" -> "ready"
    [] OTHER -> "unverified"

-----------------------------------------------------------------------------
(* When. *)

(* deferUntil: an hour since the start of the first day, or -1.             *)
DeferUntil(now, window) ==
  LET cur == now % Hours
      crosses == window.start > window.end
      inside == IF crosses THEN cur >= window.start \/ cur < window.end
                ELSE cur >= window.start /\ cur < window.end
      days == (now \div Hours) + (IF crosses /\ cur >= window.start THEN 1 ELSE 0)
  IN IF window.start = window.end \/ ~inside THEN -1 ELSE days * Hours + window.end

(* reminderTargets of a day, and what the run writes about an invoice.      *)
Targets(today, schedule) ==
  {[due |-> today + d, offset |-> -d] : d \in schedule.before \ {0}}
    \cup {[due |-> today - d, offset |-> d] : d \in schedule.after}
Reminded(invoiced, today, s) ==
  {ReminderMessage(t.offset) : t \in {t \in Targets(today, s.schedule) :
     /\ s.enabled /\ s.rules[ReminderMessage(t.offset).event] = "auto"
     /\ t.due = invoiced.due /\ invoiced.status \in {"sent", "partial"} /\ invoiced.balance > 0}}

(* send, of an invoice: asked for a kind of message, or for none.           *)
SentByHand(invoiced, asked, today) ==
  IF invoiced.status \in {"draft", "void"} THEN {}
  ELSE IF asked = "invoice_issued" THEN {IssuedMessage}
  ELSE IF asked = "reminder" /\ invoiced.balance > 0 THEN {ReminderMessage(today - invoiced.due)}
  ELSE {}
(* staleReason, when its turn comes; paused: collections of the customer.   *)
Stale(msg, invoiced, paused) ==
  /\ msg.event \in {"reminder_upcoming", "reminder_overdue"}
  /\ paused \/ invoiced.status \in {"void", "paid", "draft"} \/ invoiced.balance <= 0

-----------------------------------------------------------------------------
(* stats, over the rows of the outbox.                                      *)
Figures ==
  LET api == {m \in Messages \ Replies : ~row[m].manual}
      count(statuses) == Cardinality({m \in api : row[m].status \in statuses})
  IN [sent |-> count(SentStatuses), delivered |-> count({"delivered", "read"}),
      failed |-> count({"failed"}), skipped |-> count({"skipped"}),
      queued |-> count({"queued", "sending"})]

-----------------------------------------------------------------------------
(* Every message the postings and the runs write, and every row the         *)
(* timeline offers to resend, however often, has what its template prints.  *)
MessagesComplete ==
  /\ \A msg \in Written :
       LET once == Resent(Stored(msg))
       IN Complete(Stored(msg)) /\ Complete(once) /\ Complete(Resent(once))
  /\ \A msg \in Written, status \in Statuses, shared \in BOOLEAN :
       LET stored == IF shared THEN Shared(msg) ELSE Stored(msg)
       IN CanResend(status, shared, msg.event) => Complete(Resent(stored))

(* Whatever was stored, and however often, a setting that was not sent      *)
(* keeps its value, one rule its other rules; the day Connect was first     *)
(* switched on is not moved.                                                *)
Edits == {[enabled |-> TRUE], [enabled |-> FALSE], [cap |-> 5], [confirmed |-> TRUE],
          [rules |-> [statement |-> "manual"]], [rules |-> [po_issued |-> "off"], cap |-> 0],
          [quiet |-> [start |-> 0, end |-> 0]], [schedule |-> [before |-> {1}, after |-> {2}]]}
SettingsKept ==
  \A stored \in {NotSet, Default, [Default EXCEPT !.rules = [statement |-> "auto"]]},
     first, second \in Edits :
    LET one == Update(stored, first, 1)
        before == Resolved(one)
        after == Resolved(Update(one, second, 2))
    IN /\ \A f \in DOMAIN Default \ {"since", "rules"} :
            after[f] = IF f \in DOMAIN second THEN second[f]
                       ELSE IF f \in DOMAIN first THEN first[f] ELSE Resolved(stored)[f]
       /\ \A e \in DOMAIN Default.rules :
            after.rules[e] = IF "rules" \in DOMAIN second /\ e \in DOMAIN second.rules
                               THEN second.rules[e] ELSE before.rules[e]
       /\ before.since # 0 => after.since = before.since
       /\ after.enabled => after.since # 0

(* Quiet hours hold a message to their first end, never longer.             *)
QuietHoursEnd ==
  \A start, end \in 0 .. Hours - 1, now \in 0 .. 2 * Hours - 1 :
    LET window == [start |-> start, end |-> end]
        until == DeferUntil(now, window)
    IN until # -1 => /\ until > now /\ until - now < Hours
                     /\ DeferUntil(until, window) = -1
                     /\ \A h \in now .. until - 1 : DeferUntil(h, window) = until

(* A contact the health screen has no complaint about is never passed over  *)
(* for what is known of it, and one passed over for that is on the screen.  *)
ContactsTold ==
  \A contact \in Contacts, confirmed \in BOOLEAN, event \in DOMAIN Templates, used \in 0 .. 1 :
    LET s == [Default EXCEPT !.enabled = TRUE, !.confirmed = confirmed]
        reason == SkipReason(event, TRUE, contact, s, used, 1)
        health == Health(contact, s)
    IN /\ reason \in ContactReasons =>
            health \in {"opted_out", "missing", "invalid", "no_consent", "not_on_whatsapp"}
       /\ health \in {"opted_out", "missing", "invalid", "no_consent"} => reason # "none"

(* The reminders of the run are those a person would send that day, on each *)
(* day of the schedule once, and none the dispatcher would hold for settled.*)
Invoiced == {i \in [due : {LastDay}, status : {"draft", "sent", "partial", "paid", "void"},
                    balance : 0 .. 1] :
               /\ i.status \in {"sent", "partial"} => i.balance > 0
               /\ i.status = "paid" => i.balance = 0}
RemindersAgree ==
  \A i \in Invoiced, before, after \in SUBSET (0 .. LastDay) :
    LET s == [Default EXCEPT !.enabled = TRUE, !.rules["reminder_upcoming"] = "auto",
                             !.schedule = [before |-> before \ {0}, after |-> after]]
    IN /\ \A today \in 0 .. 2 * LastDay :
            LET run == Reminded(i, today, s)
            IN /\ run \subseteq SentByHand(i, "reminder", today)
               /\ \A msg \in SentByHand(i, "reminder", today) : ~Stale(msg, i, FALSE)
               /\ run # {} <=> (i.status \in {"sent", "partial"} /\
                                (i.due - today \in before \ {0} \/ today - i.due \in after))

(* What is shown as sent was counted against the allowance, but for what a  *)
(* dispatcher has not counted yet, or lost when it failed.                  *)
FiguresCounted ==
  Figures.sent <= usage + faults + Cardinality({w \in Workers : work[w].phase = "marked"})

(* The settings, the messages, the screens and the runs agree on what is    *)
(* sent: to whom, when, with what in it and how it is counted.  However the *)
(* dispatchers interleave, the allowance is passed by no more than they     *)
(* hold, and a notice follows only what was sent.                           *)
RulesAgree ==
  /\ (\A m \in Messages : row[m] = NoRow /\ draft[m] = "none") /\ invoice = "open" /\ ~optedOut =>
       /\ MessagesComplete /\ SettingsKept /\ QuietHoursEnd
       /\ ContactsTold /\ RemindersAgree /\ VendorKnows
  /\ FiguresCounted /\ AllowanceNearlyKept /\ NoticeOnlyIfSent
=============================================================================
