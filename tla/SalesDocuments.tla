--------------------------- MODULE SalesDocuments ---------------------------
(***************************************************************************)
(* How a customer's estimates and sales orders become invoices, and the    *)
(* two ways an operation of the back end is run: by a client that retries  *)
(* its POST under an idempotency key, and by an owner who approves what a  *)
(* staff member asked for.  The invoice itself is in Receivables.          *)
(*                                                                         *)
(* A job is one run of a handler.  It has committed its document when it   *)
(* is "posted"; it may fail before that, after that (reading the document  *)
(* back, or marking the estimate, can fail too), or die with the process.  *)
(* Stock, credit and validation only refuse an operation.                  *)
(***************************************************************************)
EXTENDS FiniteSets, FiniteSums

CONSTANTS Orders, Estimates, Keys, Approvals, Jobs,
          Ordered,      \* units on an order
          Overlapping,  \* what may be served together
          MaxWrites     \* bound: transactions that commit

ASSUME SalesAssumption ==
  /\ IsFiniteSet(Orders) /\ Ordered \in Nat \ {0} /\ MaxWrites \in Nat
  /\ Orders \cap Estimates = {} /\ Keys \cap Approvals = {} /\ "none" \notin Estimates

VARIABLES order, estimate,  \* rows
          key,              \* idempotency record: its status
          approval,         \* approval request: status and what it asks for
          call,             \* client: key -> the call it makes with it
          job,              \* handler runs in progress
          billed,           \* history: order or estimate -> invoices made of it
          effects,          \* history: key or approval -> documents made for it
          late,             \* history: keys and approvals that failed after a commit
          torn,             \* history: estimates whose mark was lost
          writes

rows == <<order, estimate>>
history == <<billed, effects, late, torn>>
vars == <<order, estimate, key, approval, call, job, billed, effects, late, torn, writes>>

NoOrder == [status |-> "none", from |-> "none", delivery |-> FALSE, shipped |-> 0]
NoCall == [do |-> "none"]
NoJob == [at |-> "idle"]

(* Some orders may be there already, of their own or made for a delivery.   *)
Init ==
  /\ \E given \in SUBSET Orders, delivery \in BOOLEAN :
       order = [o \in Orders |-> IF o \in given
                                 THEN [NoOrder EXCEPT !.status = "open", !.delivery = delivery]
                                 ELSE NoOrder]
  /\ estimate = [e \in Estimates |-> "draft"]
  /\ key = [k \in Keys |-> "none"]
  /\ approval = [a \in Approvals |-> [status |-> "none", call |-> NoCall]]
  /\ call = [k \in Keys |-> NoCall]
  /\ job = [j \in Jobs |-> NoJob]
  /\ billed = [x \in Orders \cup Estimates |-> 0]
  /\ effects = [c \in Keys \cup Approvals |-> 0]
  /\ late = {} /\ torn = {}
  /\ writes = 0

-----------------------------------------------------------------------------
(* What a call may ask for, and the guards of the handlers.                 *)

Calls ==
  {[do |-> "invoice"]} \cup {[do |-> "order"]}
    \cup [do : {"convert"}, o : Orders]
    \cup [do : {"estimate"}, e : Estimates, to : {"invoice", "order"}]
(* What a staff member may ask an owner for: what makes an invoice.         *)
Gated == {c \in Calls : c.do # "order" /\ (c.do = "estimate" => c.to = "invoice")}
KindOf(c) == IF c.do = "estimate" THEN "estimate" ELSE "call"

Exists(o) == order[o].status \notin {"none", "gone"}
Free == {o \in Orders : order[o].status = "none"}
MayConvertAgain(o) == Exists(o) /\ order[o].status # "cancelled" /\ ~order[o].delivery
MayConvert(o) == MayConvertAgain(o) /\ order[o].status # "invoiced"
Convertible(status) == status \notin {"converted", "declined", "gone"}

ShipStatus(shipped) ==
  IF shipped >= Ordered THEN "fulfilled" ELSE IF shipped > 0 THEN "partial" ELSE "open"

-----------------------------------------------------------------------------
(* Jobs. *)

Idle(j) == job[j].at = "idle"
At(j, stage) == job[j].at = stage
Room == writes < MaxWrites
Start(j, kind, new) ==
  /\ Idle(j) /\ Room
  /\ \A i \in {x \in Jobs : ~Idle(x)} : {kind, job[i].kind} \subseteq Overlapping
  /\ job' = [job EXCEPT ![j] = new]
Move(j, stage) == job' = [job EXCEPT ![j].at = stage]
End(j) == job' = [job EXCEPT ![j] = NoJob]
Wrote == writes' = writes + 1
By(j) == job[j].by

(* --- Clients and their keys --- *)

(* A client chooses the call it makes with a key once; it sends it again    *)
(* whenever an answer is late.  A key that is completed or in progress is   *)
(* answered without running anything.                                       *)
Send(j) ==
  \E k \in Keys, c \in Calls :
    /\ call[k] \in {NoCall, c}
    /\ key[k] = "none"
    /\ call' = [call EXCEPT ![k] = c]
    /\ Start(j, KindOf(c), [at |-> "reserve", kind |-> KindOf(c), by |-> k, call |-> c])
    /\ UNCHANGED <<rows, key, approval, history, writes>>

(* The unique index on (company, key) decides between two of them.          *)
ReserveAnyway(k) == TRUE
MayReserve(k) == key[k] = "none"
Reserve(j) ==
  /\ At(j, "reserve")
  /\ IF MayReserve(By(j))
     THEN Move(j, "run") /\ key' = [key EXCEPT ![By(j)] = "pending"]
     ELSE End(j) /\ UNCHANGED key
  /\ UNCHANGED <<rows, approval, call, history, writes>>

(* --- Staff requests and owners --- *)

File ==
  \E a \in Approvals, c \in Gated :
    /\ Room
    /\ approval[a].status = "none"
    /\ approval' = [approval EXCEPT ![a] = [status |-> "pending", call |-> c]]
    /\ Wrote
    /\ UNCHANGED <<rows, key, call, job, history>>

Decide(j) ==
  \E a \in Approvals :
    LET c == approval[a].call
    IN /\ approval[a].status = "pending"
       /\ Start(j, KindOf(c), [at |-> "claim", kind |-> KindOf(c), by |-> a, call |-> c])
       /\ UNCHANGED <<rows, key, approval, call, history, writes>>

(* approve: the conditional update is the arbiter between two of them.      *)
ClaimAnyway(a) == approval[a].status \in {"pending", "approving"}
MayClaim(a) == approval[a].status = "pending"
Claim(j) ==
  /\ At(j, "claim")
  /\ IF MayClaim(By(j))
     THEN Move(j, "run") /\ approval' = [approval EXCEPT ![By(j)].status = "approving"]
     ELSE End(j) /\ UNCHANGED approval
  /\ UNCHANGED <<rows, key, call, history, writes>>

(* reject and cancel read the request, then save it.                        *)
Dismiss(j) ==
  \E a \in Approvals, status \in {"rejected", "cancelled"} :
    /\ approval[a].status = "pending"
    /\ Start(j, "dismiss", [at |-> "dismiss", kind |-> "dismiss", by |-> a, status |-> status])
    /\ UNCHANGED <<rows, key, approval, call, history, writes>>
Dismissed(j) ==
  /\ At(j, "dismiss")
  /\ approval' = [approval EXCEPT ![By(j)].status = job[j].status]
  /\ End(j) /\ Wrote
  /\ UNCHANGED <<rows, key, call, history>>

(* --- The handlers --- *)

Made(j) == effects' = [effects EXCEPT ![By(j)] = @ + 1]
Billed(x) == billed' = [billed EXCEPT ![x] = @ + 1]

CreateInvoice(j) ==
  /\ At(j, "run") /\ job[j].call.do = "invoice"
  /\ Made(j) /\ Move(j, "posted") /\ Wrote
  /\ UNCHANGED <<rows, key, approval, call, billed, late, torn>>
CreateOrder(j) ==
  /\ At(j, "run") /\ job[j].call.do = "order"
  /\ \E o \in Free : order' = [order EXCEPT ![o] = [NoOrder EXCEPT !.status = "open"]]
  /\ Made(j) /\ Move(j, "posted") /\ Wrote
  /\ UNCHANGED <<estimate, key, approval, call, billed, late, torn>>

(* Locks the order.                                                         *)
ConvertOrder(j) ==
  /\ At(j, "run") /\ job[j].call.do = "convert"
  /\ LET o == job[j].call.o
     IN /\ MayConvert(o)
        /\ order' = [order EXCEPT ![o].status = "invoiced"]
        /\ Billed(o)
  /\ Made(j) /\ Move(j, "posted") /\ Wrote
  /\ UNCHANGED <<estimate, key, approval, call, late, torn>>

(* Reads the estimate, makes the document in a transaction of its own, then *)
(* saves the estimate.                                                      *)
ReadEstimate(j) ==
  /\ At(j, "run") /\ job[j].call.do = "estimate"
  /\ Convertible(estimate[job[j].call.e])
  /\ Move(j, "make")
  /\ UNCHANGED <<rows, key, approval, call, history, writes>>
MakeOfEstimate(j) ==
  /\ At(j, "make")
  /\ LET e == job[j].call.e
     IN IF job[j].call.to = "invoice" THEN Billed(e) /\ UNCHANGED order
        ELSE /\ \E o \in Free :
                  order' = [order EXCEPT ![o] = [NoOrder EXCEPT !.status = "open", !.from = e]]
             /\ UNCHANGED billed
  /\ Made(j) /\ Move(j, "mark") /\ Wrote
  /\ UNCHANGED <<estimate, key, approval, call, late, torn>>
MarkConverted(e) == "converted"
Mark(j) ==
  /\ At(j, "mark")
  /\ estimate' = [estimate EXCEPT ![job[j].call.e] = MarkConverted(job[j].call.e)]
  /\ Move(j, "posted") /\ Wrote
  /\ UNCHANGED <<order, key, approval, call, history>>

(* --- How a run ends --- *)

Finish(j) ==
  LET x == By(j)
  IN /\ At(j, "posted")
     /\ key' = IF x \in Keys THEN [key EXCEPT ![x] = "completed"] ELSE key
     /\ approval' = IF x \in Approvals THEN [approval EXCEPT ![x].status = "approved"] ELSE approval
     /\ End(j)
     /\ UNCHANGED <<rows, call, history, writes>>

(* A failure releases the key, or puts the request back to pending, whether *)
(* or not the handler's transaction has committed.                          *)
Fail(j) ==
  LET x == By(j)
  IN /\ job[j].at \in {"run", "make", "mark", "posted"}
     /\ key' = IF x \in Keys THEN [key EXCEPT ![x] = "none"] ELSE key
     /\ approval' = IF x \in Approvals THEN [approval EXCEPT ![x].status = "pending"] ELSE approval
     /\ late' = IF job[j].at \in {"mark", "posted"} THEN late \cup {x} ELSE late
     /\ torn' = IF At(j, "mark") THEN torn \cup {job[j].call.e} ELSE torn
     /\ End(j)
     /\ UNCHANGED <<rows, call, billed, effects, writes>>

(* The process dies: keys stay pending and requests approving.              *)
Crash ==
  /\ \E j \in Jobs : ~Idle(j)
  /\ job' = [j \in Jobs |-> NoJob]
  /\ torn' = torn \cup {job[j].call.e : j \in {i \in Jobs : At(i, "mark")}}
  /\ UNCHANGED <<rows, key, approval, call, billed, effects, late, writes>>

(* --- Orders and estimates in between; none takes a lock --- *)

(* An edit saves the row it read, shipped or not: only the lines of an      *)
(* order that has shipped are refused.                                      *)
SaveOrder(j) ==
  \E o \in Orders, shipped \in 0..Ordered, status \in {"shipped", "edited", "cancelled", "gone"} :
    LET row == order[o]
        new == CASE status = "shipped" ->
                      [row EXCEPT !.shipped = shipped, !.status = ShipStatus(shipped)]
                 [] status = "edited" -> row
                 [] status = "cancelled" -> [row EXCEPT !.status = status]
                 [] OTHER -> [NoOrder EXCEPT !.status = status]
    IN /\ Exists(o) /\ row.status # "invoiced"
       /\ status \in {"shipped", "edited"} => row.status # "cancelled"
       /\ IF status = "shipped" THEN shipped # row.shipped /\ ~row.delivery ELSE shipped = 0
       /\ Start(j, "saveOrder", [at |-> "saveOrder", kind |-> "saveOrder", o |-> o, row |-> new])
       /\ UNCHANGED <<rows, key, approval, call, history, writes>>
OrderSaved(j) ==
  /\ At(j, "saveOrder")
  /\ order' = [order EXCEPT ![job[j].o] = job[j].row]
  /\ End(j) /\ Wrote
  /\ UNCHANGED <<estimate, key, approval, call, history>>

SaveEstimate(j) ==
  \E e \in Estimates, status \in {"sent", "accepted", "declined", "gone"} :
    /\ estimate[e] \notin {"converted", "gone", status}
    /\ Start(j, "saveEstimate", [at |-> "saveEstimate", kind |-> "saveEstimate", e |-> e,
                                 status |-> status])
    /\ UNCHANGED <<rows, key, approval, call, history, writes>>
EstimateSaved(j) ==
  /\ At(j, "saveEstimate")
  /\ estimate' = [estimate EXCEPT ![job[j].e] = job[j].status]
  /\ End(j) /\ Wrote
  /\ UNCHANGED <<order, key, approval, call, history>>

-----------------------------------------------------------------------------
JobStep(j) ==
  \/ Send(j) \/ Reserve(j) \/ Decide(j) \/ Claim(j) \/ Dismiss(j) \/ Dismissed(j)
  \/ CreateInvoice(j) \/ CreateOrder(j) \/ ConvertOrder(j)
  \/ ReadEstimate(j) \/ MakeOfEstimate(j) \/ Mark(j)
  \/ Finish(j) \/ Fail(j)
  \/ SaveOrder(j) \/ OrderSaved(j) \/ SaveEstimate(j) \/ EstimateSaved(j)
Next == (\E j \in Jobs : JobStep(j)) \/ File \/ Crash

Spec == Init /\ [][Next]_vars

-----------------------------------------------------------------------------
(* The comment on the interceptor: a retry never posts twice.  Whatever     *)
(* arrives twice, fails or dies with the process, a key makes one document  *)
(* at most, and exactly one when it is completed; except when a handler     *)
(* fails after its transaction, which releases the key.                     *)
KeyedOnce ==
  \A k \in Keys \ late :
    /\ effects[k] <= 1
    /\ key[k] = "completed" => effects[k] = 1
    /\ key[k] = "none" => effects[k] = 0

(* The comments on decide and on ApprovalRequest: a request does nothing    *)
(* until it is approved, and what it asks for is done once, though owners   *)
(* decide it at the same time or the process dies while it is replayed;     *)
(* with the same exception.                                                 *)
ApprovedOnce ==
  \A a \in Approvals \ late :
    /\ effects[a] <= 1
    /\ approval[a].status = "approved" => effects[a] = 1
    /\ approval[a].status \in {"none", "pending", "rejected", "cancelled"} => effects[a] = 0

(* The comment on convertToInvoice of sales orders: an order is invoiced    *)
(* once, by whatever mixture of retries, approvals and late failures; and   *)
(* so is an estimate, directly or through its order, unless the run that    *)
(* converted it stopped before it said so.                                  *)
InvoicedOnce ==
  /\ \A o \in Orders : billed[o] = IF order[o].status = "invoiced" THEN 1 ELSE 0
  /\ \A e \in Estimates \ torn :
       LET through == {o \in Orders : order[o].from = e}
       IN billed[e] + Sum(billed, through) <= 1

=============================================================================
