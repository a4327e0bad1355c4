------------------------- MODULE SubscriptionProofs -------------------------
(***************************************************************************)
(* Theorems about Subscription, for any number of companies, submissions,  *)
(* riders and requests, and any plans.                                     *)
(***************************************************************************)
EXTENDS Subscription, FiniteSumTheorems

-----------------------------------------------------------------------------
(* Types *)

Statuses == {"none", "draft", "pending", "active", "inactive"} \cup Decisions
CoRow == [status : Statuses, plan : Plans \cup {"free", "trial"}, expiry : Nat,
          standing : {"active", "expiring", "expired"},
          pay : {"none", "submitted", "paid", "rejected"}, last : Subs \cup {"none"},
          trial : BOOLEAN, converted : BOOLEAN]
SubStatuses == {"submitted", "approved", "rejected"}
TrialRow == [co : Companies, kind : {"TRIAL"}, plan : {"trial"}, status : SubStatuses]
PaymentRow == [co : Companies, kind : {"PAYMENT"}, plan : Plans, status : SubStatuses]
SubRow == {NoSub} \cup TrialRow \cup PaymentRow
ClaimStatuses == {"none", "pending", "approved", "blocked", "released"}
RiderStatuses == {"none", "active", "inactive", "locked"}
Db == [co : [Companies -> CoRow], sub : [Subs -> SubRow], claim : [Subs -> ClaimStatuses],
       revenue : [Subs -> Nat], rider : [Companies -> [Riders -> RiderStatuses]],
       road : [Companies -> SUBSET Riders], seats : [Plans -> Nat]]

(* What a request holds between its reads and its saves.                    *)
Edit == [op : {"edit", "setStatus"}, c : Companies,
         status : {"kept", "pending"} \cup Decisions, row : CoRow]
Pay == [op : {"pay"}, c : Companies, plan : Plans, row : CoRow]
Marking == [op : {"markPay", "markReject"}, c : Companies, row : CoRow]
Refusal == [op : {"reject"}, s : Subs, row : PaymentRow]
RiderSave == [op : {"activate", "saveRider"}, c : Companies, n : Riders, row : RiderStatuses]
ScanOK(q) == \E D \in SUBSET Companies : q \in [op : {"scan"}, today : Nat, rows : [D -> CoRow]]
ReqOK(q) == q \in {Done} \cup Edit \cup Pay \cup Marking \cup Refusal \cup RiderSave \/ ScanOK(q)

(* A payment somebody refuses stays a payment of the same company.          *)
StaysPayment ==
  \A r \in Requests : Serving(r, "reject") =>
    LET row == db.sub[req[r].s]
    IN row.kind = "PAYMENT" /\ row.co = req[r].row.co /\ row.plan = req[r].row.plan

ReqsOK ==
  /\ req = [r \in Requests |-> req[r]]
  /\ \A r \in Requests : ReqOK(req[r])

TypeOK ==
  /\ db \in Db
  /\ ReqsOK
  /\ day \in Nat \ {0} /\ writes \in Nat
  /\ ran \in [Companies -> Nat]
  /\ ordered \in SUBSET Companies /\ squeezed \in SUBSET Companies
  /\ StaysPayment

(* What a request's operation says of the rest of it.                       *)
LEMMA RequestShapes ==
  ASSUME NEW q, ReqOK(q)
  PROVE  /\ q.op \in {"edit", "setStatus"} => q \in Edit
         /\ q.op = "pay" => q \in Pay
         /\ q.op \in {"markPay", "markReject"} => q \in Marking
         /\ q.op = "reject" => q \in Refusal
         /\ q.op \in {"activate", "saveRider"} => q \in RiderSave
         /\ q.op = "scan" => ScanOK(q)
         /\ q.op = "idle" <=> q = Done
  BY DEF ReqOK, Done, Edit, Pay, Marking, Refusal, RiderSave, ScanOK

(* The parts of the database are what its type says.                        *)
LEMMA Parts ==
  ASSUME NEW d \in Db
  PROVE  /\ d.co \in [Companies -> CoRow] /\ d.sub \in [Subs -> SubRow]
         /\ d.claim \in [Subs -> ClaimStatuses] /\ d.revenue \in [Subs -> Nat]
         /\ d.rider \in [Companies -> [Riders -> RiderStatuses]]
         /\ d.road \in [Companies -> SUBSET Riders] /\ d.seats \in [Plans -> Nat]
  BY DEF Db

(* Changed rows are rows.                                                   *)
LEMMA CompanyRows ==
  ASSUME NEW row \in CoRow
  PROVE  /\ \A st \in Statuses : [row EXCEPT !.status = st] \in CoRow
         /\ \A s \in Subs : [row EXCEPT !.pay = "submitted", !.last = s] \in CoRow
         /\ [row EXCEPT !.pay = "none"] \in CoRow
         /\ [row EXCEPT !.pay = "rejected"] \in CoRow
         /\ [row EXCEPT !.standing = "expired", !.status = "inactive"] \in CoRow
         /\ [row EXCEPT !.standing = "expiring"] \in CoRow
         /\ [row EXCEPT !.standing = "active"] \in CoRow
<1>1. "inactive" \in Statuses
  BY DEF Statuses
<1>2. \A st \in Statuses : [row EXCEPT !.status = st] \in CoRow
  BY DEF CoRow
<1>3. \A s \in Subs : [row EXCEPT !.pay = "submitted", !.last = s] \in CoRow
  BY DEF CoRow
<1>4. [row EXCEPT !.pay = "none"] \in CoRow /\ [row EXCEPT !.pay = "rejected"] \in CoRow
  BY DEF CoRow
<1>7. [row EXCEPT !.standing = "expired", !.status = "inactive"] \in CoRow
  BY <1>1 DEF CoRow
<1>8. [row EXCEPT !.standing = "expiring"] \in CoRow /\ [row EXCEPT !.standing = "active"] \in CoRow
  BY DEF CoRow
<1> QED BY <1>2, <1>3, <1>4, <1>7, <1>8

(* What approving a trial or a payment makes of the company's row.          *)
OnTrial(row, expiry) ==
  [row EXCEPT !.trial = TRUE, !.plan = "trial", !.expiry = expiry, !.standing = "active",
              !.pay = "none", !.status = "active"]
OnPlan(row, plan, expiry, converted) ==
  [row EXCEPT !.plan = plan, !.expiry = expiry, !.standing = "active", !.pay = "paid",
              !.status = "active", !.converted = converted]

LEMMA ApprovedRows ==
  ASSUME NEW row \in CoRow, NEW expiry \in Nat
  PROVE  /\ OnTrial(row, expiry) \in CoRow
         /\ \A p \in Plans, b \in BOOLEAN : OnPlan(row, p, expiry, b) \in CoRow
<1>1. "active" \in Statuses
  BY DEF Statuses
<1>2. OnTrial(row, expiry) \in CoRow
  BY <1>1 DEF CoRow, OnTrial
<1>3. \A p \in Plans, b \in BOOLEAN : OnPlan(row, p, expiry, b) \in CoRow
  BY <1>1 DEF CoRow, OnPlan
<1> QED BY <1>2, <1>3

LEMMA SubRows ==
  /\ \A c \in Companies : [co |-> c, kind |-> "TRIAL", plan |-> "trial", status |-> "submitted"] \in TrialRow
  /\ \A c \in Companies, p \in Plans :
       [co |-> c, kind |-> "PAYMENT", plan |-> p, status |-> "submitted"] \in PaymentRow
  /\ \A row \in TrialRow, st \in SubStatuses : [row EXCEPT !.status = st] \in TrialRow
  /\ \A row \in PaymentRow, st \in SubStatuses : [row EXCEPT !.status = st] \in PaymentRow
  /\ TrialRow \subseteq SubRow /\ PaymentRow \subseteq SubRow /\ NoSub \in SubRow
  BY DEF TrialRow, PaymentRow, SubStatuses, SubRow

LEMMA SubKinds ==
  ASSUME NEW row \in SubRow
  PROVE  /\ row.kind = "TRIAL" <=> row \in TrialRow
         /\ row.kind = "PAYMENT" <=> row \in PaymentRow
         /\ row.status = "submitted" => row.kind \in {"TRIAL", "PAYMENT"}
         /\ row = NoSub \/ row.co \in Companies
  BY DEF SubRow, TrialRow, PaymentRow, NoSub

-----------------------------------------------------------------------------
(* What each step does to the database *)

CoIs(c, row) == \A x \in Companies : db'.co[x] = IF x = c THEN row ELSE db.co[x]
SubIs(s, row) == \A x \in Subs : db'.sub[x] = IF x = s THEN row ELSE db.sub[x]
ClaimIs(s, claim) == \A x \in Subs : db'.claim[x] = IF x = s THEN claim ELSE db.claim[x]
SeatsKept == db'.rider = db.rider /\ db'.seats = db.seats
BooksKept == db'.sub = db.sub /\ db'.claim = db.claim /\ db'.revenue = db.revenue

CompanySaved(c, row) ==
  /\ db' \in Db
  /\ c \in Companies /\ row \in CoRow
  /\ CoIs(c, row) /\ BooksKept /\ SeatsKept /\ db'.road = db.road

LEMMA SaveOfCompany ==
  ASSUME db \in Db, NEW c \in Companies, NEW row \in CoRow, db' = [db EXCEPT !.co[c] = row]
  PROVE  CompanySaved(c, row)
<1> DEFINE co == [db.co EXCEPT ![c] = row]
<1>1. co \in [Companies -> CoRow] /\ \A x \in Companies : co[x] = IF x = c THEN row ELSE db.co[x]
  BY Parts
<1>2. db' = [db EXCEPT !.co = co]
  OBVIOUS
<1> HIDE DEF co
<1>3. db' \in Db /\ db'.co = co /\ BooksKept /\ SeatsKept /\ db'.road = db.road
  BY <1>1, <1>2 DEF Db, BooksKept, SeatsKept
<1> QED BY <1>1, <1>3 DEF CompanySaved, CoIs

(* reconcileRiderSeats changes the riders of one company.                   *)
Reseated(d, c, limit) ==
  [n \in Riders |-> IF n \notin Candidates(d, c) THEN d.rider[c][n]
                    ELSE IF Cardinality(Ahead(d, c, n)) < limit THEN "active" ELSE "locked"]

LEMMA Reconciling ==
  ASSUME NEW d \in Db, NEW c \in Companies, NEW limit
  PROVE  LET e == Reconciled(d, c, limit)
         IN /\ e \in Db /\ e.co = d.co /\ e.sub = d.sub /\ e.claim = d.claim
            /\ e.revenue = d.revenue /\ e.road = d.road /\ e.seats = d.seats
            /\ \A x \in Companies : e.rider[x] = IF x = c THEN Reseated(d, c, limit) ELSE d.rider[x]
<1> DEFINE new == Reseated(d, c, limit)
           rider == [d.rider EXCEPT ![c] = new]
<1>1. new \in [Riders -> RiderStatuses]
  BY Parts DEF Reseated, RiderStatuses
<1>2. Reconciled(d, c, limit) = [d EXCEPT !.rider[c] = new]
  BY DEF Reconciled, Reseated
<1> HIDE DEF new
<1>3. /\ rider \in [Companies -> [Riders -> RiderStatuses]]
      /\ \A x \in Companies : rider[x] = IF x = c THEN new ELSE d.rider[x]
  BY <1>1, Parts
<1>4. Reconciled(d, c, limit) = [d EXCEPT !.rider = rider]
  BY <1>2
<1> HIDE DEF rider
<1> DEFINE e == Reconciled(d, c, limit)
<1>5. /\ e \in Db /\ e.co = d.co /\ e.sub = d.sub /\ e.claim = d.claim
      /\ e.revenue = d.revenue /\ e.road = d.road /\ e.seats = d.seats /\ e.rider = rider
  BY <1>3, <1>4 DEF Db
<1> QED BY <1>3, <1>5 DEF new

LEMMA SameRiders ==
  ASSUME NEW d, NEW e, d.rider = e.rider, d.road = e.road, NEW c, NEW limit
  PROVE  Reseated(d, c, limit) = Reseated(e, c, limit)
<1>1. Candidates(d, c) = Candidates(e, c)
  BY DEF Candidates
<1>2. \A n : Ahead(d, c, n) = Ahead(e, c, n)
  BY <1>1 DEF Ahead, RankedBefore
<1> QED BY <1>1, <1>2 DEF Reseated

RidersSeated(c, limit) ==
  /\ db'.road = db.road /\ db'.seats = db.seats
  /\ \A x \in Companies : db'.rider[x] = IF x = c THEN Reseated(db, c, limit) ELSE db.rider[x]

NewTrial(c) == [co |-> c, kind |-> "TRIAL", plan |-> "trial", status |-> "submitted"]
NewPayment(c, p) == [co |-> c, kind |-> "PAYMENT", plan |-> p, status |-> "submitted"]

TrialRequested(c, s) ==
  /\ db' \in Db /\ c \in Companies /\ s \in Subs
  /\ db.sub[s] = NoSub /\ db.co[c].status = "draft" /\ ~db.co[c].trial
  /\ OpenOf(db, c) = {} /\ ~Barred(db, c)
  /\ CoIs(c, [db.co[c] EXCEPT !.pay = "submitted", !.last = s])
  /\ SubIs(s, NewTrial(c)) /\ ClaimIs(s, "pending")
  /\ db'.revenue = db.revenue /\ SeatsKept /\ db'.road = db.road

LEMMA RequestOfTrial ==
  ASSUME db \in Db, RequestTrial
  PROVE  \E c \in Companies, s \in Subs : TrialRequested(c, s)
<1>1. PICK c \in Companies, s \in Unused(db) :
        /\ db.co[c].status = "draft" /\ ~db.co[c].trial
        /\ OpenOf(db, c) = {} /\ ~Barred(db, c)
        /\ AtOnce([db EXCEPT !.sub[s] = [co |-> c, kind |-> "TRIAL", plan |-> "trial",
                                         status |-> "submitted"],
                             !.claim[s] = "pending",
                             !.co[c] = [@ EXCEPT !.pay = "submitted", !.last = s]])
  BY DEF RequestTrial
<1>2. s \in Subs /\ db.sub[s] = NoSub
  BY DEF Unused
<1> DEFINE row == [db.co[c] EXCEPT !.pay = "submitted", !.last = s]
           co == [db.co EXCEPT ![c] = row]
           sub == [db.sub EXCEPT ![s] = NewTrial(c)]
           claim == [db.claim EXCEPT ![s] = "pending"]
<1>3. row \in CoRow
  <2>1. db.co[c] \in CoRow
    BY Parts
  <2> QED BY <1>2, <2>1, CompanyRows
<1>4. NewTrial(c) \in SubRow
  BY SubRows DEF NewTrial
<1>6. db' = [db EXCEPT !.sub = sub, !.claim = claim, !.co = co]
  BY <1>1 DEF AtOnce, NewTrial
<1> HIDE DEF row
<1>7. /\ co \in [Companies -> CoRow] /\ \A x \in Companies : co[x] = IF x = c THEN row ELSE db.co[x]
      /\ sub \in [Subs -> SubRow] /\ \A x \in Subs : sub[x] = IF x = s THEN NewTrial(c) ELSE db.sub[x]
      /\ claim \in [Subs -> ClaimStatuses]
      /\ \A x \in Subs : claim[x] = IF x = s THEN "pending" ELSE db.claim[x]
  BY <1>2, <1>3, <1>4, Parts DEF ClaimStatuses
<1> HIDE DEF co, sub, claim
<1>8. /\ db' \in Db /\ db'.co = co /\ db'.sub = sub /\ db'.claim = claim
      /\ db'.revenue = db.revenue /\ SeatsKept /\ db'.road = db.road
  BY <1>6, <1>7 DEF Db, SeatsKept
<1>9. CoIs(c, row) /\ SubIs(s, NewTrial(c)) /\ ClaimIs(s, "pending")
  BY <1>7, <1>8 DEF CoIs, SubIs, ClaimIs
<1>10. TrialRequested(c, s)
  BY <1>1, <1>2, <1>8, <1>9 DEF TrialRequested, row
<1> QED BY <1>2, <1>10

TrialApproved(c, s) ==
  /\ db' \in Db /\ c \in Companies /\ s \in Subs
  /\ db.sub[s] \in TrialRow /\ Open(db, s) /\ db.sub[s].co = c
  /\ ~db.co[c].trial /\ db.co[c].status \in {"draft", "pending"}
  /\ CoIs(c, OnTrial(db.co[c], day + TrialDays))
  /\ SubIs(s, [db.sub[s] EXCEPT !.status = "approved"]) /\ ClaimIs(s, "approved")
  /\ db'.revenue = db.revenue /\ RidersSeated(c, TrialLimit)
  /\ ordered' = ordered \ {c} /\ squeezed' = squeezed \ {c}

LEMMA ApprovalOfTrial ==
  ASSUME db \in Db, day \in Nat, ApproveTrial
  PROVE  \E c \in Companies, s \in Subs : TrialApproved(c, s)
<1> USE SubscriptionAssumption
<1>1. PICK s \in Subs : 
        LET c == db.sub[s].co
            row == db.co[c]
        IN /\ Open(db, s) /\ db.sub[s].kind = "TRIAL"
           /\ ~row.trial /\ row.pay # "paid" /\ row.status \in {"draft", "pending"}
           /\ AtOnce(Reconciled(
                [db EXCEPT !.co[c] = [@ EXCEPT !.trial = TRUE, !.plan = "trial",
                                               !.expiry = day + TrialDays, !.standing = "active",
                                               !.pay = "none", !.status = "active"],
                           !.sub[s].status = "approved", !.claim[s] = "approved"],
                c, TrialLimit))
           /\ ordered' = ordered \ {c} /\ squeezed' = squeezed \ {c}
  BY DEF ApproveTrial
<1>2. db.sub[s] \in TrialRow
  BY <1>1, Parts, SubKinds
<1>3. PICK c \in Companies : c = db.sub[s].co
  BY <1>2 DEF TrialRow
<1> DEFINE row == OnTrial(db.co[c], day + TrialDays)
           new == [db.sub[s] EXCEPT !.status = "approved"]
           co == [db.co EXCEPT ![c] = row]
           sub == [db.sub EXCEPT ![s] = new]
           claim == [db.claim EXCEPT ![s] = "approved"]
           d == [db EXCEPT !.co = co, !.sub = sub, !.claim = claim]
<1>4. row \in CoRow
  <2>1. db.co[c] \in CoRow
    BY Parts
  <2>2. day + TrialDays \in Nat
    OBVIOUS
  <2> HIDE DEF row
  <2> QED BY <2>1, <2>2, ApprovedRows DEF row
<1>5. new \in SubRow
  <2>1. "approved" \in SubStatuses
    BY DEF SubStatuses
  <2> QED BY <1>2, <2>1, SubRows
<1>6. db' = Reconciled(d, c, TrialLimit)
  BY <1>1, <1>3 DEF AtOnce, OnTrial
<1> HIDE DEF row, new
<1>7. /\ co \in [Companies -> CoRow] /\ \A x \in Companies : co[x] = IF x = c THEN row ELSE db.co[x]
      /\ sub \in [Subs -> SubRow] /\ \A x \in Subs : sub[x] = IF x = s THEN new ELSE db.sub[x]
      /\ claim \in [Subs -> ClaimStatuses]
      /\ \A x \in Subs : claim[x] = IF x = s THEN "approved" ELSE db.claim[x]
  BY <1>4, <1>5, Parts DEF ClaimStatuses
<1> HIDE DEF co, sub, claim
<1>8. /\ d \in Db /\ d.co = co /\ d.sub = sub /\ d.claim = claim
      /\ d.revenue = db.revenue /\ d.rider = db.rider /\ d.road = db.road /\ d.seats = db.seats
  BY <1>7 DEF Db
<1> HIDE DEF d
<1>9. /\ db' \in Db /\ db'.co = co /\ db'.sub = sub /\ db'.claim = claim
      /\ db'.revenue = db.revenue /\ db'.road = db.road /\ db'.seats = db.seats
      /\ \A x \in Companies :
           db'.rider[x] = IF x = c THEN Reseated(d, c, TrialLimit) ELSE db.rider[x]
  BY <1>6, <1>8, Reconciling
<1>10. Reseated(d, c, TrialLimit) = Reseated(db, c, TrialLimit)
  BY <1>8, SameRiders
<1>11. /\ CoIs(c, row) /\ SubIs(s, new) /\ ClaimIs(s, "approved")
       /\ RidersSeated(c, TrialLimit)
  BY <1>7, <1>9, <1>10 DEF CoIs, SubIs, ClaimIs, RidersSeated
<1>12. TrialApproved(c, s)
  BY <1>1, <1>2, <1>3, <1>9, <1>11 DEF TrialApproved, row, new
<1> QED BY <1>12

TrialRejected(c, s, claim) ==
  /\ db' \in Db /\ c \in Companies /\ s \in Subs /\ claim \in {"blocked", "released"}
  /\ db.sub[s] \in TrialRow /\ Open(db, s) /\ db.sub[s].co = c
  /\ \/ CoIs(c, [db.co[c] EXCEPT !.pay = "none"])
     \/ /\ CoIs(c, db.co[c])
        /\ ~(db.co[c].last = s /\ db.co[c].pay = "submitted")
  /\ SubIs(s, [db.sub[s] EXCEPT !.status = "rejected"]) /\ ClaimIs(s, claim)
  /\ db'.revenue = db.revenue /\ SeatsKept /\ db'.road = db.road

LEMMA RejectionOfTrial ==
  ASSUME db \in Db, RejectTrial
  PROVE  \E c \in Companies, s \in Subs, claim \in {"blocked", "released"} :
           TrialRejected(c, s, claim)
<1>1. PICK s \in Subs, decided \in {"blocked", "released"} :
        LET c == db.sub[s].co
        IN /\ Open(db, s) /\ db.sub[s].kind = "TRIAL"
           /\ AtOnce([db EXCEPT !.sub[s].status = "rejected", !.claim[s] = decided,
                                !.co[c].pay = IF db.co[c].last = s /\ @ = "submitted"
                                              THEN "none" ELSE @])
  BY DEF RejectTrial
<1>2. db.sub[s] \in TrialRow
  BY <1>1, Parts, SubKinds
<1>3. PICK c \in Companies : c = db.sub[s].co
  BY <1>2 DEF TrialRow
<1> DEFINE row == [db.co[c] EXCEPT !.pay = IF db.co[c].last = s /\ @ = "submitted"
                                           THEN "none" ELSE @]
           new == [db.sub[s] EXCEPT !.status = "rejected"]
           co == [db.co EXCEPT ![c] = row]
           sub == [db.sub EXCEPT ![s] = new]
           claim == [db.claim EXCEPT ![s] = decided]
<1>4. db.co[c] \in CoRow
  BY Parts
<1>5. /\ row \in CoRow
      /\ \/ row = [db.co[c] EXCEPT !.pay = "none"]
         \/ row = db.co[c] /\ ~(db.co[c].last = s /\ db.co[c].pay = "submitted")
  <2>1. CASE db.co[c].last = s /\ db.co[c].pay = "submitted"
    <3>1. row = [db.co[c] EXCEPT !.pay = "none"]
      BY <2>1
    <3> QED BY <1>4, <3>1, CompanyRows
  <2>2. CASE ~(db.co[c].last = s /\ db.co[c].pay = "submitted")
    <3>1. row = [db.co[c] EXCEPT !.pay = db.co[c].pay]
      BY <2>2
    <3>2. row = db.co[c]
      BY <1>4, <3>1 DEF CoRow
    <3> QED BY <1>4, <2>2, <3>2
  <2> QED BY <2>1, <2>2
<1>6. new \in SubRow
  <2>1. "rejected" \in SubStatuses
    BY DEF SubStatuses
  <2> QED BY <1>2, <2>1, SubRows
<1>7. db' = [db EXCEPT !.sub = sub, !.claim = claim, !.co = co]
  BY <1>1, <1>3 DEF AtOnce
<1> HIDE DEF row, new
<1>8. /\ co \in [Companies -> CoRow] /\ \A x \in Companies : co[x] = IF x = c THEN row ELSE db.co[x]
      /\ sub \in [Subs -> SubRow] /\ \A x \in Subs : sub[x] = IF x = s THEN new ELSE db.sub[x]
      /\ claim \in [Subs -> ClaimStatuses]
      /\ \A x \in Subs : claim[x] = IF x = s THEN decided ELSE db.claim[x]
  BY <1>5, <1>6, Parts DEF ClaimStatuses
<1> HIDE DEF co, sub, claim
<1>9. /\ db' \in Db /\ db'.co = co /\ db'.sub = sub /\ db'.claim = claim
      /\ db'.revenue = db.revenue /\ SeatsKept /\ db'.road = db.road
  BY <1>7, <1>8 DEF Db, SeatsKept
<1>10. CoIs(c, row) /\ SubIs(s, new) /\ ClaimIs(s, decided)
  BY <1>8, <1>9 DEF CoIs, SubIs, ClaimIs
<1>11. TrialRejected(c, s, decided)
  BY <1>1, <1>2, <1>3, <1>5, <1>9, <1>10 DEF TrialRejected, new
<1> QED BY <1>11

RevenueIs(s) == \A x \in Subs : db'.revenue[x] = IF x = s THEN 1 ELSE db.revenue[x]

PaymentApproved(c, s) ==
  /\ db' \in Db /\ c \in Companies /\ s \in Subs
  /\ db.sub[s] \in PaymentRow /\ Open(db, s) /\ db.sub[s].co = c
  /\ CoIs(c, OnPlan(db.co[c], db.sub[s].plan, Base(db.co[c]) + Length[db.sub[s].plan],
                    db.co[c].converted \/ Trialing(db.co[c])))
  /\ SubIs(s, [db.sub[s] EXCEPT !.status = "approved"]) /\ RevenueIs(s)
  /\ db'.claim = db.claim /\ RidersSeated(c, db.seats[db.sub[s].plan])
  /\ ordered' = ordered \ {c} /\ squeezed' = squeezed \ {c}

LEMMA ApprovalOfPayment ==
  ASSUME db \in Db, day \in Nat, Approve
  PROVE  \E c \in Companies, s \in Subs : PaymentApproved(c, s)
<1> USE SubscriptionAssumption
<1>1. PICK s \in Subs :
        LET c == db.sub[s].co
            row == db.co[c]
            plan == db.sub[s].plan
        IN /\ Open(db, s) /\ db.sub[s].kind = "PAYMENT"
           /\ AtOnce(Reconciled(
                [db EXCEPT !.co[c] = [@ EXCEPT !.plan = plan, !.expiry = Base(row) + Length[plan],
                                               !.standing = "active", !.pay = "paid",
                                               !.status = "active",
                                               !.converted = row.converted \/ Trialing(row)],
                           !.sub[s].status = "approved", !.revenue[s] = 1],
                c, db.seats[plan]))
           /\ ordered' = ordered \ {c} /\ squeezed' = squeezed \ {c}
  BY DEF Approve
<1>2. db.sub[s] \in PaymentRow
  BY <1>1, Parts, SubKinds
<1>3. PICK c \in Companies : c = db.sub[s].co
  BY <1>2 DEF PaymentRow
<1>p. PICK plan \in Plans : plan = db.sub[s].plan
  BY <1>2 DEF PaymentRow
<1> DEFINE expiry == Base(db.co[c]) + Length[plan]
           converted == db.co[c].converted \/ Trialing(db.co[c])
           row == OnPlan(db.co[c], plan, expiry, converted)
           new == [db.sub[s] EXCEPT !.status = "approved"]
           co == [db.co EXCEPT ![c] = row]
           sub == [db.sub EXCEPT ![s] = new]
           revenue == [db.revenue EXCEPT ![s] = 1]
           d == [db EXCEPT !.co = co, !.sub = sub, !.revenue = revenue]
<1>4. row \in CoRow
  <2>1. db.co[c] \in CoRow
    BY Parts
  <2>2. expiry \in Nat
    BY <2>1 DEF Base, CoRow
  <2>3. converted \in BOOLEAN
    BY <2>1 DEF CoRow, Trialing
  <2> HIDE DEF expiry, converted
  <2> QED BY <2>1, <2>2, <2>3, ApprovedRows
<1>5. new \in SubRow
  <2>1. "approved" \in SubStatuses
    BY DEF SubStatuses
  <2> QED BY <1>2, <2>1, SubRows
<1>6. db' = Reconciled(d, c, db.seats[plan])
  <2>1. row = [db.co[c] EXCEPT !.plan = plan, !.expiry = expiry, !.standing = "active",
                               !.pay = "paid", !.status = "active", !.converted = converted]
    BY DEF OnPlan
  <2> HIDE DEF row
  <2>2. db' = Reconciled([db EXCEPT !.co[c] = row, !.sub[s].status = "approved", !.revenue[s] = 1],
                         c, db.seats[plan])
    BY <1>1, <1>3, <1>p, <2>1 DEF AtOnce
  <2>3. [db EXCEPT !.co[c] = row, !.sub[s].status = "approved", !.revenue[s] = 1] = d
    OBVIOUS
  <2> QED BY <2>2, <2>3
<1>q. row = OnPlan(db.co[c], db.sub[s].plan, Base(db.co[c]) + Length[db.sub[s].plan],
                   db.co[c].converted \/ Trialing(db.co[c]))
  BY <1>p
<1> HIDE DEF row, new
<1>7. /\ co \in [Companies -> CoRow] /\ \A x \in Companies : co[x] = IF x = c THEN row ELSE db.co[x]
      /\ sub \in [Subs -> SubRow] /\ \A x \in Subs : sub[x] = IF x = s THEN new ELSE db.sub[x]
      /\ revenue \in [Subs -> Nat]
      /\ \A x \in Subs : revenue[x] = IF x = s THEN 1 ELSE db.revenue[x]
  BY <1>4, <1>5, Parts
<1> HIDE DEF co, sub, revenue
<1>8. /\ d \in Db /\ d.co = co /\ d.sub = sub /\ d.revenue = revenue
      /\ d.claim = db.claim /\ d.rider = db.rider /\ d.road = db.road /\ d.seats = db.seats
  BY <1>7 DEF Db
<1> HIDE DEF d
<1>9. /\ db' \in Db /\ db'.co = co /\ db'.sub = sub /\ db'.revenue = revenue
      /\ db'.claim = db.claim /\ db'.road = db.road /\ db'.seats = db.seats
      /\ \A x \in Companies :
           db'.rider[x] = IF x = c THEN Reseated(d, c, db.seats[plan]) ELSE db.rider[x]
  BY <1>6, <1>8, Reconciling
<1>10. Reseated(d, c, db.seats[plan]) = Reseated(db, c, db.seats[plan])
  BY <1>8, SameRiders
<1>11. CoIs(c, row) /\ SubIs(s, new) /\ RevenueIs(s) /\ RidersSeated(c, db.seats[plan])
  BY <1>7, <1>9, <1>10 DEF CoIs, SubIs, RevenueIs, RidersSeated
<1>12. PaymentApproved(c, s)
  BY <1>1, <1>2, <1>3, <1>p, <1>q, <1>9, <1>11 DEF PaymentApproved, new
<1> QED BY <1>12

(* The steps that change one submission, one rider, one company's riders on *)
(* the road or one plan, and nothing else.                                  *)
SubSaved(s, row) ==
  /\ db' \in Db /\ s \in Subs /\ row \in SubRow
  /\ SubIs(s, row) /\ db'.claim = db.claim /\ db'.revenue = db.revenue
  /\ db'.co = db.co /\ SeatsKept /\ db'.road = db.road

LEMMA SaveOfSub ==
  ASSUME db \in Db, NEW s \in Subs, NEW row \in SubRow, db' = [db EXCEPT !.sub[s] = row]
  PROVE  SubSaved(s, row)
<1> DEFINE sub == [db.sub EXCEPT ![s] = row]
<1>1. sub \in [Subs -> SubRow] /\ \A x \in Subs : sub[x] = IF x = s THEN row ELSE db.sub[x]
  BY Parts
<1>2. db' = [db EXCEPT !.sub = sub]
  OBVIOUS
<1> HIDE DEF sub
<1>3. /\ db' \in Db /\ db'.sub = sub /\ db'.claim = db.claim /\ db'.revenue = db.revenue
      /\ db'.co = db.co /\ SeatsKept /\ db'.road = db.road
  BY <1>1, <1>2 DEF Db, SeatsKept
<1> QED BY <1>1, <1>3 DEF SubSaved, SubIs

LEMMA RevenueAgain ==
  ASSUME db \in Db, NEW s \in Subs, db' = [db EXCEPT !.revenue[s] = 1]
  PROVE  /\ db' \in Db /\ RevenueIs(s) /\ db'.sub = db.sub /\ db'.claim = db.claim
         /\ db'.co = db.co /\ SeatsKept /\ db'.road = db.road
<1> DEFINE revenue == [db.revenue EXCEPT ![s] = 1]
<1>1. /\ revenue \in [Subs -> Nat]
      /\ \A x \in Subs : revenue[x] = IF x = s THEN 1 ELSE db.revenue[x]
  BY Parts
<1>2. db' = [db EXCEPT !.revenue = revenue]
  OBVIOUS
<1> HIDE DEF revenue
<1>3. /\ db' \in Db /\ db'.revenue = revenue /\ db'.claim = db.claim /\ db'.sub = db.sub
      /\ db'.co = db.co /\ SeatsKept /\ db'.road = db.road
  BY <1>1, <1>2 DEF Db, SeatsKept
<1> QED BY <1>1, <1>3 DEF RevenueIs

RiderSaved(c, n, status) ==
  /\ db' \in Db /\ c \in Companies /\ n \in Riders
  /\ \A x \in Companies : db'.rider[x] = IF x = c THEN [db.rider[c] EXCEPT ![n] = status]
                                         ELSE db.rider[x]
  /\ db'.co = db.co /\ BooksKept /\ db'.seats = db.seats /\ db'.road = db.road

LEMMA SaveOfRider ==
  ASSUME db \in Db, NEW c \in Companies, NEW n \in Riders, NEW status \in RiderStatuses,
         db' = [db EXCEPT !.rider[c][n] = status]
  PROVE  RiderSaved(c, n, status)
<1> DEFINE new == [db.rider[c] EXCEPT ![n] = status]
           rider == [db.rider EXCEPT ![c] = new]
<1>1. new \in [Riders -> RiderStatuses]
  BY Parts
<1>2. db' = [db EXCEPT !.rider = rider]
  OBVIOUS
<1> HIDE DEF new
<1>3. /\ rider \in [Companies -> [Riders -> RiderStatuses]]
      /\ \A x \in Companies : rider[x] = IF x = c THEN new ELSE db.rider[x]
  BY <1>1, Parts
<1> HIDE DEF rider
<1>4. /\ db' \in Db /\ db'.rider = rider
      /\ db'.co = db.co /\ BooksKept /\ db'.seats = db.seats /\ db'.road = db.road
  BY <1>2, <1>3 DEF Db, BooksKept
<1> QED BY <1>3, <1>4 DEF RiderSaved, new

RoadChanged == db' \in Db /\ db'.co = db.co /\ BooksKept /\ SeatsKept

LEMMA RoadStep ==
  ASSUME db \in Db, Assign \/ Finish
  PROVE  RoadChanged
<1>1. PICK c \in Companies, on \in SUBSET Riders : db' = [db EXCEPT !.road[c] = on]
  <2>1. CASE Assign
    <3>1. PICK c \in Companies, n \in Riders : db' = [db EXCEPT !.road[c] = @ \cup {n}]
      BY <2>1 DEF Assign, AtOnce
    <3>2. db.road[c] \cup {n} \in SUBSET Riders
      BY Parts
    <3> QED BY <3>1, <3>2
  <2>2. CASE Finish
    <3>1. PICK c \in Companies : \E n : db' = [db EXCEPT !.road[c] = @ \ {n}]
      BY <2>2 DEF Finish, AtOnce
    <3>2. PICK n : db' = [db EXCEPT !.road[c] = @ \ {n}]
      BY <3>1
    <3>3. db.road[c] \ {n} \in SUBSET Riders
      BY Parts
    <3> QED BY <3>2, <3>3
  <2> QED BY <2>1, <2>2
<1> DEFINE road == [db.road EXCEPT ![c] = on]
<1>2. road \in [Companies -> SUBSET Riders] /\ db' = [db EXCEPT !.road = road]
  BY <1>1, Parts
<1> HIDE DEF road
<1> QED BY <1>2 DEF Db, RoadChanged, BooksKept, SeatsKept

PlanEdited(p, n) ==
  /\ db' \in Db /\ p \in Plans /\ n \in Nat
  /\ \A x \in Plans : db'.seats[x] = IF x = p THEN n ELSE db.seats[x]
  /\ db'.co = db.co /\ BooksKept /\ db'.rider = db.rider /\ db'.road = db.road
  /\ squeezed' = squeezed \cup {c \in Companies : db.co[c].plan = p
                                                  /\ Cardinality(Active(db, c)) > n}

LEMMA EditOfPlan ==
  ASSUME db \in Db, EditPlan
  PROVE  \E p \in Plans, n \in Nat : PlanEdited(p, n)
<1>1. PICK p \in Plans, n \in 0..Cardinality(Riders) :
        /\ db' = [db EXCEPT !.seats[p] = n]
        /\ squeezed' = squeezed \cup {c \in Companies : db.co[c].plan = p
                                                        /\ Cardinality(Active(db, c)) > n}
  BY DEF EditPlan, AtOnce
<1>2. n \in Nat
  BY FS_CardinalityType, SubscriptionAssumption
<1> DEFINE seats == [db.seats EXCEPT ![p] = n]
<1>3. /\ seats \in [Plans -> Nat] /\ db' = [db EXCEPT !.seats = seats]
      /\ \A x \in Plans : seats[x] = IF x = p THEN n ELSE db.seats[x]
  BY <1>1, <1>2, Parts
<1> HIDE DEF seats
<1>4. /\ db' \in Db /\ db'.seats = seats
      /\ db'.co = db.co /\ BooksKept /\ db'.rider = db.rider /\ db'.road = db.road
  BY <1>3 DEF Db, BooksKept
<1> QED BY <1>1, <1>2, <1>3, <1>4 DEF PlanEdited

-----------------------------------------------------------------------------
(* What each request does when it is served *)

Becomes(r, call) == req'[r] = call /\ \A q \in Requests : q # r => req'[q] = req[q]
TimeKept == day' = day /\ ran' = ran

LEMMA Became ==
  ASSUME ReqsOK, NEW r \in Requests, NEW call, ReqOK(call), req' = [req EXCEPT ![r] = call]
  PROVE  ReqsOK' /\ Becomes(r, call)
<1>1. Becomes(r, call)
  BY DEF ReqsOK, Becomes
<1>2. \A q \in Requests : ReqOK(req'[q])
  BY <1>1 DEF ReqsOK, Becomes
<1>3. req' = [q \in Requests |-> req'[q]]
  BY DEF ReqsOK
<1>4. \A q \in Requests : ReqOK(req[q])'
  BY <1>2 DEF ReqOK, ScanOK, Done, Edit, Pay, Marking, Refusal, RiderSave
<1> QED BY <1>1, <1>3, <1>4 DEF ReqsOK

LEMMA DoneOK == ReqOK(Done) /\ Done.op = "idle"
  BY DEF ReqOK, Done

Edited(q) == IF q.status = "kept" THEN q.row ELSE [q.row EXCEPT !.status = q.status]
CompanyEdited(r) ==
  /\ req[r] \in Edit /\ CompanySaved(req[r].c, Edited(req[r])) /\ Becomes(r, Done)
  /\ ordered' = IF req[r].op = "setStatus" THEN ordered \cup {req[r].c} ELSE ordered
  /\ squeezed' = squeezed
PaymentMade(r, s) ==
  /\ req[r] \in Pay /\ db.sub[s] = NoSub
  /\ SubSaved(s, NewPayment(req[r].c, req[r].plan))
  /\ Becomes(r, [op |-> "markPay", c |-> req[r].c,
                 row |-> [req[r].row EXCEPT !.pay = "submitted", !.last = s]])
  /\ ordered' = ordered /\ squeezed' = squeezed
CompanyMarked(r) ==
  /\ req[r] \in Marking /\ CompanySaved(req[r].c, req[r].row) /\ Becomes(r, Done)
  /\ ordered' = ordered /\ squeezed' = squeezed
PaymentRefused(r) ==
  /\ req[r] \in Refusal /\ SubSaved(req[r].s, [req[r].row EXCEPT !.status = "rejected"])
  /\ LET c == req[r].row.co
     IN Becomes(r, IF db.co[c].last = req[r].s
                   THEN [op |-> "markReject", c |-> c, row |-> [db.co[c] EXCEPT !.pay = "rejected"]]
                   ELSE Done)
  /\ ordered' = ordered /\ squeezed' = squeezed
CompanyScanned(r, c) ==
  /\ req[r].op = "scan" /\ c \in DOMAIN req[r].rows
  /\ CompanySaved(c, Scanned(req[r].rows[c], req[r].today))
  /\ \/ Becomes(r, Done)
     \/ Becomes(r, [req[r] EXCEPT !.rows = [x \in DOMAIN req[r].rows \ {c} |-> req[r].rows[x]]])
  /\ ordered' = ordered /\ squeezed' = squeezed
RiderSet(r) ==
  /\ req[r] \in RiderSave /\ RiderSaved(req[r].c, req[r].n, req[r].row) /\ Becomes(r, Done)
  /\ req[r].op = "activate" => SeatAvailable(db, req[r].c)
  /\ ordered' = ordered /\ squeezed' = squeezed

Served(r) ==
  /\ TimeKept /\ ReqsOK'
  /\ \/ CompanyEdited(r) \/ CompanyMarked(r) \/ PaymentRefused(r) \/ RiderSet(r)
     \/ \E s \in Subs : PaymentMade(r, s)
     \/ \E c \in Companies : CompanyScanned(r, c)

LEMMA ScannedRow ==
  ASSUME NEW row \in CoRow, NEW today
  PROVE  /\ Scanned(row, today) \in CoRow
         /\ Scanned(row, today).plan = row.plan /\ Scanned(row, today).expiry = row.expiry
         /\ Scanned(row, today).trial = row.trial /\ Scanned(row, today).converted = row.converted
         /\ Scanned(row, today).pay = row.pay /\ Scanned(row, today).last = row.last
         /\ Scanned(row, today).status = IF Lapsed(row, today) THEN "inactive" ELSE row.status
<1>1. CASE Lapsed(row, today)
  <2>1. Scanned(row, today) = [row EXCEPT !.standing = "expired", !.status = "inactive"]
    BY <1>1 DEF Scanned
  <2>2. [row EXCEPT !.standing = "expired", !.status = "inactive"] \in CoRow
    BY CompanyRows
  <2> QED BY <1>1, <2>1, <2>2 DEF CoRow
<1>2. CASE ~Lapsed(row, today)
  <2>1. PICK standing \in {"expiring", "active"} : Scanned(row, today) = [row EXCEPT !.standing = standing]
    BY <1>2 DEF Scanned
  <2>2. [row EXCEPT !.standing = standing] \in CoRow
    BY CompanyRows
  <2> QED BY <1>2, <2>1, <2>2 DEF CoRow
<1> QED BY <1>1, <1>2

LEMMA ServeEffects ==
  ASSUME TypeOK, NEW r \in Requests, ServeStep(r)
  PROVE  Served(r)
<1>a. ReqsOK /\ ReqOK(req[r]) /\ db \in Db
  BY DEF TypeOK, ReqsOK
<1>1. CASE SaveCompany(r)
  <2>1. req[r] \in Edit
    BY <1>1, <1>a, RequestShapes DEF SaveCompany, Serving
  <2>2. req[r].row \in CoRow /\ req[r].c \in Companies
    BY <2>1 DEF Edit
  <2>3. Edited(req[r]) \in CoRow
    <3>1. CASE req[r].status = "kept"
      BY <2>2, <3>1 DEF Edited
    <3>2. CASE req[r].status # "kept"
      <4>1. req[r].status \in Statuses
        BY <2>1, <3>2 DEF Edit, Statuses
      <4> QED BY <2>2, <3>2, <4>1, CompanyRows DEF Edited
    <3> QED BY <3>1, <3>2
  <2>4. /\ db' = [db EXCEPT !.co[req[r].c] = Edited(req[r])]
        /\ req' = [req EXCEPT ![r] = Done] /\ TimeKept
        /\ ordered' = IF req[r].op = "setStatus" THEN ordered \cup {req[r].c} ELSE ordered
        /\ squeezed' = squeezed
    BY <1>1 DEF SaveCompany, Then, Edited, TimeKept
  <2>5. CompanySaved(req[r].c, Edited(req[r]))
    BY <1>a, <2>2, <2>3, <2>4, SaveOfCompany
  <2>6. ReqsOK' /\ Becomes(r, Done)
    BY <1>a, <2>4, DoneOK, Became
  <2> QED BY <2>1, <2>4, <2>5, <2>6 DEF Served, CompanyEdited
<1>2. CASE SavePayment(r)
  <2>1. req[r] \in Pay
    BY <1>2, <1>a, RequestShapes DEF SavePayment, Serving
  <2>2. req[r].row \in CoRow /\ req[r].c \in Companies /\ req[r].plan \in Plans
    BY <2>1 DEF Pay
  <2>3. PICK s \in Unused(db) :
          /\ db' = [db EXCEPT !.sub[s] = NewPayment(req[r].c, req[r].plan)]
          /\ req' = [req EXCEPT ![r] = [op |-> "markPay", c |-> req[r].c,
                                        row |-> [req[r].row EXCEPT !.pay = "submitted", !.last = s]]]
          /\ TimeKept /\ ordered' = ordered /\ squeezed' = squeezed
    BY <1>2 DEF SavePayment, Then, NewPayment, TimeKept
  <2>4. s \in Subs /\ db.sub[s] = NoSub
    BY DEF Unused
  <2>5. SubSaved(s, NewPayment(req[r].c, req[r].plan))
    <3>1. NewPayment(req[r].c, req[r].plan) \in SubRow
      BY <2>2, SubRows DEF NewPayment
    <3> QED BY <1>a, <2>3, <2>4, <3>1, SaveOfSub
  <2> DEFINE row == [req[r].row EXCEPT !.pay = "submitted", !.last = s]
             call == [op |-> "markPay", c |-> req[r].c, row |-> row]
  <2>6. row \in CoRow
    BY <2>2, <2>4, CompanyRows
  <2>7. req' = [req EXCEPT ![r] = call]
    BY <2>3
  <2>8. ReqOK(call)
    <3> HIDE DEF row
    <3> QED BY <2>2, <2>6 DEF ReqOK, Marking
  <2>9. ReqsOK' /\ Becomes(r, call)
    <3> HIDE DEF call
    <3> QED BY <1>a, <2>7, <2>8, Became
  <2>10. PaymentMade(r, s)
    BY <2>1, <2>3, <2>4, <2>5, <2>9 DEF PaymentMade
  <2> QED BY <2>3, <2>4, <2>9, <2>10 DEF Served
<1>3. CASE MarkPayment(r) \/ MarkRejected(r)
  <2>1. req[r] \in Marking
    BY <1>3, <1>a, RequestShapes DEF MarkPayment, MarkRejected, Serving
  <2>2. req[r].row \in CoRow /\ req[r].c \in Companies
    BY <2>1 DEF Marking
  <2>3. /\ db' = [db EXCEPT !.co[req[r].c] = req[r].row]
        /\ req' = [req EXCEPT ![r] = Done] /\ TimeKept
        /\ ordered' = ordered /\ squeezed' = squeezed
    BY <1>3 DEF MarkPayment, MarkRejected, Commit, Then, TimeKept
  <2>4. CompanySaved(req[r].c, req[r].row)
    BY <1>a, <2>2, <2>3, SaveOfCompany
  <2>5. ReqsOK' /\ Becomes(r, Done)
    BY <1>a, <2>3, DoneOK, Became
  <2> QED BY <2>1, <2>3, <2>4, <2>5 DEF Served, CompanyMarked
<1>4. CASE Reject(r)
  <2>1. req[r] \in Refusal
    BY <1>4, <1>a, RequestShapes DEF Reject, Serving
  <2>2. req[r].row \in PaymentRow /\ req[r].s \in Subs /\ req[r].row.co \in Companies
    BY <2>1 DEF Refusal, PaymentRow
  <2> DEFINE c == req[r].row.co
             row == [db.co[c] EXCEPT !.pay = "rejected"]
             call == IF db.co[c].last = req[r].s
                     THEN [op |-> "markReject", c |-> c, row |-> row] ELSE Done
  <2>3. /\ db' = [db EXCEPT !.sub[req[r].s] = [req[r].row EXCEPT !.status = "rejected"]]
        /\ req' = [req EXCEPT ![r] = call]
        /\ TimeKept /\ ordered' = ordered /\ squeezed' = squeezed
    BY <1>4 DEF Reject, Then, TimeKept
  <2>4. [req[r].row EXCEPT !.status = "rejected"] \in SubRow
    <3>1. "rejected" \in SubStatuses
      BY DEF SubStatuses
    <3> QED BY <2>2, <3>1, SubRows
  <2>5. SubSaved(req[r].s, [req[r].row EXCEPT !.status = "rejected"])
    BY <1>a, <2>2, <2>3, <2>4, SaveOfSub
  <2>6. row \in CoRow
    <3>1. db.co[c] \in CoRow
      BY <1>a, <2>2, Parts
    <3> QED BY <3>1, CompanyRows
  <2>7. ReqOK(call)
    <3> HIDE DEF row
    <3> QED BY <2>2, <2>6, DoneOK DEF ReqOK, Marking
  <2>8. ReqsOK' /\ Becomes(r, call)
    <3> HIDE DEF call
    <3> QED BY <1>a, <2>3, <2>7, Became
  <2> QED BY <2>1, <2>3, <2>5, <2>8 DEF Served, PaymentRefused
<1>5. CASE Scan(r)
  <2>1. ScanOK(req[r]) /\ req[r].op = "scan"
    BY <1>5, <1>a, RequestShapes DEF Scan, Serving
  <2>2. PICK D \in SUBSET Companies : req[r] \in [op : {"scan"}, today : Nat, rows : [D -> CoRow]]
    BY <2>1 DEF ScanOK
  <2>3. PICK c \in D :
          /\ db' = [db EXCEPT !.co[c] = Scanned(req[r].rows[c], req[r].today)]
          /\ req' = [req EXCEPT ![r] = IF D \ {c} = {} THEN Done
                                       ELSE [req[r] EXCEPT !.rows = [x \in D \ {c} |-> req[r].rows[x]]]]
          /\ TimeKept
    BY <1>5, <2>2 DEF Scan, Then, TimeKept
  <2>4. ordered' = ordered /\ squeezed' = squeezed
    BY <1>5 DEF Scan
  <2>5. req[r].rows[c] \in CoRow
    BY <2>2
  <2>6. CompanySaved(c, Scanned(req[r].rows[c], req[r].today))
    BY <1>a, <2>3, <2>5, ScannedRow, SaveOfCompany
  <2> DEFINE rows == [x \in D \ {c} |-> req[r].rows[x]]
             call == IF D \ {c} = {} THEN Done ELSE [req[r] EXCEPT !.rows = rows]
  <2>7. rows \in [D \ {c} -> CoRow]
    BY <2>2
  <2>8. ReqOK(call)
    <3> HIDE DEF rows
    <3>1. [req[r] EXCEPT !.rows = rows] \in [op : {"scan"}, today : Nat, rows : [D \ {c} -> CoRow]]
      BY <2>2, <2>7
    <3>2. ScanOK([req[r] EXCEPT !.rows = rows])
      <4>1. D \ {c} \in SUBSET Companies
        OBVIOUS
      <4> QED BY <3>1, <4>1 DEF ScanOK
    <3> QED BY <3>2, DoneOK DEF ReqOK
  <2>9. ReqsOK' /\ Becomes(r, call)
    <3>1. req' = [req EXCEPT ![r] = call]
      BY <2>3
    <3> HIDE DEF call
    <3> QED BY <1>a, <2>8, <3>1, Became
  <2>10. c \in Companies /\ DOMAIN req[r].rows = D
    BY <2>2
  <2>11. CompanyScanned(r, c)
    BY <2>1, <2>4, <2>6, <2>9, <2>10 DEF CompanyScanned
  <2> QED BY <2>3, <2>9, <2>10, <2>11 DEF Served
<1>6. CASE SaveRider(r)
  <2>1. req[r] \in RiderSave
    BY <1>6, <1>a, RequestShapes DEF SaveRider, Serving
  <2>2. req[r].row \in RiderStatuses /\ req[r].c \in Companies /\ req[r].n \in Riders
    BY <2>1 DEF RiderSave
  <2>3. /\ db' = [db EXCEPT !.rider[req[r].c][req[r].n] = req[r].row]
        /\ req' = [req EXCEPT ![r] = Done] /\ TimeKept
        /\ ordered' = ordered /\ squeezed' = squeezed
        /\ req[r].op = "activate" => SeatAvailable(db, req[r].c)
    BY <1>6 DEF SaveRider, Commit, Then, TimeKept, Serving
  <2>4. RiderSaved(req[r].c, req[r].n, req[r].row)
    BY <1>a, <2>2, <2>3, SaveOfRider
  <2>5. ReqsOK' /\ Becomes(r, Done)
    BY <1>a, <2>3, DoneOK, Became
  <2> QED BY <2>1, <2>3, <2>4, <2>5 DEF Served, RiderSet
<1> QED BY <1>1, <1>2, <1>3, <1>4, <1>5, <1>6 DEF ServeStep

(* What a request has read when it is asked.                                *)
AskedFresh(q) ==
  /\ q.op \in {"edit", "setStatus", "pay"} => q.row = db.co[q.c]
  /\ q.op \in {"edit", "setStatus"} => (q.op = "edit" <=> q.status = "kept")
  /\ q.op = "pay" => ~TrialOpen(db, q.c)
  /\ q.op \notin {"idle", "markPay", "markReject"}
  /\ q.op = "reject" => q.row = db.sub[q.s] /\ q.row.status \in {"submitted", "rejected"}
  /\ q.op = "scan" => q.today = day /\ \A c \in DOMAIN q.rows : q.rows[c] = db.co[c]
  /\ q.op = "saveRider" => q.row \in {db.rider[q.c][q.n], "inactive"}
  /\ q.op = "activate" => q.row = "active"

Asked(r, call) ==
  /\ Idle(r) /\ \A q \in Requests : Idle(q) \/ {call.op, req[q].op} \subseteq Overlapping
  /\ Becomes(r, call) /\ ReqsOK' /\ TimeKept
  /\ UNCHANGED <<db, ordered, squeezed>> /\ AskedFresh(call)

LEMMA AskEffects ==
  ASSUME TypeOK, NEW r \in Requests, AskStep(r)
  PROVE  \E call : Asked(r, call)
<1>a. ReqsOK /\ ReqOK(req[r]) /\ db \in Db /\ day \in Nat
  BY DEF TypeOK, ReqsOK
<1>b. ASSUME NEW call, ReqOK(call), Ask(r, call), AskedFresh(call)
      PROVE  \E any : Asked(r, any)
  <2>1. ReqsOK' /\ Becomes(r, call)
    BY <1>a, <1>b, Became DEF Ask
  <2>2. Asked(r, call)
    BY <1>b, <2>1 DEF Asked, Ask, TimeKept
  <2> QED BY <2>2
<1>1. CASE AskSaveCompany(r)
  <2>1. PICK c \in Companies, status \in {"kept", "pending"} \cup Decisions :
          Ask(r, [op |-> IF status = "kept" THEN "edit" ELSE "setStatus", c |-> c,
                  status |-> status, row |-> db.co[c]])
    BY <1>1, SubscriptionAssumption DEF AskSaveCompany
  <2> DEFINE op == IF status = "kept" THEN "edit" ELSE "setStatus"
             call == [op |-> op, c |-> c, status |-> status, row |-> db.co[c]]
  <2>2. db.co[c] \in CoRow /\ op \in {"edit", "setStatus"} /\ (op = "edit" <=> status = "kept")
    BY <1>a, Parts
  <2>3. Ask(r, call)
    BY <2>1
  <2> HIDE DEF op
  <2>4. ReqOK(call) /\ AskedFresh(call)
    BY <2>2 DEF ReqOK, Edit, AskedFresh
  <2> HIDE DEF call
  <2> QED BY <2>3, <2>4, <1>b
<1>2. CASE AskPay(r)
  <2>1. PICK c \in Companies, p \in Plans :
          /\ ~TrialOpen(db, c)
          /\ Ask(r, [op |-> "pay", c |-> c, plan |-> p, row |-> db.co[c]])
    BY <1>2, SubscriptionAssumption DEF AskPay
  <2> DEFINE call == [op |-> "pay", c |-> c, plan |-> p, row |-> db.co[c]]
  <2>2. db.co[c] \in CoRow
    BY <1>a, Parts
  <2>3. ReqOK(call) /\ AskedFresh(call)
    BY <2>1, <2>2 DEF ReqOK, Pay, AskedFresh
  <2>4. Ask(r, call)
    BY <2>1
  <2> HIDE DEF call
  <2> QED BY <2>3, <2>4, <1>b
<1>3. CASE AskReject(r)
  <2>1. PICK s \in Subs :
          /\ db.sub[s].kind = "PAYMENT" /\ db.sub[s].status \in {"submitted", "rejected"}
          /\ Ask(r, [op |-> "reject", s |-> s, row |-> db.sub[s]])
    BY <1>3 DEF AskReject
  <2> DEFINE call == [op |-> "reject", s |-> s, row |-> db.sub[s]]
  <2>2. db.sub[s] \in PaymentRow
    BY <1>a, <2>1, Parts, SubKinds
  <2>3. ReqOK(call) /\ AskedFresh(call)
    BY <2>1, <2>2 DEF ReqOK, Refusal, AskedFresh
  <2>4. Ask(r, call)
    BY <2>1
  <2> HIDE DEF call
  <2> QED BY <2>3, <2>4, <1>b
<1>4. CASE AskScan(r)
  <2> DEFINE due == {c \in Companies : db.co[c].plan # "free" /\ db.co[c].expiry > 0}
             rows == [c \in due |-> db.co[c]]
             call == [op |-> "scan", today |-> day, rows |-> rows]
  <2>1. Ask(r, call)
    BY <1>4 DEF AskScan
  <2>2. rows \in [due -> CoRow] /\ due \in SUBSET Companies /\ DOMAIN rows = due
        /\ \A c \in due : rows[c] = db.co[c]
    BY <1>a, Parts
  <2> HIDE DEF due, rows
  <2>3. ScanOK(call)
    <3>1. call \in [op : {"scan"}, today : Nat, rows : [due -> CoRow]]
      BY <1>a, <2>2
    <3> HIDE DEF call
    <3> QED BY <2>2, <3>1 DEF ScanOK
  <2>4. ReqOK(call) /\ AskedFresh(call)
    BY <2>2, <2>3 DEF ReqOK, AskedFresh
  <2> HIDE DEF call
  <2> QED BY <2>1, <2>4, <1>b
<1>5. CASE AskRider(r)
  <2>1. PICK c \in Companies, n \in Riders : \E status \in {db.rider[c][n], "active", "inactive"} :
          Ask(r, [op |-> IF status = "active" /\ db.rider[c][n] # "active"
                         THEN "activate" ELSE "saveRider",
                  c |-> c, n |-> n, row |-> status])
    BY <1>5 DEF AskRider
  <2>7. PICK row \in {db.rider[c][n], "active", "inactive"} :
          Ask(r, [op |-> IF row = "active" /\ db.rider[c][n] # "active"
                         THEN "activate" ELSE "saveRider",
                  c |-> c, n |-> n, row |-> row])
    BY <2>1
  <2> DEFINE op == IF row = "active" /\ db.rider[c][n] # "active" THEN "activate" ELSE "saveRider"
             call == [op |-> op, c |-> c, n |-> n, row |-> row]
  <2>2. db.rider[c][n] \in RiderStatuses
    BY <1>a, Parts
  <2>3. /\ op \in {"activate", "saveRider"} /\ row \in RiderStatuses
        /\ op = "saveRider" => row \in {db.rider[c][n], "inactive"}
        /\ op = "activate" => row = "active"
    BY <2>2 DEF RiderStatuses
  <2>4. Ask(r, call)
    BY <2>7
  <2> HIDE DEF op
  <2>5. ReqOK(call)
    BY <2>3 DEF ReqOK, RiderSave
  <2>6. AskedFresh(call)
    BY <2>3 DEF AskedFresh
  <2> HIDE DEF call
  <2> QED BY <2>4, <2>5, <2>6, <1>b
<1> QED BY <1>1, <1>2, <1>3, <1>4, <1>5 DEF AskStep

(* A payment stays a payment of its company for its plan.                   *)
PaymentsStay ==
  \A s \in Subs : db.sub[s].kind = "PAYMENT" =>
    db'.sub[s].kind = "PAYMENT" /\ db'.sub[s].co = db.sub[s].co /\ db'.sub[s].plan = db.sub[s].plan

LEMMA PaymentsStayOn ==
  ASSUME TypeOK, NEW s \in Subs, NEW row \in SubRow, SubIs(s, row),
         db.sub[s].kind = "PAYMENT" =>
           row.kind = "PAYMENT" /\ row.co = db.sub[s].co /\ row.plan = db.sub[s].plan
  PROVE  PaymentsStay
  BY DEF PaymentsStay, SubIs

LEMMA ServedTypes ==
  ASSUME TypeOK, NEW r \in Requests, Served(r)
  PROVE  db' \in Db /\ PaymentsStay /\ ordered' \in SUBSET Companies /\ squeezed' = squeezed
<1>1. CASE CompanyEdited(r)
  BY <1>1 DEF CompanyEdited, CompanySaved, BooksKept, PaymentsStay, TypeOK
<1>2. CASE CompanyMarked(r)
  BY <1>2 DEF CompanyMarked, CompanySaved, BooksKept, PaymentsStay, TypeOK
<1>3. CASE PaymentRefused(r)
  <2>1. req[r].row \in PaymentRow /\ req[r].s \in Subs /\ req[r].op = "reject"
    BY <1>3 DEF PaymentRefused, Refusal
  <2>2. db.sub[req[r].s].co = req[r].row.co /\ db.sub[req[r].s].plan = req[r].row.plan
    BY <2>1 DEF TypeOK, StaysPayment, Serving
  <2> DEFINE row == [req[r].row EXCEPT !.status = "rejected"]
  <2>3. row.kind = "PAYMENT" /\ row.co = req[r].row.co /\ row.plan = req[r].row.plan
    BY <2>1 DEF PaymentRow
  <2> HIDE DEF row
  <2>4. SubSaved(req[r].s, row)
    BY <1>3 DEF PaymentRefused, row
  <2> QED BY <1>3, <2>1, <2>2, <2>3, <2>4, PaymentsStayOn DEF SubSaved, PaymentRefused, TypeOK
<1>4. CASE RiderSet(r)
  BY <1>4 DEF RiderSet, RiderSaved, BooksKept, PaymentsStay, TypeOK
<1>5. ASSUME NEW s \in Subs, PaymentMade(r, s)
      PROVE  db' \in Db /\ PaymentsStay /\ ordered' \in SUBSET Companies /\ squeezed' = squeezed
  BY <1>5, PaymentsStayOn DEF PaymentMade, SubSaved, NoSub, TypeOK
<1>6. ASSUME NEW c \in Companies, CompanyScanned(r, c)
      PROVE  db' \in Db /\ PaymentsStay /\ ordered' \in SUBSET Companies /\ squeezed' = squeezed
  BY <1>6 DEF CompanyScanned, CompanySaved, BooksKept, PaymentsStay, TypeOK
<1> QED BY <1>1, <1>2, <1>3, <1>4, <1>5, <1>6 DEF Served

LEMMA StayingPayments ==
  ASSUME TypeOK, PaymentsStay, NEW r \in Requests, NEW call, Becomes(r, call), ReqOK(call),
         call.op # "reject"
  PROVE  StaysPayment'
<1>1. ASSUME NEW q \in Requests, Serving(q, "reject")'
      PROVE  /\ db'.sub[req'[q].s].kind = "PAYMENT"
             /\ db'.sub[req'[q].s].co = req'[q].row.co /\ db'.sub[req'[q].s].plan = req'[q].row.plan
  <2>1. req'[q] = req[q] /\ Serving(q, "reject")
    BY <1>1 DEF Becomes, Serving
  <2>2. req[q].s \in Subs
    BY <2>1, RequestShapes DEF Serving, TypeOK, ReqsOK, Refusal
  <2> QED BY <2>1, <2>2 DEF TypeOK, StaysPayment, PaymentsStay
<1> QED BY <1>1 DEF StaysPayment

CompanyMade(c) ==
  /\ db.co[c].status = "none" /\ CompanySaved(c, [db.co[c] EXCEPT !.status = "draft"])
  /\ ordered' = ordered /\ squeezed' = squeezed
RevenueMade(s) ==
  /\ s \in Subs /\ db.sub[s].kind = "PAYMENT" /\ db.sub[s].status = "approved"
  /\ db' \in Db /\ RevenueIs(s) /\ db'.sub = db.sub /\ db'.claim = db.claim
  /\ db'.co = db.co /\ SeatsKept /\ db'.road = db.road
  /\ ordered' = ordered /\ squeezed' = squeezed
RiderAdded(c, n) ==
  /\ SeatAvailable(db, c) /\ RiderSaved(c, n, "active")
  /\ ordered' = ordered /\ squeezed' = squeezed

(* What the operations that hold their locks do at once.                    *)
AtOnceDone ==
  /\ \A q \in Requests : Idle(q) \/ req[q].op \in Overlapping
  /\ req' = req /\ TimeKept
  /\ \/ \E c \in Companies : CompanyMade(c)
     \/ /\ \E c \in Companies, s \in Subs : TrialRequested(c, s)
        /\ ordered' = ordered /\ squeezed' = squeezed
     \/ \E c \in Companies, s \in Subs : TrialApproved(c, s)
     \/ /\ \E c \in Companies, s \in Subs, claim \in {"blocked", "released"} : TrialRejected(c, s, claim)
        /\ ordered' = ordered /\ squeezed' = squeezed
     \/ \E c \in Companies, s \in Subs : PaymentApproved(c, s)
     \/ \E s \in Subs : RevenueMade(s)
     \/ \E c \in Companies, n \in Riders : RiderAdded(c, n)
     \/ RoadChanged /\ ordered' = ordered /\ squeezed' = squeezed
     \/ (\E p \in Plans, n \in Nat : PlanEdited(p, n)) /\ ordered' = ordered

LEMMA LockedEffects ==
  ASSUME TypeOK, LockedStep
  PROVE  AtOnceDone
<1>a. db \in Db /\ day \in Nat
  BY DEF TypeOK
<1>b. /\ \A q \in Requests : Idle(q) \/ req[q].op \in Overlapping
      /\ req' = req /\ TimeKept
  BY DEF LockedStep, CreateCompany, RequestTrial, ApproveTrial, RejectTrial, Approve, ApproveAgain,
     CreateRider, Assign, Finish, EditPlan, AtOnce, TimeKept
<1>1. CASE CreateCompany
  <2>1. PICK c \in Companies : /\ db.co[c].status = "none"
                               /\ db' = [db EXCEPT !.co[c].status = "draft"]
                               /\ ordered' = ordered /\ squeezed' = squeezed
    BY <1>1 DEF CreateCompany, AtOnce
  <2> DEFINE row == [db.co[c] EXCEPT !.status = "draft"]
  <2>2. row \in CoRow
    <3>1. db.co[c] \in CoRow /\ "draft" \in Statuses
      BY <1>a, Parts DEF Statuses
    <3> QED BY <3>1, CompanyRows
  <2>3. db' = [db EXCEPT !.co[c] = row]
    BY <2>1
  <2>4. CompanySaved(c, row)
    <3> HIDE DEF row
    <3> QED BY <1>a, <2>2, <2>3, SaveOfCompany
  <2>5. CompanyMade(c)
    BY <2>1, <2>4 DEF CompanyMade
  <2> QED BY <1>b, <2>5 DEF AtOnceDone
<1>2. CASE RequestTrial
  BY <1>a, <1>b, <1>2, RequestOfTrial DEF AtOnceDone, RequestTrial
<1>3. CASE ApproveTrial
  BY <1>a, <1>b, <1>3, ApprovalOfTrial DEF AtOnceDone
<1>4. CASE RejectTrial
  BY <1>a, <1>b, <1>4, RejectionOfTrial DEF AtOnceDone, RejectTrial
<1>5. CASE Approve
  BY <1>a, <1>b, <1>5, ApprovalOfPayment DEF AtOnceDone
<1>6. CASE ApproveAgain
  <2>1. PICK s \in Subs : /\ db.sub[s].kind = "PAYMENT" /\ db.sub[s].status = "approved"
                          /\ db' = [db EXCEPT !.revenue[s] = 1]
                          /\ ordered' = ordered /\ squeezed' = squeezed
    BY <1>6 DEF ApproveAgain, AtOnce
  <2>2. RevenueMade(s)
    BY <1>a, <2>1, RevenueAgain DEF RevenueMade
  <2> QED BY <1>b, <2>2 DEF AtOnceDone
<1>7. CASE CreateRider
  <2>1. PICK c \in Companies, n \in Riders : /\ SeatAvailable(db, c)
                                             /\ db' = [db EXCEPT !.rider[c][n] = "active"]
                                             /\ ordered' = ordered /\ squeezed' = squeezed
    BY <1>7, SubscriptionAssumption DEF CreateRider, AtOnce
  <2>2. "active" \in RiderStatuses
    BY DEF RiderStatuses
  <2>3. RiderAdded(c, n)
    BY <1>a, <2>1, <2>2, SaveOfRider DEF RiderAdded
  <2> QED BY <1>b, <2>3 DEF AtOnceDone
<1>8. CASE Assign \/ Finish
  BY <1>a, <1>b, <1>8, RoadStep DEF AtOnceDone, Assign, Finish
<1>9. CASE EditPlan
  BY <1>a, <1>b, <1>9, EditOfPlan DEF AtOnceDone, EditPlan
<1> QED BY <1>1, <1>2, <1>3, <1>4, <1>5, <1>6, <1>7, <1>8, <1>9 DEF LockedStep

LEMMA AtOnceTypes ==
  ASSUME TypeOK, AtOnceDone
  PROVE  db' \in Db /\ PaymentsStay /\ ordered' \in SUBSET Companies /\ squeezed' \in SUBSET Companies
<1> DEFINE Goal == /\ db' \in Db /\ PaymentsStay
                   /\ ordered' \in SUBSET Companies /\ squeezed' \in SUBSET Companies
<1>a. ordered \in SUBSET Companies /\ squeezed \in SUBSET Companies /\ db \in Db
  BY DEF TypeOK
<1>k. db'.sub = db.sub => PaymentsStay
  BY DEF PaymentsStay
<1>t. ASSUME NEW s \in Subs, NEW row, SubIs(s, row), db.sub[s] \in TrialRow \cup {NoSub}
      PROVE  PaymentsStay
  BY <1>t DEF PaymentsStay, SubIs, TrialRow, NoSub
<1>1. ASSUME NEW c \in Companies, CompanyMade(c) PROVE Goal
  BY <1>1, <1>a, <1>k DEF CompanyMade, CompanySaved, BooksKept
<1>2. ASSUME NEW c \in Companies, NEW s \in Subs, TrialRequested(c, s),
             ordered' = ordered, squeezed' = squeezed
      PROVE Goal
  BY <1>2, <1>a, <1>t DEF TrialRequested
<1>3. ASSUME NEW c \in Companies, NEW s \in Subs, TrialApproved(c, s) PROVE Goal
  BY <1>3, <1>a, <1>t DEF TrialApproved
<1>4. ASSUME NEW c \in Companies, NEW s \in Subs, NEW claim, TrialRejected(c, s, claim),
             ordered' = ordered, squeezed' = squeezed
      PROVE Goal
  BY <1>4, <1>a, <1>t DEF TrialRejected
<1>5. ASSUME NEW c \in Companies, NEW s \in Subs, PaymentApproved(c, s) PROVE Goal
  <2> DEFINE row == [db.sub[s] EXCEPT !.status = "approved"]
  <2>1. SubIs(s, row) /\ db.sub[s] \in PaymentRow
    BY <1>5 DEF PaymentApproved
  <2>2. row.kind = "PAYMENT" /\ row.co = db.sub[s].co /\ row.plan = db.sub[s].plan
    BY <2>1 DEF PaymentRow
  <2> HIDE DEF row
  <2>3. PaymentsStay
    BY <2>1, <2>2 DEF SubIs, PaymentsStay
  <2> QED BY <1>5, <1>a, <2>3 DEF PaymentApproved
<1>6. ASSUME NEW s \in Subs, RevenueMade(s) PROVE Goal
  BY <1>6, <1>a, <1>k DEF RevenueMade
<1>7. ASSUME NEW c \in Companies, NEW n \in Riders, RiderAdded(c, n) PROVE Goal
  BY <1>7, <1>a, <1>k DEF RiderAdded, RiderSaved, BooksKept
<1>8. ASSUME RoadChanged, ordered' = ordered, squeezed' = squeezed PROVE Goal
  BY <1>8, <1>a, <1>k DEF RoadChanged, BooksKept
<1>9. ASSUME NEW p \in Plans, NEW n \in Nat, PlanEdited(p, n), ordered' = ordered PROVE Goal
  BY <1>9, <1>a, <1>k DEF PlanEdited, BooksKept
<1> HIDE DEF Goal
<1>10. Goal
  BY <1>1, <1>2, <1>3, <1>4, <1>5, <1>6, <1>7, <1>8, <1>9 DEF AtOnceDone
<1> QED BY <1>10 DEF Goal

LEMMA DropEffects ==
  ASSUME TypeOK, NEW r \in Requests, Drop(r)
  PROVE  /\ Becomes(r, Done) /\ ReqsOK' /\ TimeKept /\ UNCHANGED <<db, ordered, squeezed>>
  BY DoneOK, Became DEF Drop, TypeOK, TimeKept

(* A day passes only when no request is in progress.                        *)
DayPassed ==
  /\ \A r \in Requests : Idle(r)
  /\ day' = day + 1 /\ UNCHANGED <<db, req, ordered, squeezed>>
  /\ \A c \in Companies :
       ran'[c] = ran[c] + IF db.co[c].plan \in Plans /\ Running(db.co[c]) THEN 1 ELSE 0

LEMMA DayEffects ==
  ASSUME TypeOK, NextDay
  PROVE  DayPassed /\ ran' \in [Companies -> Nat]
  BY DEF NextDay, DayPassed, TypeOK

LEMMA WritesStep ==
  ASSUME TypeOK, [Next]_vars
  PROVE  writes' \in Nat
<1>a. writes \in Nat
  BY DEF TypeOK
<1>1. ASSUME NEW r \in Requests, AskStep(r) PROVE writes' = writes
  <2>1. ASSUME NEW call, Ask(r, call) PROVE writes' = writes
    BY <2>1 DEF Ask
  <2>2. CASE AskSaveCompany(r)
    BY <2>2, <2>1 DEF AskSaveCompany
  <2>3. CASE AskPay(r)
    BY <2>3, <2>1 DEF AskPay
  <2>4. CASE AskReject(r)
    BY <2>4, <2>1 DEF AskReject
  <2>5. CASE AskScan(r)
    BY <2>5, <2>1 DEF AskScan
  <2>6. CASE AskRider(r)
    BY <2>6, <2>1 DEF AskRider
  <2> QED BY <1>1, <2>2, <2>3, <2>4, <2>5, <2>6 DEF AskStep
<1>2. ASSUME NEW r \in Requests, ServeStep(r) PROVE writes' = writes + 1
  BY <1>2 DEF ServeStep, SaveCompany, SavePayment, MarkPayment, Reject, MarkRejected, Scan,
     SaveRider, Commit, Then
<1>3. CASE LockedStep
  <2>1. CASE CreateCompany \/ ApproveAgain \/ CreateRider
    BY <1>a, <2>1 DEF CreateCompany, ApproveAgain, CreateRider, AtOnce
  <2>6. CASE RejectTrial
    BY <1>a, <2>6 DEF RejectTrial, AtOnce
  <2>2. CASE Assign \/ Finish \/ EditPlan
    BY <1>a, <2>2 DEF Assign, Finish, EditPlan, AtOnce
  <2>3. CASE RequestTrial
    BY <1>a, <2>3 DEF RequestTrial, AtOnce
  <2>4. CASE ApproveTrial
    BY <1>a, <2>4 DEF ApproveTrial, AtOnce
  <2>5. CASE Approve
    BY <1>a, <2>5 DEF Approve, AtOnce
  <2> QED BY <1>3, <2>1, <2>2, <2>3, <2>4, <2>5, <2>6 DEF LockedStep
<1>4. CASE NextDay
  BY <1>a, <1>4 DEF NextDay
<1>5. ASSUME NEW r \in Requests, Drop(r) PROVE writes' = writes
  BY <1>5 DEF Drop
<1>6. CASE UNCHANGED vars
  BY <1>a, <1>6 DEF vars
<1> QED BY <1>a, <1>1, <1>2, <1>3, <1>4, <1>5, <1>6 DEF Next

LEMMA TypeStep ==
  ASSUME TypeOK, [Next]_vars
  PROVE  TypeOK'
<1>w. writes' \in Nat
  BY WritesStep
<1>s. ASSUME db' = db, NEW r \in Requests, NEW call, Becomes(r, call), call.op # "reject", ReqOK(call)
      PROVE  StaysPayment'
  <2>1. PaymentsStay
    BY <1>s DEF PaymentsStay
  <2> QED BY <1>s, <2>1, StayingPayments
<1>1. ASSUME NEW r \in Requests, AskStep(r) PROVE TypeOK'
  <2>1. PICK call : Asked(r, call)
    BY <1>1, AskEffects
  <2>2. ReqOK(call)'
    BY <2>1 DEF Asked, Becomes, ReqsOK
  <2>3. ReqOK(call)
    BY <2>2 DEF ReqOK, ScanOK, Done, Edit, Pay, Marking, Refusal, RiderSave
  <2>4. StaysPayment'
    <3>1. CASE call.op = "reject"
      <4>1. call \in Refusal /\ call.row = db.sub[call.s]
        BY <2>1, <2>3, <3>1, RequestShapes DEF Asked, AskedFresh
      <4>2. call.row.kind = "PAYMENT"
        BY <4>1 DEF Refusal, PaymentRow
      <4> QED BY <2>1, <4>1, <4>2 DEF Asked, Becomes, TypeOK, StaysPayment, Serving
    <3>2. CASE call.op # "reject"
      BY <2>1, <2>3, <3>2, <1>s DEF Asked
    <3> QED BY <3>1, <3>2
  <2> QED BY <2>1, <2>4, <1>w DEF Asked, TypeOK, TimeKept
<1>2. ASSUME NEW r \in Requests, ServeStep(r) PROVE TypeOK'
  <2>1. Served(r)
    BY <1>2, ServeEffects
  <2>2. db' \in Db /\ PaymentsStay /\ ordered' \in SUBSET Companies /\ squeezed' = squeezed
    BY <2>1, ServedTypes
  <2>3. PICK call : Becomes(r, call) /\ call.op # "reject"
    <3>1. ASSUME CompanyEdited(r) \/ CompanyMarked(r) \/ RiderSet(r) PROVE Becomes(r, Done)
      BY <3>1 DEF CompanyEdited, CompanyMarked, RiderSet
    <3>2. ASSUME PaymentRefused(r) PROVE \E call : Becomes(r, call) /\ call.op # "reject"
      BY <3>2, DoneOK DEF PaymentRefused
    <3>3. ASSUME NEW s \in Subs, PaymentMade(r, s) PROVE \E call : Becomes(r, call) /\ call.op # "reject"
      BY <3>3 DEF PaymentMade
    <3>4. ASSUME NEW c \in Companies, CompanyScanned(r, c)
          PROVE  \E call : Becomes(r, call) /\ call.op # "reject"
      <4>1. ScanOK(req[r])
        BY <3>4, RequestShapes DEF CompanyScanned, TypeOK, ReqsOK
      <4>2. \A rows : [req[r] EXCEPT !.rows = rows].op = "scan"
        BY <4>1 DEF ScanOK
      <4> QED BY <3>4, <4>2, DoneOK DEF CompanyScanned
    <3> QED BY <2>1, <3>1, <3>2, <3>3, <3>4, DoneOK DEF Served
  <2>4. ReqOK(call)'
    BY <2>1, <2>3 DEF Served, Becomes, ReqsOK
  <2>5. ReqOK(call)
    BY <2>4 DEF ReqOK, ScanOK, Done, Edit, Pay, Marking, Refusal, RiderSave
  <2>6. StaysPayment'
    BY <2>2, <2>3, <2>5, StayingPayments
  <2> QED BY <2>1, <2>2, <2>6, <1>w DEF Served, TypeOK, TimeKept
<1>3. ASSUME NEW r \in Requests, Drop(r) PROVE TypeOK'
  <2>1. /\ Becomes(r, Done) /\ ReqsOK' /\ TimeKept /\ UNCHANGED <<db, ordered, squeezed>>
    BY <1>3, DropEffects
  <2>2. StaysPayment'
    BY <2>1, <1>s, DoneOK
  <2> QED BY <2>1, <2>2, <1>w DEF TypeOK, TimeKept
<1>4. CASE LockedStep
  <2>1. AtOnceDone
    BY <1>4, LockedEffects
  <2>2. db' \in Db /\ PaymentsStay /\ ordered' \in SUBSET Companies /\ squeezed' \in SUBSET Companies
    BY <2>1, AtOnceTypes
  <2>3. ReqsOK' /\ req' = req
    BY <2>1 DEF AtOnceDone, TypeOK, ReqsOK, ReqOK, ScanOK, Done, Edit, Pay, Marking, Refusal, RiderSave
  <2>4. StaysPayment'
    <3>1. ASSUME NEW r \in Requests, Serving(r, "reject") PROVE req[r].s \in Subs
      BY <3>1, RequestShapes DEF Serving, TypeOK, ReqsOK, Refusal
    <3> QED BY <2>2, <2>3, <3>1 DEF TypeOK, StaysPayment, PaymentsStay, Serving
  <2> QED BY <2>1, <2>2, <2>3, <2>4, <1>w DEF AtOnceDone, TypeOK, TimeKept
<1>5. CASE NextDay
  <2>1. DayPassed /\ ran' \in [Companies -> Nat]
    BY <1>5, DayEffects
  <2> QED BY <2>1, <1>w DEF DayPassed, TypeOK, ReqsOK, ReqOK, ScanOK, StaysPayment, Serving
<1>6. CASE UNCHANGED vars
  BY <1>6 DEF vars, TypeOK, ReqsOK, ReqOK, ScanOK, StaysPayment, Serving
<1> QED BY <1>1, <1>2, <1>3, <1>4, <1>5, <1>6 DEF Next

Dropped(r) == Becomes(r, Done) /\ ReqsOK' /\ TimeKept /\ UNCHANGED <<db, ordered, squeezed>>

(* Every step is one of these.                                              *)
LEMMA Steps ==
  ASSUME TypeOK, [Next]_vars
  PROVE  \/ \E r \in Requests : \E call : Asked(r, call)
         \/ \E r \in Requests : Served(r)
         \/ \E r \in Requests : Dropped(r)
         \/ AtOnceDone
         \/ DayPassed
         \/ UNCHANGED vars
<1>1. ASSUME NEW r \in Requests, AskStep(r) PROVE \E call : Asked(r, call)
  BY <1>1, AskEffects
<1>2. ASSUME NEW r \in Requests, ServeStep(r) PROVE Served(r)
  BY <1>2, ServeEffects
<1>3. ASSUME NEW r \in Requests, Drop(r) PROVE Dropped(r)
  BY <1>3, DropEffects DEF Dropped
<1>4. LockedStep => AtOnceDone
  BY LockedEffects
<1>5. NextDay => DayPassed
  BY DayEffects
<1> QED BY <1>1, <1>2, <1>3, <1>4, <1>5 DEF Next

LEMMA TypesAtFirst == Init => TypeOK
<1> SUFFICES ASSUME Init PROVE TypeOK
  OBVIOUS
<1> USE SubscriptionAssumption
<1>1. PICK status \in [Companies -> {"none", "draft", "active"}], n \in 0..Cardinality(Riders) :
        db = [co |-> [c \in Companies |-> [NewCompany EXCEPT !.status = status[c]]],
              sub |-> [s \in Subs |-> NoSub],
              claim |-> [s \in Subs |-> "none"],
              revenue |-> [s \in Subs |-> 0],
              rider |-> [c \in Companies |-> [m \in Riders |->
                           IF status[c] = "active" /\ m <= n THEN "active" ELSE "none"]],
              road |-> [c \in Companies |-> {}],
              seats |-> Limit]
  BY DEF Init
<1>2. \A c \in Companies : [NewCompany EXCEPT !.status = status[c]] \in CoRow
  <2>1. ASSUME NEW st \in {"none", "draft", "active"} PROVE [NewCompany EXCEPT !.status = st] \in CoRow
    BY <2>1 DEF NewCompany, CoRow, Statuses
  <2> QED BY <2>1
<1>3. db \in Db
  <2>1. db.co \in [Companies -> CoRow]
    BY <1>1, <1>2
  <2>2. db.sub \in [Subs -> SubRow] /\ db.claim \in [Subs -> ClaimStatuses] /\ db.revenue \in [Subs -> Nat]
    BY <1>1, SubRows DEF ClaimStatuses
  <2>3. db.rider \in [Companies -> [Riders -> RiderStatuses]]
    BY <1>1 DEF RiderStatuses
  <2>4. db.road \in [Companies -> SUBSET Riders] /\ db.seats \in [Plans -> Nat]
    BY <1>1
  <2> QED BY <1>1, <2>1, <2>2, <2>3, <2>4 DEF Db
<1>4. req = [r \in Requests |-> Done]
  BY DEF Init, Done
<1>5. ReqsOK /\ StaysPayment
  BY <1>4, DoneOK DEF ReqsOK, StaysPayment, Serving
<1>6. day = 1 /\ writes = 0 /\ ran = [c \in Companies |-> 0] /\ ordered = {} /\ squeezed = {}
  BY DEF Init
<1> QED BY <1>3, <1>5, <1>6 DEF TypeOK

(* The database, the requests and the history are always what they are      *)
(* declared to be.                                                          *)
THEOREM SubscriptionTypes == Spec => []TypeOK
<1>1. TypeOK /\ [Next]_vars => TypeOK'
  BY TypeStep
<1> QED BY TypesAtFirst, <1>1, PTL DEF Spec

-----------------------------------------------------------------------------
(* One trial for one e-mail address and one phone *)

(* A trial that waits or runs has its claim, a barring claim is a trial's,  *)
(* and two barring claims differ in both address and phone.                 *)
Claimed(sub, claim) ==
  /\ sub.kind = "TRIAL" /\ sub.status = "submitted" => claim = "pending"
  /\ sub.kind = "TRIAL" /\ sub.status = "approved" => claim = "approved"
  /\ Bars(claim) => sub.kind = "TRIAL"
Apart(c, b) == Email[c] # Email[b] /\ Phone[c] # Phone[b]
TrialsClaimed ==
  /\ \A s \in Subs : Claimed(db.sub[s], db.claim[s])
  /\ \A s, t \in Subs : s # t /\ Bars(db.claim[s]) /\ Bars(db.claim[t])
                          => Apart(db.sub[s].co, db.sub[t].co)

LEMMA ClaimsKept ==
  ASSUME TrialsClaimed, NEW s \in Subs, NEW row, NEW claim, SubIs(s, row), ClaimIs(s, claim),
         Claimed(row, claim),
         \A t \in Subs \ {s} : Bars(claim) /\ Bars(db.claim[t]) =>
           Apart(row.co, db.sub[t].co) /\ Apart(db.sub[t].co, row.co)
  PROVE  TrialsClaimed'
<1>1. \A t \in Subs : Claimed(db'.sub[t], db'.claim[t])
  BY DEF TrialsClaimed, SubIs, ClaimIs
<1>2. ASSUME NEW t \in Subs, NEW u \in Subs, t # u, Bars(db'.claim[t]), Bars(db'.claim[u])
      PROVE  Apart(db'.sub[t].co, db'.sub[u].co)
  BY <1>2 DEF TrialsClaimed, SubIs, ClaimIs
<1> QED BY <1>1, <1>2 DEF TrialsClaimed

LEMMA ClaimsStep ==
  ASSUME TypeOK, TrialsClaimed, [Next]_vars
  PROVE  TrialsClaimed'
<1>a. db \in Db /\ TypeOK'
  BY TypeStep DEF TypeOK
<1>k. ASSUME db'.sub = db.sub, db'.claim = db.claim PROVE TrialsClaimed'
  BY <1>k DEF TrialsClaimed
<1>s. ASSUME NEW s \in Subs, NEW row, SubIs(s, row), db'.claim = db.claim, row.kind # "TRIAL",
             db.sub[s].kind # "TRIAL"
      PROVE  TrialsClaimed'
  <2>1. ClaimIs(s, db.claim[s])
    BY <1>s DEF ClaimIs
  <2>2. ~Bars(db.claim[s]) /\ Claimed(row, db.claim[s])
    BY <1>s DEF TrialsClaimed, Claimed
  <2> QED BY <1>s, <2>1, <2>2, ClaimsKept
<1>t. ASSUME NEW s \in Subs, NEW row, NEW claim, SubIs(s, row), ClaimIs(s, claim),
             Claimed(row, claim), Bars(claim) => Bars(db.claim[s]), row.co = db.sub[s].co
      PROVE  TrialsClaimed'
  <2>1. \A t \in Subs \ {s} : Bars(claim) /\ Bars(db.claim[t]) =>
          Apart(row.co, db.sub[t].co) /\ Apart(db.sub[t].co, row.co)
    BY <1>t DEF TrialsClaimed
  <2> QED BY <1>t, <2>1, ClaimsKept
<1>1. ASSUME NEW r \in Requests, Served(r) PROVE TrialsClaimed'
  <2>1. CASE CompanyEdited(r) \/ CompanyMarked(r) \/ RiderSet(r)
    BY <2>1, <1>k DEF CompanyEdited, CompanyMarked, RiderSet, CompanySaved, RiderSaved, BooksKept
  <2>2. ASSUME NEW c, CompanyScanned(r, c) PROVE TrialsClaimed'
    BY <2>2, <1>k DEF CompanyScanned, CompanySaved, BooksKept
  <2>3. ASSUME NEW s \in Subs, PaymentMade(r, s) PROVE TrialsClaimed'
    BY <2>3, <1>s DEF PaymentMade, SubSaved, NewPayment, NoSub
  <2>4. CASE PaymentRefused(r)
    <3>1. req[r].row \in PaymentRow /\ req[r].s \in Subs /\ req[r].op = "reject"
      BY <2>4 DEF PaymentRefused, Refusal
    <3> DEFINE row == [req[r].row EXCEPT !.status = "rejected"]
    <3>2. row.kind = "PAYMENT" /\ db.sub[req[r].s].kind = "PAYMENT"
      BY <3>1 DEF PaymentRow, TypeOK, StaysPayment, Serving
    <3> HIDE DEF row
    <3>3. SubSaved(req[r].s, row)
      BY <2>4 DEF PaymentRefused, row
    <3> QED BY <3>1, <3>2, <3>3, <1>s DEF SubSaved
  <2> QED BY <1>1, <2>1, <2>2, <2>3, <2>4 DEF Served
<1>2. CASE AtOnceDone
  <2>1. ASSUME NEW c \in Companies, CompanyMade(c) PROVE TrialsClaimed'
    BY <2>1, <1>k DEF CompanyMade, CompanySaved, BooksKept
  <2>2. ASSUME NEW c \in Companies, NEW s \in Subs, TrialRequested(c, s) PROVE TrialsClaimed'
    <3>1. \A t \in Subs : Bars(db.claim[t]) => Apart(c, db.sub[t].co) /\ Apart(db.sub[t].co, c)
      BY <2>2 DEF TrialRequested, Barred, Apart
    <3>2. Claimed(NewTrial(c), "pending") /\ NewTrial(c).co = c
      BY DEF Claimed, NewTrial
    <3> QED BY <2>2, <3>1, <3>2, ClaimsKept DEF TrialRequested
  <2>3. ASSUME NEW c \in Companies, NEW s \in Subs, TrialApproved(c, s) PROVE TrialsClaimed'
    <3> DEFINE row == [db.sub[s] EXCEPT !.status = "approved"]
    <3>1. row.kind = "TRIAL" /\ row.status = "approved" /\ row.co = db.sub[s].co
      BY <2>3 DEF TrialApproved, TrialRow
    <3>2. db.claim[s] = "pending"
      BY <2>3 DEF TrialApproved, TrialRow, Open, TrialsClaimed, Claimed
    <3>3. SubIs(s, row) /\ ClaimIs(s, "approved")
      BY <2>3 DEF TrialApproved
    <3> HIDE DEF row
    <3>4. Claimed(row, "approved") /\ Bars(db.claim[s])
      BY <3>1, <3>2 DEF Claimed, Bars
    <3> QED BY <3>1, <3>3, <3>4, <1>t
  <2>4. ASSUME NEW c \in Companies, NEW s \in Subs, NEW claim \in {"blocked", "released"},
               TrialRejected(c, s, claim)
        PROVE  TrialsClaimed'
    <3> DEFINE row == [db.sub[s] EXCEPT !.status = "rejected"]
    <3>1. row.kind = "TRIAL" /\ row.status = "rejected" /\ row.co = db.sub[s].co
      BY <2>4 DEF TrialRejected, TrialRow
    <3>2. db.claim[s] = "pending"
      BY <2>4 DEF TrialRejected, TrialRow, Open, TrialsClaimed, Claimed
    <3>3. SubIs(s, row) /\ ClaimIs(s, claim)
      BY <2>4 DEF TrialRejected
    <3> HIDE DEF row
    <3>4. Claimed(row, claim) /\ Bars(db.claim[s])
      BY <3>1, <3>2 DEF Claimed, Bars
    <3> QED BY <3>1, <3>3, <3>4, <1>t
  <2>5. ASSUME NEW c \in Companies, NEW s \in Subs, PaymentApproved(c, s) PROVE TrialsClaimed'
    <3> DEFINE row == [db.sub[s] EXCEPT !.status = "approved"]
    <3>1. row.kind = "PAYMENT" /\ db.sub[s].kind = "PAYMENT"
      BY <2>5 DEF PaymentApproved, PaymentRow
    <3>2. SubIs(s, row) /\ db'.claim = db.claim
      BY <2>5 DEF PaymentApproved
    <3> HIDE DEF row
    <3> QED BY <3>1, <3>2, <1>s
  <2>6. ASSUME NEW s \in Subs, RevenueMade(s) PROVE TrialsClaimed'
    BY <2>6, <1>k DEF RevenueMade
  <2>7. ASSUME NEW c \in Companies, NEW n \in Riders, RiderAdded(c, n) PROVE TrialsClaimed'
    BY <2>7, <1>k DEF RiderAdded, RiderSaved, BooksKept
  <2>8. CASE RoadChanged
    BY <2>8, <1>k DEF RoadChanged, BooksKept
  <2>9. ASSUME NEW p \in Plans, NEW n \in Nat, PlanEdited(p, n) PROVE TrialsClaimed'
    BY <2>9, <1>k DEF PlanEdited, BooksKept
  <2> HIDE DEF TrialsClaimed
  <2> QED BY <1>2, <2>1, <2>2, <2>3, <2>4, <2>5, <2>6, <2>7, <2>8, <2>9 DEF AtOnceDone
<1>3. ASSUME UNCHANGED db PROVE TrialsClaimed'
  BY <1>3 DEF TrialsClaimed
<1> QED BY Steps, <1>1, <1>2, <1>3 DEF Asked, Dropped, DayPassed, vars

LEMMA ClaimsAtFirst == Init => TrialsClaimed
<1>1. Init => \A s \in Subs : db.sub[s] = NoSub /\ db.claim[s] = "none"
  BY DEF Init
<1> QED BY <1>1 DEF TrialsClaimed, Claimed, Bars, NoSub

(* requestTrial and the unique indexes on trial_claims: no two trials are   *)
(* approved for one e-mail address or one phone, however the requests and   *)
(* the decisions of other companies, and every other write, interleave.     *)
THEOREM TrialsOnce == Spec => []OneTrialEach
<1>1. TypeOK /\ TrialsClaimed /\ [Next]_vars => TypeOK' /\ TrialsClaimed'
  BY TypeStep, ClaimsStep
<1>2. TrialsClaimed => OneTrialEach
  <2> SUFFICES ASSUME TrialsClaimed, NEW s \in Subs, NEW t \in Subs, s # t,
                      db.sub[s].kind = "TRIAL", db.sub[t].kind = "TRIAL",
                      db.sub[s].status = "approved", db.sub[t].status = "approved"
               PROVE  Apart(db.sub[s].co, db.sub[t].co)
    BY DEF OneTrialEach, Apart
  <2>1. Bars(db.claim[s]) /\ Bars(db.claim[t])
    BY DEF TrialsClaimed, Claimed, Bars
  <2> QED BY <2>1 DEF TrialsClaimed
<1> QED BY TypesAtFirst, ClaimsAtFirst, <1>1, <1>2, PTL DEF Spec
-----------------------------------------------------------------------------
(* What holds when requests that save whole rows do not overlap *)

SavesAlone == Overlapping \subseteq {"activate"}

Exclusive ==
  \A q, r \in Requests : q # r /\ ~Idle(q) /\ ~Idle(r) => req[q].op = "activate"

(* What a request holds is what the database holds, but for what it changes. *)
NoTrialOpen(c) ==
  \A s \in Subs : db.sub[s].co = c /\ db.sub[s].kind = "TRIAL" => ~Open(db, s)
FreshFor(q) ==
  /\ q.op \in {"edit", "setStatus", "pay"} => q.row = db.co[q.c]
  /\ q.op \in {"edit", "setStatus"} => (q.op = "edit" <=> q.status = "kept")
  /\ q.op = "markPay" => \E s \in Subs : q.row = [db.co[q.c] EXCEPT !.pay = "submitted", !.last = s]
  /\ q.op = "markReject" => q.row = [db.co[q.c] EXCEPT !.pay = "rejected"]
  /\ q.op \in {"pay", "markPay", "markReject"} => NoTrialOpen(q.c)
  /\ q.op = "reject" => q.row = db.sub[q.s] /\ q.row.status \in {"submitted", "rejected"}
  /\ q.op = "scan" => q.today = day /\ \A c \in DOMAIN q.rows : q.rows[c] = db.co[c]
  /\ q.op = "saveRider" => q.row \in {db.rider[q.c][q.n], "inactive"}
  /\ q.op = "activate" => q.row = "active"
Fresh == \A r \in Requests : FreshFor(req[r])

(* A trial that waits is the last its company asked for, and all it asked.  *)
TrialWaits ==
  \A s \in Subs : db.sub[s].kind = "TRIAL" /\ Open(db, s) =>
    LET row == db.co[db.sub[s].co]
    IN /\ row.pay = "submitted" /\ row.last = s /\ row.plan = "free" /\ ~row.trial
       /\ OpenOf(db, db.sub[s].co) = {s}

(* The fields of a company's row that say what it is entitled to.           *)
TermsOf(row) ==
  /\ row.plan = "free" <=> row.expiry = 0
  /\ row.plan = "free" => ~row.trial
  /\ row.plan = "trial" => Trialing(row)
  /\ row.plan \in Plans => ~Trialing(row)
  /\ row.converted => row.trial
Terms ==
  \A c \in Companies : /\ TermsOf(db.co[c])
                       /\ db.co[c].status \in {"none", "draft"} => db.co[c].plan = "free"

Booked ==
  \A s \in Subs : db.revenue[s] =
    IF db.sub[s].kind = "PAYMENT" /\ db.sub[s].status = "approved" THEN 1 ELSE 0
StatusTold ==
  \A c \in Companies \ ordered : db.co[c].plan # "free" /\ Running(db.co[c])
                                   => db.co[c].status = "active"

LEMMA ServedAlone ==
  ASSUME TypeOK, Exclusive, NEW r \in Requests, Served(r)
  PROVE  /\ ~Idle(r)
         /\ \A q \in Requests \ {r} : Idle(q) \/ req[q].op = "activate"
         /\ RiderSet(r) \/ \A q \in Requests \ {r} : Idle(q)
<1>1. CASE CompanyEdited(r)
  BY <1>1 DEF CompanyEdited, Edit, Idle, Exclusive
<1>2. CASE CompanyMarked(r)
  BY <1>2 DEF CompanyMarked, Marking, Idle, Exclusive
<1>3. CASE PaymentRefused(r)
  BY <1>3 DEF PaymentRefused, Refusal, Idle, Exclusive
<1>4. CASE RiderSet(r)
  BY <1>4 DEF RiderSet, RiderSave, Idle, Exclusive
<1>5. ASSUME NEW s \in Subs, PaymentMade(r, s)
      PROVE  ~Idle(r) /\ \A q \in Requests \ {r} : Idle(q)
  BY <1>5 DEF PaymentMade, Pay, Idle, Exclusive
<1>6. ASSUME NEW c \in Companies, CompanyScanned(r, c)
      PROVE  ~Idle(r) /\ \A q \in Requests \ {r} : Idle(q)
  BY <1>6 DEF CompanyScanned, Idle, Exclusive
<1> QED BY <1>1, <1>2, <1>3, <1>4, <1>5, <1>6 DEF Served

LEMMA ExclusiveStep ==
  ASSUME SavesAlone, TypeOK, Exclusive, [Next]_vars
  PROVE  Exclusive'
<1>1. ASSUME NEW r \in Requests, NEW call, Asked(r, call) PROVE Exclusive'
  BY <1>1 DEF Asked, Becomes, Exclusive, Idle, SavesAlone
<1>2. ASSUME NEW r \in Requests, Served(r) PROVE Exclusive'
  <2>1. CASE RiderSet(r)
    BY <2>1, DoneOK DEF RiderSet, Becomes, Exclusive, Idle
  <2>2. CASE \A q \in Requests \ {r} : Idle(q)
    <3>1. PICK call : Becomes(r, call)
      BY <1>2 DEF Served, CompanyEdited, CompanyMarked, PaymentRefused, RiderSet, PaymentMade,
         CompanyScanned
    <3> QED BY <2>2, <3>1 DEF Becomes, Exclusive, Idle
  <2> QED BY <1>2, <2>1, <2>2, ServedAlone
<1>3. ASSUME NEW r \in Requests, Dropped(r) PROVE Exclusive'
  BY <1>3, DoneOK DEF Dropped, Becomes, Exclusive, Idle
<1>4. ASSUME req' = req PROVE Exclusive'
  BY <1>4 DEF Exclusive, Idle
<1> QED BY Steps, <1>1, <1>2, <1>3, <1>4 DEF AtOnceDone, DayPassed, vars

(* A company that has no trial open when it is asked has none.              *)
LEMMA NoTrialWaits ==
  ASSUME TypeOK, TrialWaits, NEW c \in Companies, ~TrialOpen(db, c)
  PROVE  NoTrialOpen(c)
  BY DEF TrialWaits, TrialOpen, NoTrialOpen, Open

LEMMA FreshStep ==
  ASSUME SavesAlone, TypeOK, Exclusive, Fresh, TrialWaits, [Next]_vars
  PROVE  Fresh'
<1>a. db \in Db /\ ReqsOK
  BY DEF TypeOK
<1>f. ASSUME NEW r \in Requests, NEW call, Becomes(r, call), FreshFor(call)',
             \A q \in Requests \ {r} : Idle(q) \/ req[q].op = "activate"
      PROVE  Fresh'
  <2>1. ASSUME NEW q \in Requests \ {r} PROVE FreshFor(req[q])'
    <3>1. PICK now : now = req[q]
      OBVIOUS
    <3>2. req'[q] = now
      BY <1>f, <3>1 DEF Becomes
    <3>3. now.op = "idle" \/ (now.op = "activate" /\ now.row = "active")
      <4>1. FreshFor(now)
        BY <3>1 DEF Fresh
      <4>2. now.op = "idle" \/ now.op = "activate"
        BY <1>f, <2>1, <3>1 DEF Idle
      <4>3. now.op = "activate" => now.row = "active"
        BY <4>1 DEF FreshFor
      <4> QED BY <4>2, <4>3
    <3>4. FreshFor(now)'
      BY <3>3 DEF FreshFor
    <3> QED BY <3>2, <3>4 DEF FreshFor
  <2>2. FreshFor(req[r])'
    BY <1>f DEF Becomes, FreshFor
  <2> QED BY <2>1, <2>2 DEF Fresh
<1>k. ASSUME NEW q \in Requests, db' = db, day' = day, req'[q] = req[q], FreshFor(req[q])
      PROVE  FreshFor(req[q])'
  <2>1. PICK now : now = req[q] /\ now = req'[q]
    BY <1>k
  <2>2. FreshFor(now)
    BY <1>k, <2>1
  <2>3. \A c : NoTrialOpen(c)' <=> NoTrialOpen(c)
    BY <1>k DEF NoTrialOpen, Open
  <2>4. FreshFor(now)'
    BY <1>k, <2>2, <2>3 DEF FreshFor
  <2> QED BY <2>1, <2>4, ZenonT(40) DEF FreshFor
<1>d. FreshFor(Done)'
  BY DEF FreshFor, Done
<1>1. ASSUME NEW r \in Requests, NEW call, Asked(r, call) PROVE Fresh'
  <2>1. ASSUME NEW q \in Requests \ {r} PROVE FreshFor(req[q])'
    <3>1. db' = db /\ day' = day /\ req'[q] = req[q]
      BY <1>1 DEF Asked, Becomes, TimeKept
    <3> QED BY <3>1, <1>k DEF Fresh
  <2>2. ReqOK(call)
    <3>1. ReqOK(call)'
      BY <1>1 DEF Asked, Becomes, ReqsOK
    <3> QED BY <3>1 DEF ReqOK, ScanOK, Done, Edit, Pay, Marking, Refusal, RiderSave
  <2>3. call.op = "pay" => NoTrialOpen(call.c)
    BY <1>1, <2>2, RequestShapes, NoTrialWaits DEF Asked, AskedFresh, Pay
  <2>4. FreshFor(call)
    BY <1>1, <2>3 DEF Asked, AskedFresh, FreshFor
  <2>5. FreshFor(req[r])'
    BY <1>1, <2>4 DEF Asked, Becomes, FreshFor, TimeKept, NoTrialOpen, Open
  <2> QED BY <2>1, <2>5 DEF Fresh
<1>2. ASSUME NEW r \in Requests, Served(r) PROVE Fresh'
  <2>a. ReqOK(req[r]) /\ FreshFor(req[r])
    BY <1>a DEF ReqsOK, Fresh
  <2>b. ASSUME Becomes(r, Done) PROVE Fresh'
    BY <1>2, <2>b, <1>f, <1>d, ServedAlone
  <2>1. CASE CompanyEdited(r) \/ CompanyMarked(r) \/ RiderSet(r)
    BY <2>1, <2>b DEF CompanyEdited, CompanyMarked, RiderSet
  <2>2. ASSUME NEW s \in Subs, PaymentMade(r, s) PROVE Fresh'
    <3>1. req[r] \in Pay /\ req[r].row = db.co[req[r].c] /\ NoTrialOpen(req[r].c)
      BY <2>2, <2>a DEF PaymentMade, FreshFor, Pay
    <3> DEFINE row == [db.co[req[r].c] EXCEPT !.pay = "submitted", !.last = s]
               call == [op |-> "markPay", c |-> req[r].c, row |-> row]
    <3>2. Becomes(r, call)
      BY <2>2, <3>1 DEF PaymentMade
    <3> QED
      <4>1. PICK now : now = call
        OBVIOUS
      <4>2. PICK c \in Companies : c = req[r].c
        BY <3>1 DEF Pay
      <4>3. db'.co = db.co /\ SubIs(s, NewPayment(c, req[r].plan))
        BY <2>2, <4>2 DEF PaymentMade, SubSaved
      <4>4. NoTrialOpen(c)'
        BY <3>1, <4>2, <4>3 DEF NoTrialOpen, SubIs, NewPayment, Open
      <4>5. now.op = "markPay" /\ now.c = c /\ now.row = [db.co[c] EXCEPT !.pay = "submitted", !.last = s]
        BY <4>1, <4>2
      <4>6. FreshFor(now)'
        BY <4>3, <4>4, <4>5 DEF FreshFor, NoTrialOpen, Open
      <4> QED BY <1>2, <3>2, <4>1, <4>6, <1>f, ServedAlone
  <2>3. CASE PaymentRefused(r)
    <3>1. req[r] \in Refusal /\ req[r].row = db.sub[req[r].s] /\ req[r].row.kind = "PAYMENT"
      BY <2>3, <2>a DEF PaymentRefused, FreshFor, Refusal, PaymentRow
    <3>2. PICK c \in Companies, s \in Subs : c = req[r].row.co /\ s = req[r].s
      BY <3>1 DEF Refusal, PaymentRow
    <3>3. CASE db.co[c].last # s
      BY <2>3, <3>2, <3>3, <2>b DEF PaymentRefused
    <3>4. CASE db.co[c].last = s
      <4>1. PICK call : call = [op |-> "markReject", c |-> c,
                                row |-> [db.co[c] EXCEPT !.pay = "rejected"]]
        OBVIOUS
      <4>2. Becomes(r, call)
        BY <2>3, <3>2, <3>4, <4>1 DEF PaymentRefused
      <4>3. PICK new : new = [req[r].row EXCEPT !.status = "rejected"]
        OBVIOUS
      <4>4. db'.co = db.co /\ SubIs(s, new) /\ new.kind = "PAYMENT"
        BY <2>3, <3>1, <3>2, <4>3 DEF PaymentRefused, SubSaved, Refusal, PaymentRow
      <4>5. NoTrialOpen(c)
        <5>1. SUFFICES ASSUME NEW t \in Subs, db.sub[t].co = c, db.sub[t].kind = "TRIAL", Open(db, t)
                       PROVE  FALSE
          BY DEF NoTrialOpen
        <5>2. db.co[c].last = t
          BY <5>1 DEF TrialWaits
        <5> QED BY <3>1, <3>2, <3>4, <5>1, <5>2
      <4>6. NoTrialOpen(c)'
        BY <4>4, <4>5 DEF NoTrialOpen, SubIs, Open
      <4>7. call.op = "markReject" /\ call.c = c /\ call.row = [db.co[c] EXCEPT !.pay = "rejected"]
        BY <4>1
      <4>8. FreshFor(call)'
        BY <4>4, <4>6, <4>7 DEF FreshFor, NoTrialOpen, Open
      <4> QED BY <1>2, <4>2, <4>8, <1>f, ServedAlone
    <3> QED BY <3>3, <3>4
  <2>4. ASSUME NEW c \in Companies, CompanyScanned(r, c) PROVE Fresh'
    <3>1. ScanOK(req[r]) /\ req[r].op = "scan"
      BY <2>4, <2>a, RequestShapes DEF CompanyScanned
    <3>2. PICK D \in SUBSET Companies : req[r] \in [op : {"scan"}, today : Nat, rows : [D -> CoRow]]
      BY <3>1 DEF ScanOK
    <3>3. PICK call : call = [req[r] EXCEPT !.rows = [x \in D \ {c} |-> req[r].rows[x]]]
      OBVIOUS
    <3>4. Becomes(r, Done) \/ Becomes(r, call)
      BY <2>4, <3>2, <3>3 DEF CompanyScanned
    <3>5. /\ call.op = "scan" /\ call.today = day /\ DOMAIN call.rows = D \ {c}
          /\ \A x \in D \ {c} : call.rows[x] = db.co[x]
      BY <2>a, <3>1, <3>2, <3>3 DEF FreshFor
    <3>6. day' = day /\ \A x \in Companies \ {c} : db'.co[x] = db.co[x]
      BY <1>2, <2>4 DEF Served, TimeKept, CompanyScanned, CompanySaved, CoIs
    <3>7. FreshFor(call)'
      BY <3>5, <3>6 DEF FreshFor
    <3> QED BY <1>2, <3>4, <3>7, <2>b, <1>f, ServedAlone
  <2> QED BY <1>2, <2>1, <2>2, <2>3, <2>4 DEF Served
<1>3. ASSUME NEW r \in Requests, Dropped(r) PROVE Fresh'
  <2>1. ASSUME NEW q \in Requests \ {r} PROVE FreshFor(req[q])'
    <3>1. db' = db /\ day' = day /\ req'[q] = req[q]
      BY <1>3 DEF Dropped, Becomes, TimeKept
    <3> QED BY <3>1, <1>k DEF Fresh
  <2>2. FreshFor(req[r])'
    BY <1>3 DEF Dropped, Becomes, FreshFor, Done
  <2> QED BY <2>1, <2>2 DEF Fresh
<1>4. ASSUME req' = req, \A q \in Requests : Idle(q) \/ req[q].op = "activate" PROVE Fresh'
  BY <1>4 DEF Fresh, FreshFor, Idle
<1>5. AtOnceDone => Fresh'
  BY <1>4 DEF AtOnceDone, SavesAlone
<1>6. DayPassed => Fresh'
  BY <1>4 DEF DayPassed
<1>7. ASSUME UNCHANGED vars PROVE Fresh'
  <2>1. db' = db /\ req' = req /\ day' = day
    BY <1>7 DEF vars
  <2>2. ASSUME NEW q \in Requests PROVE FreshFor(req[q])'
    <3>1. FreshFor(req[q])
      BY DEF Fresh
    <3> QED BY <2>1, <3>1 DEF FreshFor, NoTrialOpen, Open
  <2> QED BY <2>1, <2>2 DEF Fresh
<1> QED BY Steps, <1>1, <1>2, <1>3, <1>5, <1>6, <1>7
-----------------------------------------------------------------------------
(* The trial that waits *)

(* The fields of a company's row that decide what it is entitled to stay.   *)
SameTerms(old, new) ==
  /\ new.plan = old.plan /\ new.expiry = old.expiry
  /\ new.trial = old.trial /\ new.converted = old.converted
SamePay(old, new) == new.pay = old.pay /\ new.last = old.last

LEMMA WaitsOn ==
  ASSUME TrialWaits, db'.sub = db.sub,
         \A x \in Companies : /\ SameTerms(db.co[x], db'.co[x])
                              /\ (SamePay(db.co[x], db'.co[x]) \/ NoTrialOpen(x)),
         TypeOK
  PROVE  TrialWaits'
<1> SUFFICES ASSUME NEW s \in Subs, db'.sub[s].kind = "TRIAL", Open(db', s)
             PROVE  LET row == db'.co[db'.sub[s].co]
                    IN /\ row.pay = "submitted" /\ row.last = s /\ row.plan = "free" /\ ~row.trial
                       /\ OpenOf(db', db'.sub[s].co) = {s}
  BY DEF TrialWaits
<1>1. db.sub[s].kind = "TRIAL" /\ Open(db, s)
  BY DEF Open
<1>2. PICK c \in Companies : c = db.sub[s].co
  BY <1>1, Parts, SubKinds DEF TypeOK, TrialRow
<1>3. OpenOf(db', c) = OpenOf(db, c)
  BY DEF OpenOf, Open
<1>4. SamePay(db.co[c], db'.co[c])
  BY <1>1, <1>2 DEF NoTrialOpen
<1>5. /\ db.co[c].pay = "submitted" /\ db.co[c].last = s /\ db.co[c].plan = "free"
      /\ ~db.co[c].trial /\ OpenOf(db, c) = {s}
  BY <1>1, <1>2 DEF TrialWaits
<1>6. /\ db'.co[c].pay = db.co[c].pay /\ db'.co[c].last = db.co[c].last
      /\ db'.co[c].plan = db.co[c].plan /\ db'.co[c].trial = db.co[c].trial
  BY <1>4 DEF SamePay, SameTerms
<1>7. db'.sub[s].co = c
  BY <1>2
<1> QED BY <1>3, <1>5, <1>6, <1>7

LEMMA WaitsBesides ==
  ASSUME TypeOK, TrialWaits, NEW s \in Subs, NEW row, SubIs(s, row), db'.co = db.co,
         row.status = "submitted" => row.kind # "TRIAL" /\ NoTrialOpen(row.co)
  PROVE  TrialWaits'
<1> SUFFICES ASSUME NEW t \in Subs, db'.sub[t].kind = "TRIAL", Open(db', t)
             PROVE  LET new == db'.co[db'.sub[t].co]
                    IN /\ new.pay = "submitted" /\ new.last = t /\ new.plan = "free" /\ ~new.trial
                       /\ OpenOf(db', db'.sub[t].co) = {t}
  BY DEF TrialWaits
<1>1. t # s /\ db'.sub[t] = db.sub[t] /\ Open(db, t)
  BY DEF SubIs, Open
<1>2. OpenOf(db, db.sub[t].co) = {t}
  BY <1>1 DEF TrialWaits
<1>3. OpenOf(db', db.sub[t].co) = {t}
  BY <1>1, <1>2 DEF OpenOf, Open, SubIs, NoTrialOpen
<1> QED BY <1>1, <1>3 DEF TrialWaits

(* A decision closes the submission of a company, which had no other open   *)
(* if that one, or another, was a trial.                                    *)
LEMMA WaitsElsewhere ==
  ASSUME TypeOK, TrialWaits, NEW c \in Companies, NEW s \in Subs, NEW row, NEW new,
         SubIs(s, row), CoIs(c, new), db.sub[s].co = c, Open(db, s), row.status # "submitted"
  PROVE  TrialWaits'
<1> SUFFICES ASSUME NEW t \in Subs, db'.sub[t].kind = "TRIAL", Open(db', t)
             PROVE  LET co == db'.co[db'.sub[t].co]
                    IN /\ co.pay = "submitted" /\ co.last = t /\ co.plan = "free" /\ ~co.trial
                       /\ OpenOf(db', db'.sub[t].co) = {t}
  BY DEF TrialWaits
<1>1. t # s /\ db'.sub[t] = db.sub[t] /\ Open(db, t) /\ db.sub[t].kind = "TRIAL"
  BY DEF SubIs, Open
<1>2. PICK x \in Companies : x = db.sub[t].co
  BY <1>1, Parts, SubKinds DEF TypeOK, TrialRow
<1>3. OpenOf(db, x) = {t}
  BY <1>1, <1>2 DEF TrialWaits
<1>4. x # c
  BY <1>1, <1>3 DEF OpenOf
<1>5. db'.co[x] = db.co[x]
  BY <1>4 DEF CoIs
<1>6. OpenOf(db', x) = {t}
  BY <1>1, <1>3, <1>4 DEF OpenOf, Open, SubIs
<1> QED BY <1>1, <1>2, <1>5, <1>6 DEF TrialWaits

LEMMA WaitsAnew ==
  ASSUME TypeOK, TrialWaits, Terms, NEW c \in Companies, NEW s \in Subs, TrialRequested(c, s)
  PROVE  TrialWaits'
<1>a. /\ db.co[c] \in CoRow /\ db.co[c].plan = "free" /\ ~db.co[c].trial
      /\ OpenOf(db, c) = {} /\ SubIs(s, NewTrial(c))
      /\ CoIs(c, [db.co[c] EXCEPT !.pay = "submitted", !.last = s])
  BY Parts DEF TypeOK, TrialRequested, Terms
<1>b. PICK new : new = [db.co[c] EXCEPT !.pay = "submitted", !.last = s]
  OBVIOUS
<1>c. /\ new.pay = "submitted" /\ new.last = s /\ new.plan = "free" /\ ~new.trial
      /\ CoIs(c, new)
  BY <1>a, <1>b DEF CoRow
<1>d. /\ NewTrial(c).kind = "TRIAL" /\ NewTrial(c).co = c /\ NewTrial(c).status = "submitted"
  BY DEF NewTrial
<1>1. ASSUME NEW t \in Subs, db'.sub[t].kind = "TRIAL", Open(db', t), t # s
      PROVE  LET row == db'.co[db'.sub[t].co]
             IN /\ row.pay = "submitted" /\ row.last = t /\ row.plan = "free" /\ ~row.trial
                /\ OpenOf(db', db'.sub[t].co) = {t}
  <2>1. db'.sub[t] = db.sub[t] /\ Open(db, t) /\ db.sub[t].kind = "TRIAL"
    BY <1>1, <1>a DEF SubIs, Open
  <2>2. PICK x \in Companies : x = db.sub[t].co
    BY <2>1, Parts, SubKinds DEF TypeOK, TrialRow
  <2>3. OpenOf(db, x) = {t}
    BY <2>1, <2>2 DEF TrialWaits
  <2>4. x # c /\ db'.co[x] = db.co[x]
    BY <1>a, <2>3 DEF CoIs
  <2>5. OpenOf(db', x) = {t}
    <3>1. db'.sub[s].co = c /\ \A u \in Subs \ {s} : db'.sub[u] = db.sub[u]
      BY <1>a, <1>d DEF SubIs
    <3>2. \A u \in Subs : u \in OpenOf(db', x) <=> u \in OpenOf(db, x)
      <4>1. ASSUME NEW u \in Subs \ {s} PROVE u \in OpenOf(db', x) <=> u \in OpenOf(db, x)
        BY <3>1 DEF OpenOf, Open
      <4>2. s \notin OpenOf(db', x) /\ s \notin OpenOf(db, x)
        BY <1>1, <2>3, <2>4, <3>1 DEF OpenOf
      <4> QED BY <4>1, <4>2
    <3> QED BY <2>3, <3>2 DEF OpenOf
  <2> QED BY <2>1, <2>2, <2>4, <2>5 DEF TrialWaits
<1>2. OpenOf(db', c) = {s}
  BY <1>a, <1>d DEF OpenOf, Open, SubIs
<1>3. db'.sub[s].co = c /\ db'.co[c] = new
  BY <1>a, <1>c, <1>d DEF SubIs, CoIs
<1> QED BY <1>1, <1>2, <1>3, <1>c DEF TrialWaits

-----------------------------------------------------------------------------
(* The steps that leave what companies are entitled to *)

StatusMoves(x) ==
  LET old == db.co[x].status
      new == db'.co[x].status
  IN \/ new = old
     \/ x \in ordered' /\ new \notin {"none", "draft"}
     \/ Lapsed(db.co[x], day) /\ new = "inactive"
     \/ old = "none" /\ new = "draft"
RowsMove ==
  /\ \A x \in Companies : SameTerms(db.co[x], db'.co[x]) /\ StatusMoves(x)
  /\ ordered \subseteq ordered'

(* What a submission adds to the time its company has paid for.             *)
TermOf(d, s, c) ==
  IF d.sub[s].co = c /\ d.sub[s].kind = "PAYMENT" THEN d.revenue[s] * Length[d.sub[s].plan] ELSE 0
TermsKept == \A s \in Subs : \A c \in Companies : TermOf(db', s, c) = TermOf(db, s, c)

LEMMA RowsKept ==
  ASSUME db'.co = db.co, ordered' = ordered
  PROVE  RowsMove /\ \A x \in Companies : SamePay(db.co[x], db'.co[x])
  BY DEF RowsMove, SameTerms, StatusMoves, SamePay

LEMMA RowMoved ==
  ASSUME NEW c \in Companies, NEW row, CoIs(c, row), SameTerms(db.co[c], row), ordered \subseteq ordered',
         \/ row.status = db.co[c].status
         \/ (c \in ordered' /\ row.status \notin {"none", "draft"})
         \/ (Lapsed(db.co[c], day) /\ row.status = "inactive")
         \/ (db.co[c].status = "none" /\ row.status = "draft")
  PROVE  RowsMove
  BY DEF RowsMove, CoIs, SameTerms, StatusMoves

LEMMA ServedRows ==
  ASSUME TypeOK, Fresh, TrialWaits, NEW r \in Requests, Served(r)
  PROVE  RowsMove /\ TrialWaits'
<1> USE SubscriptionAssumption
<1>a. ReqOK(req[r]) /\ FreshFor(req[r]) /\ db \in Db
  BY DEF TypeOK, ReqsOK, Fresh
<1>w. ASSUME RowsMove, db'.sub = db.sub, 
             \A x \in Companies : SamePay(db.co[x], db'.co[x]) \/ NoTrialOpen(x)
      PROVE  TrialWaits'
  BY <1>w, WaitsOn DEF RowsMove
<1>1. CASE CompanyEdited(r)
  <2>1. req[r] \in Edit /\ req[r].row = db.co[req[r].c]
    BY <1>1, <1>a DEF CompanyEdited, FreshFor, Edit
  <2>2. PICK c \in Companies : c = req[r].c
    BY <2>1 DEF Edit
  <2>3. PICK row : row = Edited(req[r])
    OBVIOUS
  <2>4. db.co[c] \in CoRow
    BY <1>a, Parts
  <2>5. /\ SameTerms(db.co[c], row) /\ SamePay(db.co[c], row)
        /\ row.status = db.co[c].status \/ (req[r].op = "setStatus" /\ row.status = req[r].status)
    <3>1. CASE req[r].status = "kept"
      BY <2>1, <2>2, <2>3, <3>1 DEF Edited, SameTerms, SamePay
    <3>2. CASE req[r].status # "kept"
      <4>1. row = [db.co[c] EXCEPT !.status = req[r].status]
        BY <2>1, <2>2, <2>3, <3>2 DEF Edited
      <4>2. SameTerms(db.co[c], row) /\ SamePay(db.co[c], row) /\ row.status = req[r].status
        BY <2>4, <4>1 DEF CoRow, SameTerms, SamePay
      <4> QED BY <4>2, <3>2, <2>1, <1>a DEF FreshFor, Edit
    <3> QED BY <3>1, <3>2
  <2>6. CoIs(c, row) /\ db'.sub = db.sub
    BY <1>1, <2>2, <2>3 DEF CompanyEdited, CompanySaved, BooksKept
  <2>7. ordered' = IF req[r].op = "setStatus" THEN ordered \cup {c} ELSE ordered
    BY <1>1, <2>2 DEF CompanyEdited
  <2>8. req[r].op = "setStatus" => req[r].status \notin {"none", "draft"}
    BY <2>1, <1>a DEF Edit, FreshFor
  <2>9. RowsMove
    BY <2>5, <2>6, <2>7, <2>8, RowMoved
  <2>10. \A x \in Companies : SamePay(db.co[x], db'.co[x])
    BY <2>5, <2>6 DEF CoIs, SamePay
  <2> QED BY <2>6, <2>9, <2>10, <1>w
<1>2. CASE CompanyMarked(r)
  <2>1. req[r] \in Marking /\ NoTrialOpen(req[r].c)
    BY <1>2, <1>a DEF CompanyMarked, FreshFor, Marking
  <2>2. PICK c \in Companies : c = req[r].c
    BY <2>1 DEF Marking
  <2>3. db.co[c] \in CoRow
    BY <1>a, Parts
  <2>4. \/ \E s \in Subs : req[r].row = [db.co[c] EXCEPT !.pay = "submitted", !.last = s]
        \/ req[r].row = [db.co[c] EXCEPT !.pay = "rejected"]
    BY <2>1, <2>2, <1>a DEF Marking, FreshFor
  <2>5. SameTerms(db.co[c], req[r].row) /\ req[r].row.status = db.co[c].status
    BY <2>3, <2>4 DEF CoRow, SameTerms
  <2>6. CoIs(c, req[r].row) /\ db'.sub = db.sub /\ ordered' = ordered
    BY <1>2, <2>2 DEF CompanyMarked, CompanySaved, BooksKept
  <2>7. RowsMove
    BY <2>5, <2>6, RowMoved
  <2>8. \A x \in Companies : SamePay(db.co[x], db'.co[x]) \/ NoTrialOpen(x)
    BY <2>1, <2>2, <2>6 DEF CoIs, SamePay
  <2> QED BY <2>6, <2>7, <2>8, <1>w
<1>3. CASE PaymentRefused(r)
  <2>1. req[r].s \in Subs /\ req[r].row \in PaymentRow
    BY <1>3 DEF PaymentRefused, Refusal
  <2>2. PICK row : row = [req[r].row EXCEPT !.status = "rejected"]
    OBVIOUS
  <2>3. row.status = "rejected"
    BY <2>1, <2>2 DEF PaymentRow
  <2>4. SubIs(req[r].s, row) /\ db'.co = db.co /\ ordered' = ordered
    BY <1>3, <2>2 DEF PaymentRefused, SubSaved
  <2> QED BY <2>1, <2>3, <2>4, RowsKept, WaitsBesides
<1>4. CASE RiderSet(r)
  <2>1. db'.co = db.co /\ ordered' = ordered /\ db'.sub = db.sub
    BY <1>4 DEF RiderSet, RiderSaved, BooksKept
  <2> QED BY <2>1, RowsKept, <1>w
<1>5. ASSUME NEW s \in Subs, PaymentMade(r, s) PROVE RowsMove /\ TrialWaits'
  <2>1. NoTrialOpen(req[r].c)
    BY <1>5, <1>a DEF PaymentMade, Pay, FreshFor
  <2>2. PICK row : row = NewPayment(req[r].c, req[r].plan)
    OBVIOUS
  <2>3. row.kind # "TRIAL" /\ row.co = req[r].c
    BY <2>2 DEF NewPayment
  <2>4. SubIs(s, row) /\ db'.co = db.co /\ ordered' = ordered
    BY <1>5, <2>2 DEF PaymentMade, SubSaved
  <2> QED BY <2>1, <2>3, <2>4, RowsKept, WaitsBesides
<1>6. ASSUME NEW c \in Companies, CompanyScanned(r, c) PROVE RowsMove /\ TrialWaits'
  <2>1. ScanOK(req[r]) /\ req[r].op = "scan"
    BY <1>6, <1>a, RequestShapes DEF CompanyScanned
  <2>2. req[r].today = day /\ req[r].rows[c] = db.co[c]
    BY <1>6, <1>a, <2>1 DEF FreshFor, CompanyScanned
  <2>3. db.co[c] \in CoRow
    BY <1>a, Parts
  <2>4. PICK row : row = Scanned(db.co[c], day)
    OBVIOUS
  <2>5. /\ SameTerms(db.co[c], row) /\ SamePay(db.co[c], row)
        /\ row.status = IF Lapsed(db.co[c], day) THEN "inactive" ELSE db.co[c].status
    BY <2>3, <2>4, ScannedRow DEF SameTerms, SamePay
  <2>6. CoIs(c, row) /\ db'.sub = db.sub /\ ordered' = ordered
    BY <1>6, <2>2, <2>4 DEF CompanyScanned, CompanySaved, BooksKept
  <2>7. RowsMove
    BY <2>5, <2>6, RowMoved
  <2>8. \A x \in Companies : SamePay(db.co[x], db'.co[x])
    BY <2>5, <2>6 DEF CoIs, SamePay
  <2> QED BY <2>6, <2>7, <2>8, <1>w
<1> QED BY <1>1, <1>2, <1>3, <1>4, <1>5, <1>6 DEF Served
LEMMA BooksSame ==
  ASSUME db'.sub = db.sub, db'.revenue = db.revenue
  PROVE  TermsKept /\ (Booked => Booked')
  BY DEF TermsKept, TermOf, Booked

(* A submission that is not a payment that has been approved counts for     *)
(* nothing.                                                                 *)
LEMMA BooksBesides ==
  ASSUME TypeOK, db' \in Db, Booked, NEW s \in Subs, NEW row, SubIs(s, row), db'.revenue = db.revenue,
         db.sub[s].kind # "PAYMENT" \/ db.sub[s].status # "approved",
         row.kind # "PAYMENT" \/ row.status # "approved"
  PROVE  TermsKept /\ Booked'
<1>1. db.revenue[s] = 0
  BY DEF Booked
<1>2. \A t \in Subs : t # s => db'.sub[t] = db.sub[t]
  BY DEF SubIs
<1>3. db'.sub[s] = row
  BY DEF SubIs
<1>4. Booked'
  BY <1>1, <1>2, <1>3 DEF Booked
<1>5. \A p \in Plans : 0 * Length[p] = 0
  BY SubscriptionAssumption
<1>6. ASSUME NEW c \in Companies PROVE TermOf(db', s, c) = 0 /\ TermOf(db, s, c) = 0
  <2>1. db.sub[s] \in SubRow /\ db'.sub[s] \in SubRow
    BY Parts DEF TypeOK
  <2> QED BY <1>1, <1>5, <2>1, SubKinds DEF TermOf, PaymentRow
<1>7. ASSUME NEW c \in Companies, NEW t \in Subs, t # s PROVE TermOf(db', t, c) = TermOf(db, t, c)
  BY <1>2, <1>7 DEF TermOf
<1> QED BY <1>4, <1>6, <1>7 DEF TermsKept

LEMMA ServedBooks ==
  ASSUME TypeOK, db' \in Db, Fresh, Booked, NEW r \in Requests, Served(r)
  PROVE  TermsKept /\ Booked'
<1>a. ReqOK(req[r]) /\ FreshFor(req[r])
  BY DEF TypeOK, ReqsOK, Fresh
<1>1. CASE CompanyEdited(r) \/ CompanyMarked(r) \/ RiderSet(r)
  BY <1>1, BooksSame DEF CompanyEdited, CompanyMarked, RiderSet, CompanySaved, RiderSaved, BooksKept
<1>2. ASSUME NEW c, CompanyScanned(r, c) PROVE TermsKept /\ Booked'
  BY <1>2, BooksSame DEF CompanyScanned, CompanySaved, BooksKept
<1>3. ASSUME NEW s \in Subs, PaymentMade(r, s) PROVE TermsKept /\ Booked'
  <2>1. PICK row : row = NewPayment(req[r].c, req[r].plan)
    OBVIOUS
  <2>2. row.status # "approved"
    BY <2>1 DEF NewPayment
  <2>3. SubIs(s, row) /\ db'.revenue = db.revenue /\ db.sub[s].kind # "PAYMENT"
    BY <1>3, <2>1 DEF PaymentMade, SubSaved, NoSub
  <2> QED BY <2>2, <2>3, BooksBesides
<1>4. CASE PaymentRefused(r)
  <2>1. req[r].row \in PaymentRow /\ req[r].s \in Subs /\ req[r].op = "reject"
    BY <1>4 DEF PaymentRefused, Refusal
  <2>2. db.sub[req[r].s].status # "approved"
    BY <1>a, <2>1 DEF FreshFor
  <2>3. PICK row : row = [req[r].row EXCEPT !.status = "rejected"]
    OBVIOUS
  <2>4. row.status = "rejected"
    BY <2>1, <2>3 DEF PaymentRow
  <2>5. SubIs(req[r].s, row) /\ db'.revenue = db.revenue
    BY <1>4, <2>3 DEF PaymentRefused, SubSaved
  <2> QED BY <2>1, <2>2, <2>4, <2>5, BooksBesides
<1> QED BY <1>1, <1>2, <1>3, <1>4 DEF Served
-----------------------------------------------------------------------------
(* The operations that hold their locks *)

(* All but an approval.                                                     *)
LEMMA LockedRows ==
  ASSUME TypeOK, db' \in Db, TrialWaits, Terms, Booked, AtOnceDone,
         ~ \E c \in Companies, s \in Subs : TrialApproved(c, s) \/ PaymentApproved(c, s)
  PROVE  RowsMove /\ TrialWaits' /\ TermsKept /\ Booked'
<1> DEFINE Goal == RowsMove /\ TrialWaits' /\ TermsKept /\ Booked'
<1>a. db \in Db
  BY DEF TypeOK
<1>k. ASSUME db'.co = db.co, ordered' = ordered, db'.sub = db.sub, db'.revenue = db.revenue
      PROVE  Goal
  <2>1. RowsMove /\ \A x \in Companies : SamePay(db.co[x], db'.co[x])
    BY <1>k, RowsKept
  <2> QED BY <1>k, <2>1, BooksSame, WaitsOn DEF RowsMove
<1>1. ASSUME NEW c \in Companies, CompanyMade(c) PROVE Goal
  <2>1. PICK row : row = [db.co[c] EXCEPT !.status = "draft"]
    OBVIOUS
  <2>2. db.co[c] \in CoRow /\ db.co[c].status = "none" /\ CoIs(c, row)
    BY <1>1, <1>a, <2>1, Parts DEF CompanyMade, CompanySaved
  <2>3. SameTerms(db.co[c], row) /\ SamePay(db.co[c], row) /\ row.status = "draft"
    BY <2>1, <2>2 DEF CoRow, SameTerms, SamePay
  <2>4. db'.sub = db.sub /\ db'.revenue = db.revenue /\ ordered' = ordered
    BY <1>1 DEF CompanyMade, CompanySaved, BooksKept
  <2>5. RowsMove
    BY <2>2, <2>3, <2>4, RowMoved
  <2>6. \A x \in Companies : SamePay(db.co[x], db'.co[x])
    BY <2>2, <2>3 DEF CoIs, SamePay
  <2> QED BY <2>4, <2>5, <2>6, BooksSame, WaitsOn DEF RowsMove
<1>2. ASSUME NEW c \in Companies, NEW s \in Subs, TrialRequested(c, s), ordered' = ordered
      PROVE  Goal
  <2>1. PICK row : row = [db.co[c] EXCEPT !.pay = "submitted", !.last = s]
    OBVIOUS
  <2>2. db.co[c] \in CoRow /\ CoIs(c, row) /\ db.sub[s] = NoSub /\ db'.revenue = db.revenue
    BY <1>2, <1>a, <2>1, Parts DEF TrialRequested
  <2>3. SameTerms(db.co[c], row) /\ row.status = db.co[c].status
    BY <2>1, <2>2 DEF CoRow, SameTerms
  <2>4. RowsMove
    BY <1>2, <2>2, <2>3, RowMoved
  <2>5. PICK new : new = NewTrial(c)
    OBVIOUS
  <2>6. SubIs(s, new) /\ new.kind # "PAYMENT" /\ db.sub[s].kind # "PAYMENT"
    BY <1>2, <2>2, <2>5 DEF TrialRequested, NewTrial, NoSub
  <2>7. TermsKept /\ Booked'
    BY <2>2, <2>6, BooksBesides
  <2> QED BY <1>2, <2>4, <2>7, WaitsAnew
<1>3. ASSUME NEW c \in Companies, NEW s \in Subs, NEW claim \in {"blocked", "released"},
             TrialRejected(c, s, claim), ordered' = ordered
      PROVE  Goal
  <2>1. PICK row : /\ CoIs(c, row)
                   /\ row = [db.co[c] EXCEPT !.pay = "none"] \/ row = db.co[c]
    BY <1>3 DEF TrialRejected
  <2>2. db.co[c] \in CoRow /\ db.sub[s] \in TrialRow /\ Open(db, s) /\ db.sub[s].co = c
        /\ db'.revenue = db.revenue
    BY <1>3, <1>a, Parts DEF TrialRejected
  <2>3. SameTerms(db.co[c], row) /\ row.status = db.co[c].status
    BY <2>1, <2>2 DEF CoRow, SameTerms
  <2>4. RowsMove
    BY <1>3, <2>1, <2>3, RowMoved
  <2>5. PICK new : new = [db.sub[s] EXCEPT !.status = "rejected"]
    OBVIOUS
  <2>6. SubIs(s, new) /\ new.kind # "PAYMENT" /\ db.sub[s].kind # "PAYMENT" /\ new.status = "rejected"
    BY <1>3, <2>2, <2>5 DEF TrialRejected, TrialRow
  <2>7. TermsKept /\ Booked'
    BY <2>2, <2>6, BooksBesides
  <2>8. TrialWaits'
    BY <2>1, <2>2, <2>6, WaitsElsewhere
  <2> QED BY <2>4, <2>7, <2>8
<1>4. ASSUME NEW s \in Subs, RevenueMade(s) PROVE Goal
  <2>1. db.revenue[s] = 1 /\ RevenueIs(s)
    BY <1>4 DEF RevenueMade, Booked
  <2>2. \A t \in Subs : db'.revenue[t] = db.revenue[t]
    BY <2>1 DEF RevenueIs
  <2>3. db'.revenue = db.revenue
    BY <1>a, <2>2, Parts
  <2> QED BY <1>4, <2>3, <1>k DEF RevenueMade
<1>5. ASSUME NEW c \in Companies, NEW n \in Riders, RiderAdded(c, n) PROVE Goal
  BY <1>5, <1>k DEF RiderAdded, RiderSaved, BooksKept
<1>6. ASSUME RoadChanged, ordered' = ordered PROVE Goal
  BY <1>6, <1>k DEF RoadChanged, BooksKept
<1>7. ASSUME NEW p \in Plans, NEW n \in Nat, PlanEdited(p, n), ordered' = ordered PROVE Goal
  BY <1>7, <1>k DEF PlanEdited, BooksKept
<1> HIDE DEF Goal
<1>8. Goal
  BY <1>1, <1>2, <1>3, <1>4, <1>5, <1>6, <1>7 DEF AtOnceDone
<1> QED BY <1>8 DEF Goal

LEMMA TrialApprovedBooks ==
  ASSUME TypeOK, db' \in Db, TrialWaits, Booked, NEW c \in Companies, NEW s \in Subs, TrialApproved(c, s)
  PROVE  TrialWaits' /\ TermsKept /\ Booked'
<1>1. PICK new : new = [db.sub[s] EXCEPT !.status = "approved"]
  OBVIOUS
<1>2. PICK row : row = OnTrial(db.co[c], day + TrialDays)
  OBVIOUS
<1>3. /\ SubIs(s, new) /\ new.kind # "PAYMENT" /\ db.sub[s].kind # "PAYMENT" /\ new.status = "approved"
      /\ CoIs(c, row) /\ db'.revenue = db.revenue /\ db.sub[s].co = c /\ Open(db, s)
  BY <1>1, <1>2 DEF TrialApproved, TrialRow
<1> QED BY <1>3, BooksBesides, WaitsElsewhere

LEMMA PaymentApprovedBooks ==
  ASSUME TypeOK, db' \in Db, TrialWaits, Booked, NEW c \in Companies, NEW s \in Subs, PaymentApproved(c, s)
  PROVE  /\ TrialWaits' /\ Booked'
         /\ db.revenue[s] = 0 /\ db'.revenue[s] = 1
         /\ db'.sub[s].co = c /\ db'.sub[s].kind = "PAYMENT" /\ db'.sub[s].plan = db.sub[s].plan
         /\ \A t \in Subs \ {s} : \A x \in Companies : TermOf(db', t, x) = TermOf(db, t, x)
<1>1. PICK new : new = [db.sub[s] EXCEPT !.status = "approved"]
  OBVIOUS
<1>2. PICK row : CoIs(c, row)
  BY DEF PaymentApproved
<1>3. /\ SubIs(s, new) /\ new.kind = "PAYMENT" /\ new.co = c /\ new.plan = db.sub[s].plan
      /\ new.status = "approved" /\ RevenueIs(s) /\ db.sub[s].co = c /\ Open(db, s)
  BY <1>1 DEF PaymentApproved, PaymentRow
<1>4. TrialWaits'
  BY <1>2, <1>3, WaitsElsewhere
<1>5. db.revenue[s] = 0 /\ db'.revenue[s] = 1 /\ db'.sub[s] = new
  BY <1>3 DEF Booked, Open, RevenueIs, SubIs
<1>6. \A t \in Subs \ {s} : db'.sub[t] = db.sub[t] /\ db'.revenue[t] = db.revenue[t]
  BY <1>3 DEF RevenueIs, SubIs
<1>7. Booked'
  BY <1>3, <1>5, <1>6 DEF Booked
<1>8. \A t \in Subs \ {s} : \A x \in Companies : TermOf(db', t, x) = TermOf(db, t, x)
  BY <1>6 DEF TermOf
<1> QED BY <1>3, <1>4, <1>5, <1>7, <1>8

-----------------------------------------------------------------------------
(* Time *)

LEMMA TermsMove ==
  ASSUME TypeOK, Terms, StatusTold, RowsMove, day' = day
  PROVE  Terms' /\ StatusTold'
<1>1. ASSUME NEW x \in Companies
      PROVE  /\ TermsOf(db'.co[x])
             /\ db'.co[x].status \in {"none", "draft"} => db'.co[x].plan = "free"
  <2>1. /\ TermsOf(db.co[x]) /\ SameTerms(db.co[x], db'.co[x])
        /\ db.co[x].status \in {"none", "draft"} => db.co[x].plan = "free"
    BY DEF Terms, RowsMove
  <2>2. TermsOf(db'.co[x])
    BY <2>1 DEF TermsOf, SameTerms, Trialing
  <2>3. StatusMoves(x)
    BY DEF RowsMove
  <2> QED BY <2>1, <2>2, <2>3 DEF StatusMoves, SameTerms
<1>2. ASSUME NEW x \in Companies \ ordered', db'.co[x].plan # "free", db'.co[x].expiry > day'
      PROVE  db'.co[x].status = "active"
  <2>1. SameTerms(db.co[x], db'.co[x]) /\ StatusMoves(x) /\ x \notin ordered
    BY <1>2 DEF RowsMove
  <2>2. db.co[x].plan # "free" /\ db.co[x].expiry > day
    BY <1>2, <2>1 DEF SameTerms
  <2>3. db.co[x].status = "active"
    BY <2>1, <2>2 DEF StatusTold, Running
  <2>4. db.co[x].expiry \in Nat /\ day \in Nat
    BY Parts DEF TypeOK, CoRow
  <2>5. ~Lapsed(db.co[x], day)
    BY <2>2, <2>4 DEF Lapsed
  <2> QED BY <1>2, <2>1, <2>3, <2>5 DEF StatusMoves
<1> QED BY <1>1, <1>2 DEF Terms, StatusTold, Running

Honoured(c) == ran[c] + Left(db.co[c]) = PaidFor(c)

LEMMA PaidForIs ==
  ASSUME NEW c
  PROVE  PaidFor(c) = Sum([s \in Subs |-> TermOf(db, s, c)], Subs)
  BY DEF PaidFor, TermOf

LEMMA PaidForNext ==
  ASSUME NEW c
  PROVE  PaidFor(c)' = Sum([s \in Subs |-> TermOf(db', s, c)], Subs)
  BY DEF PaidFor, TermOf

LEMMA HonouredMoves ==
  ASSUME TypeOK, day' = day, ran' = ran, NEW c \in Companies, Honoured(c),
         \A s \in Subs : TermOf(db', s, c) = TermOf(db, s, c),
         SameTerms(db.co[c], db'.co[c])
  PROVE  Honoured(c)'
<1>1. PaidFor(c)' = PaidFor(c)
  <2> DEFINE f == [s \in Subs |-> TermOf(db, s, c)]
             g == [s \in Subs |-> TermOf(db', s, c)]
  <2>1. f = g
    OBVIOUS
  <2> QED BY <2>1, PaidForIs, PaidForNext
<1>2. Left(db.co[c])' = Left(db.co[c])
  BY DEF Left, Running, SameTerms
<1> QED BY <1>1, <1>2 DEF Honoured

LEMMA TermNumbers ==
  ASSUME NEW d \in Db, NEW c
  PROVE  \A s \in Subs : TermOf(d, s, c) \in Nat
<1> USE SubscriptionAssumption
<1>1. ASSUME NEW s \in Subs, d.sub[s].kind = "PAYMENT" PROVE d.revenue[s] * Length[d.sub[s].plan] \in Nat
  <2>1. d.sub[s].plan \in Plans
    BY <1>1, Parts, SubKinds DEF PaymentRow
  <2>2. d.revenue[s] \in Nat /\ Length[d.sub[s].plan] \in Nat
    BY <2>1, Parts
  <2> QED BY <2>2
<1> QED BY <1>1 DEF TermOf

LEMMA TrialApprovedTime ==
  ASSUME TypeOK, TrialWaits, Terms, StatusTold, TimeKept, TermsKept,
         NEW c \in Companies, NEW s \in Subs, TrialApproved(c, s)
  PROVE  Terms' /\ StatusTold' /\ \A x \in Companies : Honoured(x) => Honoured(x)'
<1> USE SubscriptionAssumption
<1>1. PICK row : row = OnTrial(db.co[c], day + TrialDays)
  OBVIOUS
<1>2. db.co[c] \in CoRow /\ day \in Nat
  BY Parts DEF TypeOK
<1>3. /\ row.trial = TRUE /\ row.plan = "trial" /\ row.expiry = day + TrialDays
      /\ row.status = "active" /\ row.converted = db.co[c].converted
  BY <1>1, <1>2 DEF OnTrial, CoRow
<1>4. db.co[c].plan = "free" /\ ~db.co[c].trial
  BY DEF TrialApproved, TrialWaits, TrialRow
<1>5. ~row.converted
  BY <1>3, <1>4 DEF Terms, TermsOf
<1>6. TermsOf(row)
  BY <1>2, <1>3, <1>5 DEF TermsOf, Trialing
<1>7. CoIs(c, row) /\ ordered' = ordered \ {c} /\ day' = day /\ ran' = ran
  BY <1>1 DEF TrialApproved, TimeKept
<1>8. Terms'
  BY <1>3, <1>6, <1>7 DEF Terms, CoIs
<1>9. StatusTold'
  BY <1>3, <1>7 DEF StatusTold, CoIs, Running
<1>10. ASSUME NEW x \in Companies, Honoured(x) PROVE Honoured(x)'
  <2>1. CASE x # c
    <3>1. SameTerms(db.co[x], db'.co[x])
      BY <2>1, <1>7 DEF CoIs, SameTerms
    <3>2. \A t \in Subs : TermOf(db', t, x) = TermOf(db, t, x)
      BY DEF TermsKept
    <3> QED BY <1>7, <1>10, <3>1, <3>2, HonouredMoves
  <2>2. CASE x = c
    <3>1. Left(db.co[c]) = 0
      BY <1>4 DEF Left
    <3>2. db'.co[c] = row
      BY <1>7 DEF CoIs
    <3>3. Left(db.co[c])' = 0
      BY <1>3, <3>2 DEF Left
    <3> DEFINE f == [t \in Subs |-> TermOf(db, t, c)]
               g == [t \in Subs |-> TermOf(db', t, c)]
    <3>4. f = g
      BY DEF TermsKept
    <3>5. PaidFor(c)' = PaidFor(c)
      BY <3>4, PaidForIs, PaidForNext
    <3> QED BY <1>7, <1>10, <2>2, <3>1, <3>3, <3>5 DEF Honoured
  <2> QED BY <2>1, <2>2
<1> QED BY <1>8, <1>9, <1>10

LEMMA PaymentApprovedTime ==
  ASSUME TypeOK, db' \in Db, TrialWaits, Terms, StatusTold, TimeKept, Booked,
         NEW c \in Companies, NEW s \in Subs, PaymentApproved(c, s)
  PROVE  Terms' /\ StatusTold' /\ \A x \in Companies : Honoured(x) => Honoured(x)'
<1> USE SubscriptionAssumption
<1>p. PICK p \in Plans : p = db.sub[s].plan
  BY DEF PaymentApproved, PaymentRow
<1>b. PICK base : base = Base(db.co[c])
  OBVIOUS
<1>l. PICK length : length = Length[p] /\ length \in Nat \ {0}
  OBVIOUS
<1>v. PICK converted : converted = (db.co[c].converted \/ Trialing(db.co[c]))
  OBVIOUS
<1>1. PICK row : row = OnPlan(db.co[c], p, base + length, converted)
  OBVIOUS
<1>2. db.co[c] \in CoRow /\ day \in Nat
  BY Parts DEF TypeOK
<1>3. /\ row.trial = db.co[c].trial /\ row.plan = p /\ row.expiry = base + length
      /\ row.status = "active" /\ row.converted = converted
  BY <1>1, <1>2 DEF OnPlan, CoRow
<1>4. TermsOf(db.co[c])
  BY DEF Terms
<1>5. base \in Nat /\ base = day + Left(db.co[c])
  <2>1. db.co[c].expiry \in Nat /\ db.co[c].plan \in Plans \cup {"free", "trial"}
    BY <1>2 DEF CoRow
  <2> QED BY <1>2, <1>4, <1>b, <2>1 DEF Base, Left, Running, TermsOf
<1>6. TermsOf(row)
  <2>1. db.co[c].trial \in BOOLEAN /\ db.co[c].converted \in BOOLEAN
    BY <1>2 DEF CoRow
  <2>2. ~Trialing(row)
    BY <1>3, <1>v, <2>1 DEF Trialing
  <2>3. row.expiry # 0 /\ row.plan # "free" /\ row.plan # "trial"
    BY <1>3, <1>5, <1>l
  <2>4. row.converted => row.trial
    BY <1>3, <1>4, <1>v DEF TermsOf, Trialing
  <2> QED BY <2>2, <2>3, <2>4 DEF TermsOf
<1>7. CoIs(c, row) /\ ordered' = ordered \ {c} /\ day' = day /\ ran' = ran
  BY <1>1, <1>p, <1>b, <1>l, <1>v DEF PaymentApproved, TimeKept
<1>8. Terms'
  BY <1>3, <1>6, <1>7 DEF Terms, CoIs
<1>9. StatusTold'
  BY <1>3, <1>7 DEF StatusTold, CoIs, Running
<1>10. /\ db.revenue[s] = 0 /\ db'.revenue[s] = 1
       /\ db'.sub[s].co = c /\ db'.sub[s].kind = "PAYMENT" /\ db'.sub[s].plan = p
       /\ \A t \in Subs \ {s} : \A x \in Companies : TermOf(db', t, x) = TermOf(db, t, x)
  BY <1>p, PaymentApprovedBooks
<1>11. db.sub[s].co = c
  BY DEF PaymentApproved
<1>12. ASSUME NEW x \in Companies, Honoured(x) PROVE Honoured(x)'
  <2>1. CASE x # c
    <3>1. SameTerms(db.co[x], db'.co[x])
      BY <2>1, <1>7 DEF CoIs, SameTerms
    <3>2. TermOf(db', s, x) = 0 /\ TermOf(db, s, x) = 0
      BY <2>1, <1>10, <1>11 DEF TermOf
    <3>3. \A t \in Subs : TermOf(db', t, x) = TermOf(db, t, x)
      BY <1>10, <3>2
    <3> QED BY <1>7, <1>12, <3>1, <3>3, HonouredMoves
  <2>2. CASE x = c
    <3>1. db'.co[c] = row
      BY <1>7 DEF CoIs
    <3>2. Left(db.co[c])' = base + length - day
      <4>1. Left(db.co[c]) \in Nat
        BY <1>2 DEF Left, Running, CoRow
      <4>2. row.plan \in Plans /\ row.expiry = base + length /\ row.expiry > day
        BY <1>2, <1>3, <1>5, <1>l, <4>1
      <4>3. Left(db.co[c])' = IF row.plan \in Plans /\ row.expiry > day THEN row.expiry - day ELSE 0
        BY <1>7, <3>1 DEF Left, Running
      <4> QED BY <1>2, <1>5, <1>l, <4>2, <4>3
    <3> DEFINE f == [t \in Subs |-> TermOf(db, t, c)]
               g == [t \in Subs |-> TermOf(db', t, c)]
    <3>3. f[s] = 0 /\ g[s] = length
      BY <1>p, <1>l, <1>10 DEF TermOf
    <3>4. \A t \in Subs : f[t] \in Int /\ g[t] \in Int
      BY TermNumbers DEF TypeOK
    <3>5. \A t \in Subs \ {s} : g[t] = f[t]
      BY <1>10
    <3> HIDE DEF f, g
    <3>6. Sum(g, Subs) = Sum(f, Subs) + g[s] - f[s]
      BY <3>4, <3>5, SumChange
    <3>7. PaidFor(c) = Sum(f, Subs) /\ PaidFor(c)' = Sum(g, Subs)
      BY PaidForIs, PaidForNext DEF f, g
    <3>8. Sum(f, Subs) \in Int
      BY <3>4, SumInt
    <3>9. Left(db.co[c]) \in Nat /\ ran[c] \in Nat
      BY <1>2 DEF Left, Running, CoRow, TypeOK
    <3>10. ran'[c] + Left(db.co[c])' = PaidFor(c)'
      BY <1>2, <1>5, <1>7, <1>12, <1>l, <2>2, <3>2, <3>3, <3>6, <3>7, <3>8, <3>9 DEF Honoured
    <3> QED BY <2>2, <3>10 DEF Honoured
  <2> QED BY <2>1, <2>2
<1> QED BY <1>8, <1>9, <1>12

(* A day that passes is a day served and a day less left.                   *)
LEMMA DayTime ==
  ASSUME TypeOK, DayPassed, Terms, StatusTold
  PROVE  Terms' /\ StatusTold' /\ \A x \in Companies : Honoured(x) => Honoured(x)'
<1>1. day' = day + 1 /\ db' = db /\ ordered' = ordered /\ day \in Nat
  BY DEF DayPassed, TypeOK
<1>2. Terms'
  BY <1>1 DEF Terms
<1>3. ASSUME NEW x \in Companies PROVE db.co[x].expiry \in Nat /\ ran[x] \in Nat
  BY Parts DEF TypeOK, CoRow
<1>4. StatusTold'
  BY <1>1, <1>3 DEF StatusTold, Running
<1>5. ASSUME NEW x \in Companies, Honoured(x) PROVE Honoured(x)'
  <2>1. PaidFor(x)' = PaidFor(x)
    BY <1>1, PaidForIs, PaidForNext
  <2>2. ran'[x] + Left(db.co[x])' = ran[x] + Left(db.co[x])
    BY <1>1, <1>3 DEF DayPassed, Left, Running
  <2> QED BY <1>5, <2>1, <2>2 DEF Honoured
<1> QED BY <1>2, <1>4, <1>5
-----------------------------------------------------------------------------
(* Time paid for is time served *)

TimeInv ==
  /\ Exclusive /\ Fresh /\ TrialWaits /\ Terms /\ Booked /\ StatusTold
  /\ \A c \in Companies : Honoured(c)

LEMMA FreeAtFirst ==
  ASSUME Init
  PROVE  /\ \A c \in Companies : /\ db.co[c].plan = "free" /\ db.co[c].expiry = 0
                                 /\ db.co[c].trial = FALSE /\ db.co[c].converted = FALSE
         /\ \A s \in Subs : db.sub[s] = NoSub /\ db.revenue[s] = 0
<1>1. PICK status \in [Companies -> {"none", "draft", "active"}], n \in 0..Cardinality(Riders) :
        db = [co |-> [c \in Companies |-> [NewCompany EXCEPT !.status = status[c]]],
              sub |-> [s \in Subs |-> NoSub],
              claim |-> [s \in Subs |-> "none"],
              revenue |-> [s \in Subs |-> 0],
              rider |-> [c \in Companies |-> [m \in Riders |->
                           IF status[c] = "active" /\ m <= n THEN "active" ELSE "none"]],
              road |-> [c \in Companies |-> {}],
              seats |-> Limit]
  BY DEF Init
<1>2. \A c \in Companies : db.co[c] = [NewCompany EXCEPT !.status = status[c]]
  BY <1>1
<1>3. ASSUME NEW st
      PROVE  /\ [NewCompany EXCEPT !.status = st].plan = "free"
             /\ [NewCompany EXCEPT !.status = st].expiry = 0
             /\ [NewCompany EXCEPT !.status = st].trial = FALSE
             /\ [NewCompany EXCEPT !.status = st].converted = FALSE
  BY DEF NewCompany
<1>4. \A s \in Subs : db.sub[s] = NoSub /\ db.revenue[s] = 0
  BY <1>1
<1>5. ASSUME NEW c \in Companies
      PROVE  /\ db.co[c].plan = "free" /\ db.co[c].expiry = 0
             /\ db.co[c].trial = FALSE /\ db.co[c].converted = FALSE
  BY ONLY <1>2, <1>3, <1>5
<1> QED BY <1>4, <1>5

LEMMA TimeAtFirst == Init => TimeInv
<1> SUFFICES ASSUME Init PROVE TimeInv
  OBVIOUS
<1>1. /\ \A c \in Companies : /\ db.co[c].plan = "free" /\ db.co[c].expiry = 0
                              /\ db.co[c].trial = FALSE /\ db.co[c].converted = FALSE
      /\ \A s \in Subs : db.sub[s] = NoSub /\ db.revenue[s] = 0
  BY FreeAtFirst
<1>2. \A r \in Requests : req[r].op = "idle"
  BY DEF Init
<1>3. Exclusive /\ Fresh
  BY <1>2 DEF Exclusive, Idle, Fresh, FreshFor
<1>4. TrialWaits /\ Booked
  BY <1>1 DEF TrialWaits, Open, NoSub, Booked
<1>5. "free" \notin Plans
  BY SubscriptionAssumption
<1>6. Terms /\ StatusTold
  BY <1>1, <1>5 DEF Terms, TermsOf, StatusTold
<1>7. ASSUME NEW c \in Companies PROVE Honoured(c)
  <2>1. ran[c] = 0
    BY DEF Init
  <2>2. Left(db.co[c]) = 0
    BY <1>1, <1>5 DEF Left
  <2> DEFINE f == [s \in Subs |-> TermOf(db, s, c)]
  <2>3. \A s \in Subs : f[s] = 0
    BY <1>1 DEF TermOf, NoSub
  <2>4. IsFiniteSet(Subs)
    BY SubscriptionAssumption
  <2> HIDE DEF f
  <2>5. Sum(f, Subs) = 0
    BY <2>3, <2>4, SumZero
  <2>6. PaidFor(c) = 0
    BY <2>5, PaidForIs DEF f
  <2> QED BY <2>1, <2>2, <2>6 DEF Honoured
<1> QED BY <1>3, <1>4, <1>6, <1>7 DEF TimeInv

LEMMA TimeStep ==
  ASSUME SavesAlone, TypeOK, TimeInv, [Next]_vars
  PROVE  TimeInv'
<1>a. Exclusive /\ Fresh /\ TrialWaits /\ Terms /\ Booked /\ StatusTold /\ \A c \in Companies : Honoured(c)
  BY DEF TimeInv
<1>b. Exclusive' /\ Fresh'
  BY <1>a, ExclusiveStep, FreshStep
<1>c. db' \in Db
  BY TypeStep DEF TypeOK
<1> DEFINE Kept == TrialWaits /\ Terms /\ Booked /\ StatusTold /\ \A c \in Companies : Honoured(c)
<1>m. ASSUME RowsMove, TrialWaits', TermsKept, Booked', TimeKept PROVE Kept'
  <2>1. Terms' /\ StatusTold'
    BY <1>a, <1>m, TermsMove DEF TimeKept
  <2>2. ASSUME NEW c \in Companies PROVE Honoured(c)'
    <3>1. /\ SameTerms(db.co[c], db'.co[c]) /\ Honoured(c) /\ day' = day /\ ran' = ran
          /\ \A s \in Subs : TermOf(db', s, c) = TermOf(db, s, c)
      BY <1>a, <1>m DEF RowsMove, TermsKept, TimeKept
    <3> QED BY <3>1, HonouredMoves
  <2> QED BY <1>m, <2>1, <2>2
<1>u. ASSUME db' = db, ordered' = ordered, TimeKept PROVE Kept'
  <2>1. RowsMove /\ TermsKept /\ Booked'
    BY <1>a, <1>u, RowsKept, BooksSame
  <2>2. TrialWaits'
    BY <1>a, <1>u DEF TrialWaits
  <2> HIDE DEF Kept
  <2> QED BY <1>u, <1>m, <2>1, <2>2
<1>t. ASSUME NEW c \in Companies, NEW s \in Subs, TrialApproved(c, s), TimeKept PROVE Kept'
  <2>1. TrialWaits' /\ TermsKept /\ Booked'
    BY <1>t, <1>a, <1>c, TrialApprovedBooks
  <2>2. Terms' /\ StatusTold' /\ \A x \in Companies : Honoured(x) => Honoured(x)'
    BY <1>t, <1>a, <2>1, TrialApprovedTime
  <2> QED BY <1>a, <2>1, <2>2
<1>p. ASSUME NEW c \in Companies, NEW s \in Subs, PaymentApproved(c, s), TimeKept PROVE Kept'
  <2>1. TrialWaits' /\ Booked'
    BY <1>p, <1>a, <1>c, PaymentApprovedBooks
  <2>2. Terms' /\ StatusTold' /\ \A x \in Companies : Honoured(x) => Honoured(x)'
    BY <1>p, <1>a, <1>c, PaymentApprovedTime
  <2> QED BY <1>a, <2>1, <2>2
<1>d. ASSUME DayPassed PROVE Kept'
  <2>1. Terms' /\ StatusTold' /\ \A x \in Companies : Honoured(x) => Honoured(x)'
    BY <1>d, <1>a, DayTime
  <2>2. db' = db
    BY <1>d DEF DayPassed
  <2>3. TrialWaits' /\ Booked'
    BY <1>a, <2>2 DEF TrialWaits, Booked
  <2> QED BY <1>a, <2>1, <2>3
<1> HIDE DEF Kept
<1>1. ASSUME NEW r \in Requests, Served(r) PROVE Kept'
  <2>1. RowsMove /\ TrialWaits'
    BY <1>1, <1>a, ServedRows
  <2>2. TermsKept /\ Booked'
    BY <1>1, <1>a, <1>c, ServedBooks
  <2> QED BY <1>1, <1>m, <2>1, <2>2 DEF Served
<1>2. ASSUME AtOnceDone PROVE Kept'
  <2>1. TimeKept
    BY <1>2 DEF AtOnceDone
  <2>2. CASE \E c \in Companies, s \in Subs : TrialApproved(c, s) \/ PaymentApproved(c, s)
    BY <2>1, <2>2, <1>t, <1>p
  <2>3. CASE ~ \E c \in Companies, s \in Subs : TrialApproved(c, s) \/ PaymentApproved(c, s)
    BY <1>2, <1>a, <1>c, <2>1, <2>3, <1>m, LockedRows
  <2> QED BY <2>2, <2>3
<1>3. ASSUME NEW r \in Requests, NEW call, Asked(r, call) PROVE Kept'
  BY <1>3, <1>u DEF Asked
<1>4. ASSUME NEW r \in Requests, Dropped(r) PROVE Kept'
  BY <1>4, <1>u DEF Dropped
<1>5. ASSUME UNCHANGED vars PROVE Kept'
  BY <1>5, <1>u DEF vars, TimeKept
<1>6. Kept'
  BY Steps, <1>1, <1>2, <1>3, <1>4, <1>5, <1>d
<1> QED BY <1>b, <1>6 DEF Kept, TimeInv

LEMMA TimeTold ==
  ASSUME TypeOK, TimeInv
  PROVE  PaidTimeHonoured
<1>1. ASSUME NEW c \in Companies, db.co[c].plan # "free", c \notin ordered
      PROVE  Admitted(c) <=> Running(db.co[c])
  <2>1. db.co[c] \in CoRow /\ day \in Nat
    BY Parts DEF TypeOK
  <2>2. db.co[c].status \notin {"none", "draft"} /\ db.co[c].expiry # 0
    BY <1>1 DEF TimeInv, Terms, TermsOf
  <2>3. CASE Running(db.co[c])
    <3>1. db.co[c].status = "active"
      BY <1>1, <2>3 DEF TimeInv, StatusTold
    <3>2. ~Lapsed(db.co[c], day)
      BY <2>1, <2>3 DEF Lapsed, Running, CoRow
    <3> QED BY <2>3, <3>1, <3>2 DEF Admitted, Effective
  <2>4. CASE ~Running(db.co[c])
    <3>1. Lapsed(db.co[c], day)
      BY <1>1, <2>1, <2>2, <2>4 DEF Lapsed, Running, CoRow
    <3> QED BY <2>2, <2>4, <3>1 DEF Admitted, Effective
  <2> QED BY <2>3, <2>4
<1> QED BY <1>1 DEF PaidTimeHonoured, TimeInv, Honoured

(* approveSubmission, requestTrial, the daily scan and sign-in: as long as  *)
(* no two requests that save whole rows overlap, a company is served the    *)
(* days its approved payments booked, no more and no fewer, and one on a    *)
(* plan is admitted just while its time runs, unless an administrator said  *)
(* otherwise.                                                               *)
THEOREM PaidTimeKept == SavesAlone /\ Spec => []PaidTimeHonoured
<1> SUFFICES ASSUME SavesAlone PROVE Spec => []PaidTimeHonoured
  OBVIOUS
<1>1. TypeOK /\ TimeInv /\ [Next]_vars => TypeOK' /\ TimeInv'
  BY TypeStep, TimeStep
<1>2. TypeOK /\ TimeInv => PaidTimeHonoured
  BY TimeTold
<1> QED BY TypesAtFirst, TimeAtFirst, <1>1, <1>2, PTL DEF Spec
-----------------------------------------------------------------------------
(* Seats *)

(* Who comes before whom is a strict order, total on a company's riders.    *)
LEMMA SeatOrder ==
  ASSUME NEW d \in Db, NEW c \in Companies, NEW m \in Candidates(d, c), NEW n \in Candidates(d, c)
  PROVE  /\ m # n => RankedBefore(d, c, m, n) \/ RankedBefore(d, c, n, m)
         /\ RankedBefore(d, c, m, n) =>
              Ahead(d, c, m) \subseteq Ahead(d, c, n) /\ m \in Ahead(d, c, n) \ Ahead(d, c, m)
<1> USE SubscriptionAssumption
<1>a. m \in Nat /\ n \in Nat /\ \A x \in Candidates(d, c) : x \in Nat
  BY DEF Candidates
<1>1. m # n => RankedBefore(d, c, m, n) \/ RankedBefore(d, c, n, m)
  BY <1>a DEF RankedBefore
<1>2. ~RankedBefore(d, c, m, m)
  BY <1>a DEF RankedBefore
<1>3. ASSUME RankedBefore(d, c, m, n), NEW x \in Candidates(d, c), RankedBefore(d, c, x, m)
      PROVE  RankedBefore(d, c, x, n)
  BY <1>a, <1>3 DEF RankedBefore
<1> QED BY <1>1, <1>2, <1>3 DEF Ahead

LEMMA AheadFinite ==
  ASSUME NEW d \in Db, NEW c \in Companies, NEW n
  PROVE  IsFiniteSet(Ahead(d, c, n)) /\ Cardinality(Ahead(d, c, n)) \in Nat
<1>1. Ahead(d, c, n) \in SUBSET Riders
  BY DEF Ahead, Candidates
<1> QED BY <1>1, SubscriptionAssumption, FS_Subset, FS_CardinalityType

LEMMA ActiveFinite ==
  ASSUME NEW d, NEW c
  PROVE  IsFiniteSet(Active(d, c)) /\ Cardinality(Active(d, c)) \in Nat
<1>1. Active(d, c) \in SUBSET Riders
  BY DEF Active
<1> QED BY <1>1, SubscriptionAssumption, FS_Subset, FS_CardinalityType

(* planRiderSeats: no more riders get a seat than there are seats.          *)
LEMMA SeatsGiven ==
  ASSUME NEW d \in Db, NEW c \in Companies, NEW limit \in Nat
  PROVE  Cardinality({n \in Candidates(d, c) : Cardinality(Ahead(d, c, n)) < limit}) <= limit
<1> DEFINE S == {n \in Candidates(d, c) : Cardinality(Ahead(d, c, n)) < limit}
           T == 0..(limit - 1)
           rank == [n \in S |-> Cardinality(Ahead(d, c, n))]
<1>1. IsFiniteSet(S) /\ Cardinality(S) \in Nat
  <2>1. S \in SUBSET Riders
    BY DEF Candidates
  <2> QED BY <2>1, SubscriptionAssumption, FS_Subset, FS_CardinalityType
<1>2. IsFiniteSet(T) /\ Cardinality(T) = limit
  BY FS_Interval
<1>3. rank \in [S -> T]
  BY AheadFinite
<1>4. ASSUME NEW m \in S, NEW n \in S, RankedBefore(d, c, m, n)
      PROVE  rank[m] # rank[n]
  <2>1. Ahead(d, c, m) \subseteq Ahead(d, c, n) /\ Ahead(d, c, m) # Ahead(d, c, n)
    BY <1>4, SeatOrder
  <2>2. Cardinality(Ahead(d, c, m)) # Cardinality(Ahead(d, c, n))
    BY <2>1, AheadFinite, FS_Subset
  <2> QED BY <2>2
<1>5. \A m, n \in S : m # n => rank[m] # rank[n]
  BY <1>4, SeatOrder
<1> HIDE DEF S, T, rank
<1>6. ~(Cardinality(T) < Cardinality(S))
  BY <1>1, <1>2, <1>3, <1>5, FS_PigeonHole
<1>7. Cardinality(S) <= limit
  BY <1>1, <1>2, <1>6
<1> QED BY <1>7 DEF S

(* And a rider on the road loses a seat only to others on the road.         *)
LEMMA SeatsOfRoad ==
  ASSUME NEW d \in Db, NEW c \in Companies, NEW limit \in Nat,
         NEW m \in Candidates(d, c), NEW n \in Candidates(d, c),
         n \in d.road[c], Cardinality(Ahead(d, c, m)) < limit, ~(Cardinality(Ahead(d, c, n)) < limit)
  PROVE  m \in d.road[c]
<1> SUFFICES ASSUME m \notin d.road[c] PROVE FALSE
  OBVIOUS
<1>1. RankedBefore(d, c, n, m)
  BY DEF RankedBefore
<1>2. Ahead(d, c, n) \subseteq Ahead(d, c, m)
  BY <1>1, SeatOrder
<1>3. Cardinality(Ahead(d, c, n)) <= Cardinality(Ahead(d, c, m))
  BY <1>2, AheadFinite, FS_Subset
<1> QED BY <1>3, AheadFinite

(* A rider of a company comes to a status: to a seat only if one is free.   *)
RiderMoved(c, n, status) ==
  /\ \A x \in Companies : db'.rider[x] = IF x = c THEN [db.rider[c] EXCEPT ![n] = status]
                                         ELSE db.rider[x]
  /\ \/ status # "active"
     \/ db.rider[c][n] = "active"
     \/ SeatAvailable(db, c)
  /\ status = "locked" => db.rider[c][n] = "locked"

(* The riders of a company change in one of three ways.                     *)
RidersMove ==
  \/ db'.rider = db.rider
  \/ \E c \in Companies, n \in Riders, status \in RiderStatuses : RiderMoved(c, n, status)
  \/ \E c \in Companies, limit \in Nat :
       \A x \in Companies : db'.rider[x] = IF x = c THEN Reseated(db, c, limit) ELSE db.rider[x]

LEMMA RidersStep ==
  ASSUME SavesAlone, TypeOK, TimeInv, [Next]_vars
  PROVE  RidersMove
<1> USE SubscriptionAssumption
<1>a. db \in Db
  BY DEF TypeOK
<1>1. ASSUME NEW r \in Requests, Served(r) PROVE RidersMove
  <2>1. CASE RiderSet(r)
    <3>1. req[r] \in RiderSave /\ RiderSaved(req[r].c, req[r].n, req[r].row)
          /\ (req[r].op = "activate" => SeatAvailable(db, req[r].c))
      BY <2>1 DEF RiderSet
    <3>2. PICK c \in Companies, n \in Riders, status \in RiderStatuses :
            c = req[r].c /\ n = req[r].n /\ status = req[r].row
      BY <3>1 DEF RiderSave
    <3>3. FreshFor(req[r])
      BY DEF TimeInv, Fresh
    <3>4. \/ status \in {db.rider[c][n], "inactive"}
          \/ (status = "active" /\ SeatAvailable(db, c))
      BY <3>1, <3>2, <3>3 DEF RiderSave, FreshFor
    <3>5. \A x \in Companies : db'.rider[x] = IF x = c THEN [db.rider[c] EXCEPT ![n] = status]
                                              ELSE db.rider[x]
      BY <3>1, <3>2 DEF RiderSaved
    <3>6. /\ status # "active" \/ db.rider[c][n] = "active" \/ SeatAvailable(db, c)
          /\ status = "locked" => db.rider[c][n] = "locked"
      BY <3>4
    <3>7. RiderMoved(c, n, status)
      BY <3>5, <3>6 DEF RiderMoved
    <3> QED BY <3>7 DEF RidersMove
  <2>2. CASE CompanyEdited(r) \/ CompanyMarked(r) \/ PaymentRefused(r)
    BY <2>2 DEF CompanyEdited, CompanyMarked, PaymentRefused, CompanySaved, SubSaved, SeatsKept, RidersMove
  <2>3. ASSUME NEW s \in Subs, PaymentMade(r, s) PROVE RidersMove
    BY <2>3 DEF PaymentMade, SubSaved, SeatsKept, RidersMove
  <2>4. ASSUME NEW c \in Companies, CompanyScanned(r, c) PROVE RidersMove
    BY <2>4 DEF CompanyScanned, CompanySaved, SeatsKept, RidersMove
  <2> QED BY <1>1, <2>1, <2>2, <2>3, <2>4 DEF Served
<1>2. ASSUME AtOnceDone PROVE RidersMove
  <2>k. ASSUME db'.rider = db.rider PROVE RidersMove
    BY <2>k DEF RidersMove
  <2>r. ASSUME NEW c \in Companies, NEW limit \in Nat, RidersSeated(c, limit) PROVE RidersMove
    BY <2>r DEF RidersSeated, RidersMove
  <2>1. ASSUME NEW c \in Companies, CompanyMade(c) PROVE RidersMove
    BY <2>1, <2>k DEF CompanyMade, CompanySaved, SeatsKept
  <2>2. ASSUME NEW c \in Companies, NEW s \in Subs, TrialRequested(c, s) PROVE RidersMove
    BY <2>2, <2>k DEF TrialRequested, SeatsKept
  <2>3. ASSUME NEW c \in Companies, NEW s \in Subs, TrialApproved(c, s) PROVE RidersMove
    BY <2>3, <2>r DEF TrialApproved
  <2>4. ASSUME NEW c \in Companies, NEW s \in Subs, NEW claim, TrialRejected(c, s, claim) PROVE RidersMove
    BY <2>4, <2>k DEF TrialRejected, SeatsKept
  <2>5. ASSUME NEW c \in Companies, NEW s \in Subs, PaymentApproved(c, s) PROVE RidersMove
    <3>1. db.sub[s].plan \in Plans
      BY <2>5 DEF PaymentApproved, PaymentRow
    <3>2. db.seats[db.sub[s].plan] \in Nat
      BY <1>a, <3>1, Parts
    <3> QED BY <2>5, <2>r, <3>2 DEF PaymentApproved
  <2>6. ASSUME NEW s \in Subs, RevenueMade(s) PROVE RidersMove
    BY <2>6, <2>k DEF RevenueMade, SeatsKept
  <2>7. ASSUME NEW c \in Companies, NEW n \in Riders, RiderAdded(c, n) PROVE RidersMove
    <3>1. PICK status \in RiderStatuses : status = "active"
      BY DEF RiderStatuses
    <3>2. SeatAvailable(db, c)
      BY <2>7 DEF RiderAdded
    <3>3. \A x \in Companies : db'.rider[x] = IF x = c THEN [db.rider[c] EXCEPT ![n] = status]
                                              ELSE db.rider[x]
      BY <2>7, <3>1 DEF RiderAdded, RiderSaved
    <3>4. status = "locked" => db.rider[c][n] = "locked"
      BY <3>1
    <3>5. RiderMoved(c, n, status)
      BY <3>2, <3>3, <3>4 DEF RiderMoved
    <3> QED BY <3>5 DEF RidersMove
  <2>8. ASSUME RoadChanged PROVE RidersMove
    BY <2>8, <2>k DEF RoadChanged, SeatsKept
  <2>9. ASSUME NEW p \in Plans, NEW n \in Nat, PlanEdited(p, n) PROVE RidersMove
    BY <2>9, <2>k DEF PlanEdited
  <2> HIDE DEF RidersMove
  <2> QED BY <1>2, <2>1, <2>2, <2>3, <2>4, <2>5, <2>6, <2>7, <2>8, <2>9 DEF AtOnceDone
<1>3. ASSUME db' = db PROVE RidersMove
  BY <1>3 DEF RidersMove
<1> HIDE DEF RidersMove
<1> QED BY Steps, <1>1, <1>2, <1>3 DEF Asked, Dropped, DayPassed, vars

(* The comment at the head of rider-seats.ts: a plan never pauses a rider   *)
(* on the road while one who is not keeps a seat.                           *)
THEOREM RoadRidersKeepSeats == SavesAlone /\ Spec => RoadKeepsSeats
<1> SUFFICES ASSUME SavesAlone PROVE Spec => RoadKeepsSeats
  OBVIOUS
<1> DEFINE Kept == \A c \in Companies : \A n \in db.road[c] :
                     (db.rider[c][n] = "active" /\ db'.rider[c][n] = "locked")
                       => Active(db', c) \subseteq db.road[c]
<1>1. ASSUME TypeOK, TimeInv, [Next]_vars PROVE Kept
  <2> SUFFICES ASSUME NEW c \in Companies, NEW n \in db.road[c],
                      db.rider[c][n] = "active", db'.rider[c][n] = "locked",
                      NEW m \in Active(db', c)
               PROVE  m \in db.road[c]
    OBVIOUS
  <2>1. db \in Db /\ n \in Riders /\ m \in Riders /\ db'.rider[c][m] = "active"
    BY <1>1, Parts DEF TypeOK, Active
  <2>2. PICK b \in Companies, limit \in Nat :
          \A x \in Companies : db'.rider[x] = IF x = b THEN Reseated(db, b, limit) ELSE db.rider[x]
    <3>1. db'.rider # db.rider
      OBVIOUS
    <3>2. ~ \E x \in Companies, k \in Riders, status \in RiderStatuses : RiderMoved(x, k, status)
      <4> SUFFICES ASSUME NEW x \in Companies, NEW k \in Riders, NEW status \in RiderStatuses,
                          RiderMoved(x, k, status)
                   PROVE  FALSE
        OBVIOUS
      <4>0. /\ \A y \in Companies :
                 db'.rider[y] = IF y = x THEN [db.rider[x] EXCEPT ![k] = status] ELSE db.rider[y]
            /\ status = "locked" => db.rider[x][k] = "locked"
        BY DEF RiderMoved
      <4>1. db.rider[x] \in [Riders -> RiderStatuses]
        BY <2>1, Parts
      <4>2. x = c
        BY <4>0
      <4> QED BY <2>1, <4>0, <4>1, <4>2
    <3> QED BY <1>1, <3>1, <3>2, RidersStep DEF RidersMove
  <2>3. b = c
    BY <2>2
  <2>4. /\ db'.rider[c][n] = Reseated(db, c, limit)[n]
        /\ db'.rider[c][m] = Reseated(db, c, limit)[m]
    BY <2>2, <2>3
  <2>5. n \in Candidates(db, c) /\ ~(Cardinality(Ahead(db, c, n)) < limit)
    BY <2>1, <2>4 DEF Reseated, Candidates
  <2>6. m \in Candidates(db, c) /\ Cardinality(Ahead(db, c, m)) < limit
    BY <2>1, <2>4 DEF Reseated, Candidates
  <2> QED BY <2>1, <2>5, <2>6, SeatsOfRoad
<1>2. TypeOK /\ TimeInv /\ [Next]_vars => TypeOK' /\ TimeInv'
  BY TypeStep, TimeStep
<1>3. TypeOK /\ TimeInv /\ [Next]_vars => [Kept]_vars
  BY <1>1
<1> QED BY TypesAtFirst, TimeAtFirst, <1>2, <1>3, PTL DEF Spec, RoadKeepsSeats

WithinPlan(c) == Cardinality(Active(db, c)) <= SeatLimit(db, db.co[c].plan)

LEMMA SeatNumbers ==
  ASSUME db \in Db, NEW c \in Companies
  PROVE  SeatLimit(db, db.co[c].plan) \in Nat
<1>1. db.co[c].plan \in Plans \cup {"free", "trial"}
  BY Parts DEF CoRow
<1>2. \A p \in Plans : db.seats[p] \in Nat
  BY Parts
<1>3. Cardinality(Riders) \in Nat /\ TrialLimit \in Nat
  BY SubscriptionAssumption, FS_CardinalityType
<1> QED BY <1>1, <1>2, <1>3 DEF SeatLimit

LEMMA SeatsStay ==
  ASSUME NEW x \in Companies, WithinPlan(x), db'.rider[x] = db.rider[x], db'.seats = db.seats,
         db'.co[x].plan = db.co[x].plan
  PROVE  WithinPlan(x)'
<1>1. Active(db', x) = Active(db, x)
  BY DEF Active
<1>2. SeatLimit(db', db'.co[x].plan) = SeatLimit(db, db.co[x].plan)
  BY DEF SeatLimit
<1> QED BY <1>1, <1>2 DEF WithinPlan

(* One rider's status changes: within the seats, or to one that needs none. *)
LEMMA SeatTaken ==
  ASSUME db \in Db, NEW c \in Companies, NEW n \in Riders, NEW status, WithinPlan(c),
         db'.rider[c] = [db.rider[c] EXCEPT ![n] = status],
         status # "active" \/ db.rider[c][n] = "active" \/ SeatAvailable(db, c),
         db'.seats = db.seats, db'.co[c].plan = db.co[c].plan
  PROVE  WithinPlan(c)'
<1>1. db.rider[c] \in [Riders -> RiderStatuses]
  BY Parts
<1>2. Active(db', c) \subseteq Active(db, c) \cup {n}
  BY <1>1 DEF Active
<1>3. /\ IsFiniteSet(Active(db, c)) /\ Cardinality(Active(db, c)) \in Nat
      /\ IsFiniteSet(Active(db', c)) /\ Cardinality(Active(db', c)) \in Nat
  BY ActiveFinite
<1>4. SeatLimit(db', db'.co[c].plan) = SeatLimit(db, db.co[c].plan)
  BY DEF SeatLimit
<1>5. CASE Active(db', c) \subseteq Active(db, c)
  <2>1. Cardinality(Active(db', c)) <= Cardinality(Active(db, c))
    BY <1>3, <1>5, FS_Subset
  <2>2. SeatLimit(db, db.co[c].plan) \in Nat
    BY SeatNumbers
  <2> QED BY <1>3, <1>4, <2>1, <2>2 DEF WithinPlan
<1>6. CASE ~(Active(db', c) \subseteq Active(db, c))
  <2>1. SeatAvailable(db, c)
    BY <1>1, <1>2, <1>6 DEF Active
  <2>2. /\ IsFiniteSet(Active(db, c) \cup {n})
        /\ Cardinality(Active(db, c) \cup {n}) <= Cardinality(Active(db, c)) + 1
    <3>1. /\ IsFiniteSet(Active(db, c) \cup {n})
          /\ Cardinality(Active(db, c) \cup {n})
               = IF n \in Active(db, c) THEN Cardinality(Active(db, c)) ELSE Cardinality(Active(db, c)) + 1
      BY <1>3, FS_AddElement
    <3> QED BY <1>3, <3>1
  <2>3. Cardinality(Active(db', c)) <= Cardinality(Active(db, c) \cup {n})
    BY <1>2, <2>2, FS_Subset
  <2>4. SeatLimit(db, db.co[c].plan) \in Nat /\ Cardinality(Active(db, c) \cup {n}) \in Nat
    BY <2>2, SeatNumbers, FS_CardinalityType
  <2> QED BY <1>3, <1>4, <2>1, <2>2, <2>3, <2>4 DEF WithinPlan, SeatAvailable
<1> QED BY <1>5, <1>6

(* The company is on the plan its riders were seated for.                   *)
LEMMA SeatsAnew ==
  ASSUME db \in Db, NEW c \in Companies, NEW limit \in Nat, RidersSeated(c, limit),
         SeatLimit(db', db'.co[c].plan) = limit
  PROVE  WithinPlan(c)'
<1>1. db'.rider[c] = Reseated(db, c, limit)
  BY DEF RidersSeated
<1>2. Active(db', c) = {n \in Candidates(db, c) : Cardinality(Ahead(db, c, n)) < limit}
  BY <1>1 DEF Active, Reseated, Candidates
<1> QED BY <1>2, SeatsGiven DEF WithinPlan

LEMMA SeatsStep ==
  ASSUME SavesAlone, TypeOK, TimeInv, RidersWithinPlan, [Next]_vars
  PROVE  RidersWithinPlan'
<1> USE SubscriptionAssumption
<1>a. /\ db \in Db /\ TypeOK' /\ db' \in Db
      /\ Fresh /\ TrialWaits /\ Terms /\ Booked
  BY TypeStep DEF TypeOK, TimeInv
<1>b. \A x \in Companies \ squeezed : WithinPlan(x)
  BY DEF RidersWithinPlan, WithinPlan
<1>w. ASSUME \A x \in Companies \ squeezed' : WithinPlan(x)' PROVE RidersWithinPlan'
  BY <1>w DEF RidersWithinPlan, WithinPlan
<1>k. ASSUME db'.rider = db.rider, db'.seats = db.seats, squeezed' = squeezed,
             \A x \in Companies : db'.co[x].plan = db.co[x].plan
      PROVE  RidersWithinPlan'
  BY <1>k, <1>b, <1>w, SeatsStay
<1>s. ASSUME NEW c \in Companies, NEW n \in Riders, NEW status, squeezed' = squeezed,
             RiderSaved(c, n, status),
             status # "active" \/ db.rider[c][n] = "active" \/ SeatAvailable(db, c)
      PROVE  RidersWithinPlan'
  <2>1. ASSUME NEW x \in Companies \ squeezed' PROVE WithinPlan(x)'
    <3>1. WithinPlan(x) /\ db'.seats = db.seats /\ db'.co[x].plan = db.co[x].plan
      BY <1>b, <1>s, <2>1 DEF RiderSaved
    <3>2. CASE x # c
      BY <1>s, <3>1, <3>2, SeatsStay DEF RiderSaved
    <3>3. CASE x = c
      BY <1>a, <1>s, <3>1, <3>3, SeatTaken DEF RiderSaved
    <3> QED BY <3>2, <3>3
  <2> QED BY <2>1, <1>w
<1>t. ASSUME NEW c \in Companies, NEW limit \in Nat, RidersSeated(c, limit),
             SeatLimit(db', db'.co[c].plan) = limit, squeezed' = squeezed \ {c},
             \A x \in Companies \ {c} : db'.co[x] = db.co[x]
      PROVE  RidersWithinPlan'
  <2>1. ASSUME NEW x \in Companies \ squeezed' PROVE WithinPlan(x)'
    <3>1. CASE x # c
      BY <1>b, <1>t, <3>1, SeatsStay DEF RidersSeated
    <3>2. CASE x = c
      BY <1>a, <1>t, <3>2, SeatsAnew
    <3> QED BY <3>1, <3>2
  <2> QED BY <2>1, <1>w
<1>1. ASSUME NEW r \in Requests, Served(r) PROVE RidersWithinPlan'
  <2>1. \A x \in Companies : db'.co[x].plan = db.co[x].plan
    BY <1>1, <1>a, ServedRows DEF RowsMove, SameTerms
  <2>2. CASE RiderSet(r)
    <3>1. req[r] \in RiderSave /\ RiderSaved(req[r].c, req[r].n, req[r].row) /\ squeezed' = squeezed
          /\ (req[r].op = "activate" => SeatAvailable(db, req[r].c))
      BY <2>2 DEF RiderSet
    <3>2. PICK c \in Companies, n \in Riders, status \in RiderStatuses :
            c = req[r].c /\ n = req[r].n /\ status = req[r].row
      BY <3>1 DEF RiderSave
    <3>3. status # "active" \/ db.rider[c][n] = "active" \/ SeatAvailable(db, c)
      BY <1>a, <3>1, <3>2 DEF Fresh, FreshFor, RiderSave
    <3> QED BY <3>1, <3>2, <3>3, <1>s
  <2>3. CASE CompanyEdited(r) \/ CompanyMarked(r) \/ PaymentRefused(r)
    BY <2>1, <2>3, <1>k DEF CompanyEdited, CompanyMarked, PaymentRefused, CompanySaved, SubSaved, SeatsKept
  <2>4. ASSUME NEW s \in Subs, PaymentMade(r, s) PROVE RidersWithinPlan'
    BY <2>1, <2>4, <1>k DEF PaymentMade, SubSaved, SeatsKept
  <2>5. ASSUME NEW c \in Companies, CompanyScanned(r, c) PROVE RidersWithinPlan'
    BY <2>1, <2>5, <1>k DEF CompanyScanned, CompanySaved, SeatsKept
  <2> QED BY <1>1, <2>2, <2>3, <2>4, <2>5 DEF Served
<1>2. ASSUME NEW c \in Companies, NEW s \in Subs, TrialApproved(c, s) PROVE RidersWithinPlan'
  <2>1. db.co[c] \in CoRow /\ day \in Nat
    BY Parts DEF TypeOK
  <2>2. db'.co[c].plan = "trial"
    <3>1. PICK row : row = OnTrial(db.co[c], day + TrialDays)
      OBVIOUS
    <3>2. row.plan = "trial"
      BY <2>1, <3>1 DEF OnTrial, CoRow
    <3> QED BY <1>2, <3>1, <3>2 DEF TrialApproved, CoIs
  <2>3. SeatLimit(db', db'.co[c].plan) = TrialLimit
    BY <2>2 DEF SeatLimit
  <2> QED BY <1>2, <1>t, <2>3 DEF TrialApproved, CoIs
<1>3. ASSUME NEW c \in Companies, NEW s \in Subs, PaymentApproved(c, s) PROVE RidersWithinPlan'
  <2>1. db.co[c] \in CoRow
    BY <1>a, Parts
  <2>2. PICK p \in Plans : p = db.sub[s].plan
    BY <1>3 DEF PaymentApproved, PaymentRow
  <2>3. db'.co[c].plan = p
    <3>1. PICK row : row = OnPlan(db.co[c], db.sub[s].plan, Base(db.co[c]) + Length[db.sub[s].plan],
                                  db.co[c].converted \/ Trialing(db.co[c]))
      OBVIOUS
    <3>2. row.plan = p
      BY <2>1, <2>2, <3>1 DEF OnPlan, CoRow
    <3> QED BY <1>3, <3>1, <3>2 DEF PaymentApproved, CoIs
  <2>4. db'.seats = db.seats /\ db.seats[p] \in Nat
    BY <1>3, <1>a, Parts DEF PaymentApproved, RidersSeated
  <2>5. SeatLimit(db', db'.co[c].plan) = db.seats[p]
    BY <2>2, <2>3, <2>4 DEF SeatLimit
  <2> QED BY <1>3, <1>t, <2>2, <2>4, <2>5 DEF PaymentApproved, CoIs
<1>4. ASSUME NEW p \in Plans, NEW n \in Nat, PlanEdited(p, n) PROVE RidersWithinPlan'
  <2>1. ASSUME NEW x \in Companies \ squeezed' PROVE WithinPlan(x)'
    <3>1. /\ x \notin squeezed /\ ~(db.co[x].plan = p /\ Cardinality(Active(db, x)) > n)
          /\ db'.rider = db.rider /\ db'.co = db.co
          /\ \A q \in Plans : db'.seats[q] = IF q = p THEN n ELSE db.seats[q]
      BY <1>4, <2>1 DEF PlanEdited
    <3>2. Active(db', x) = Active(db, x) /\ Cardinality(Active(db, x)) \in Nat
      <4>1. Active(db', x) = Active(db, x)
        BY <3>1 DEF Active
      <4> QED BY <4>1, ActiveFinite
    <3>3. WithinPlan(x)
      BY <1>b, <3>1
    <3>4. CASE db.co[x].plan = p
      <4>1. SeatLimit(db', db'.co[x].plan) = n
        BY <3>1, <3>4 DEF SeatLimit
      <4> QED BY <3>1, <3>2, <3>4, <4>1 DEF WithinPlan
    <3>5. CASE db.co[x].plan # p
      <4>1. db.co[x].plan \in Plans \cup {"free", "trial"}
        BY <1>a, Parts DEF CoRow
      <4>2. SeatLimit(db', db'.co[x].plan) = SeatLimit(db, db.co[x].plan)
        BY <3>1, <3>5, <4>1 DEF SeatLimit
      <4> QED BY <3>2, <3>3, <4>2 DEF WithinPlan
    <3> QED BY <3>4, <3>5
  <2> QED BY <2>1, <1>w
<1>5. ASSUME AtOnceDone PROVE RidersWithinPlan'
  <2>1. CASE \E c \in Companies, s \in Subs : TrialApproved(c, s) \/ PaymentApproved(c, s)
    BY <2>1, <1>2, <1>3
  <2>2. CASE ~ \E c \in Companies, s \in Subs : TrialApproved(c, s) \/ PaymentApproved(c, s)
    <3>1. \A x \in Companies : db'.co[x].plan = db.co[x].plan
      BY <1>5, <1>a, <2>2, LockedRows DEF RowsMove, SameTerms
    <3>2. ASSUME NEW c \in Companies, CompanyMade(c) PROVE RidersWithinPlan'
      BY <3>1, <3>2, <1>k DEF CompanyMade, CompanySaved, SeatsKept
    <3>3. ASSUME NEW c \in Companies, NEW s \in Subs, TrialRequested(c, s), squeezed' = squeezed
          PROVE  RidersWithinPlan'
      BY <3>1, <3>3, <1>k DEF TrialRequested, SeatsKept
    <3>4. ASSUME NEW c \in Companies, NEW s \in Subs, NEW claim, TrialRejected(c, s, claim),
                 squeezed' = squeezed
          PROVE  RidersWithinPlan'
      BY <3>1, <3>4, <1>k DEF TrialRejected, SeatsKept
    <3>5. ASSUME NEW s \in Subs, RevenueMade(s) PROVE RidersWithinPlan'
      BY <3>1, <3>5, <1>k DEF RevenueMade, SeatsKept
    <3>6. ASSUME NEW c \in Companies, NEW n \in Riders, RiderAdded(c, n) PROVE RidersWithinPlan'
      BY <3>6, <1>s DEF RiderAdded
    <3>7. ASSUME RoadChanged, squeezed' = squeezed PROVE RidersWithinPlan'
      BY <3>1, <3>7, <1>k DEF RoadChanged, SeatsKept
    <3> HIDE DEF RidersWithinPlan
    <3> QED BY <1>5, <2>2, <3>2, <3>3, <3>4, <3>5, <3>6, <3>7, <1>4 DEF AtOnceDone
  <2> QED BY <2>1, <2>2
<1>6. ASSUME db' = db, squeezed' = squeezed PROVE RidersWithinPlan'
  BY <1>6, <1>k
<1> QED BY Steps, <1>1, <1>5, <1>6 DEF Asked, Dropped, DayPassed, vars

LEMMA SeatsAtFirst == Init => RidersWithinPlan
<1> SUFFICES ASSUME Init, NEW c \in Companies
             PROVE  Cardinality(Active(db, c)) <= SeatLimit(db, db.co[c].plan)
  BY DEF RidersWithinPlan
<1>1. db.co[c].plan = "free"
  BY FreeAtFirst
<1>2. Active(db, c) \in SUBSET Riders
  BY DEF Active
<1>3. Cardinality(Active(db, c)) <= Cardinality(Riders)
  BY <1>2, SubscriptionAssumption, FS_Subset
<1> QED BY <1>1, <1>3 DEF SeatLimit

(* The comment at the head of rider-seats.ts: through upgrades, downgrades, *)
(* trials and concurrent activations, the active riders of a company stay   *)
(* within its plan, unless the plan itself has lost seats since.            *)
THEOREM RidersSeatedWithinPlan == SavesAlone /\ Spec => []RidersWithinPlan
<1> SUFFICES ASSUME SavesAlone PROVE Spec => []RidersWithinPlan
  OBVIOUS
<1>1. TypeOK /\ TimeInv /\ RidersWithinPlan /\ [Next]_vars => TypeOK' /\ TimeInv' /\ RidersWithinPlan'
  BY TypeStep, TimeStep, SeatsStep
<1> QED BY TypesAtFirst, TimeAtFirst, SeatsAtFirst, <1>1, PTL DEF Spec

=============================================================================
