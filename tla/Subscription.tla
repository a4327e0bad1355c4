---------------------------- MODULE Subscription ----------------------------
(***************************************************************************)
(* What a company has paid the platform for and what it gets: its row      *)
(* (account status, plan, expiry), payment and trial submissions, trial    *)
(* claims, the platform's revenue, and the seats of its delivery riders.   *)
(*                                                                         *)
(* Approvals, trial requests and decisions, and new riders lock the rows   *)
(* they depend on: one step each.  Every other operation reads without a   *)
(* lock (Ask...) and later saves the whole row it read.  Days stand for    *)
(* the months of a plan and the thirty days of a trial.  A plan the        *)
(* company may not buy, its price and wording, and the older               *)
(* company_subscriptions table, which decides nothing here, are left out.  *)
(***************************************************************************)
EXTENDS FiniteSets, FiniteSums

CONSTANTS Companies, Subs,        \* submissions
          Email, Phone,           \* of a company's owner: functions
          Riders,                 \* 1..n, in order of seniority
          Followed,               \* bound: companies that do more than try
          Plans, Length, Limit,   \* of a plan: days, riders it seats
          TrialDays, TrialLimit, Soon,
          Decisions,              \* statuses an administrator gives a company
          Requests, Overlapping,
          MaxWrites, MaxDay       \* bounds

ASSUME SubscriptionAssumption ==
  /\ Followed \subseteq Companies
  /\ Riders \subseteq Nat /\ IsFiniteSet(Riders) /\ IsFiniteSet(Subs)
  /\ Length \in [Plans -> Nat \ {0}] /\ Limit \in [Plans -> Nat]
  /\ TrialDays \in Nat \ {0} /\ TrialLimit \in Nat /\ Soon \in Nat
  /\ {"free", "trial"} \cap Plans = {} /\ {"none", "draft"} \cap Decisions = {}

VARIABLES db, day, req,
          ran,       \* history: company -> days a paid plan has run
          ordered,   \* history: companies whose status an administrator has set
          squeezed,  \* history: companies whose plan lost seats they use
          writes

vars == <<db, day, req, ran, ordered, squeezed, writes>>

NewCompany == [status |-> "none", plan |-> "free", expiry |-> 0, standing |-> "active",
               pay |-> "none", last |-> "none", trial |-> FALSE, converted |-> FALSE]
NoSub == [co |-> "none", kind |-> "none", plan |-> "free", status |-> "none"]

(* claim: of the trial a submission asks for.  road: riders with a delivery *)
(* in progress.  seats: the limits in force, as administrators edit them.   *)
(* A company may have been set up, and approved without a plan, before.     *)
Init ==
  /\ \E status \in [Companies -> {"none", "draft", "active"}], n \in 0..Cardinality(Riders) :
      /\ \A c \in Companies \ Followed : status[c] # "active"
      /\ db = [co |-> [c \in Companies |-> [NewCompany EXCEPT !.status = status[c]]],
               sub |-> [s \in Subs |-> NoSub],
               claim |-> [s \in Subs |-> "none"],
               revenue |-> [s \in Subs |-> 0],
               rider |-> [c \in Companies |-> [m \in Riders |->
                            IF status[c] = "active" /\ m <= n THEN "active" ELSE "none"]],
               road |-> [c \in Companies |-> {}],
               seats |-> Limit]
  /\ day = 1
  /\ req = [r \in Requests |-> [op |-> "idle"]]
  /\ ran = [c \in Companies |-> 0]
  /\ ordered = {} /\ squeezed = {}
  /\ writes = 0

-----------------------------------------------------------------------------
Trialing(row) == row.trial /\ ~row.converted
Running(row) == row.expiry > day

(* effectiveCompanyStatus: what sign-in and every request are judged by.    *)
Lapsed(row, today) == row.plan # "free" /\ row.expiry # 0 /\ row.expiry <= today
Effective(row) ==
  CASE row.status = "active" /\ Lapsed(row, day) -> "inactive"
    [] row.status = "draft" /\ row.pay = "submitted" -> "pending"
    [] OTHER -> row.status
Admitted(c) == Effective(db.co[c]) = "active"

SeatLimit(d, plan) ==
  CASE plan = "free" -> Cardinality(Riders)
    [] plan = "trial" -> TrialLimit
    [] OTHER -> d.seats[plan]
Active(d, c) == {n \in Riders : d.rider[c][n] = "active"}
Candidates(d, c) == {n \in Riders : d.rider[c][n] \in {"active", "locked"}}

(* planRiderSeats: riders on the road come first, then the longest serving. *)
RankedBySeniority(d, c, m, n) == m < n
RankedBefore(d, c, m, n) ==
  IF (m \in d.road[c]) # (n \in d.road[c]) THEN m \in d.road[c] ELSE m < n
Ahead(d, c, n) == {m \in Candidates(d, c) : RankedBefore(d, c, m, n)}
Reconciled(d, c, limit) ==
  [d EXCEPT !.rider[c] = [n \in Riders |->
      IF n \notin Candidates(d, c) THEN @[n]
      ELSE IF Cardinality(Ahead(d, c, n)) < limit THEN "active" ELSE "locked"]]

(* An early renewal adds to what is left; a trial ends when it is paid for. *)
BaseToday(row) == day
Base(row) == IF ~Trialing(row) /\ Running(row) THEN row.expiry ELSE day

Open(d, s) == d.sub[s].status = "submitted"
OpenOf(d, c) == {s \in Subs : d.sub[s].co = c /\ Open(d, s)}
TrialOpen(d, c) ==
  LET row == d.co[c] IN row.pay = "submitted" /\ row.last \in Subs
                          /\ d.sub[row.last].kind = "TRIAL" /\ Open(d, row.last)
Unused(d) == {s \in Subs : d.sub[s] = NoSub}

(* A claim bars another trial of its e-mail or phone until it is released.  *)
BarsPending(status) == status = "pending"
Bars(status) == status \in {"pending", "approved", "blocked"}
Barred(d, c) ==
  \E s \in Subs : /\ Bars(d.claim[s])
                  /\ \/ Email[d.sub[s].co] = Email[c]
                     \/ Phone[d.sub[s].co] = Phone[c]

-----------------------------------------------------------------------------
(* Requests. *)

Idle(r) == req[r].op = "idle"
Serving(r, op) == req[r].op = op
Room == writes < MaxWrites
Done == [op |-> "idle"]
Ask(r, call) ==
  /\ Idle(r) /\ Room
  /\ \A q \in Requests : Idle(q) \/ {call.op, req[q].op} \subseteq Overlapping
  /\ req' = [req EXCEPT ![r] = call]
  /\ UNCHANGED <<db, day, ran, ordered, squeezed, writes>>
Then(r, d, call) ==
  /\ db' = d
  /\ req' = [req EXCEPT ![r] = call]
  /\ writes' = writes + 1
  /\ UNCHANGED <<day, ran>>
Commit(r, d) == Then(r, d, Done) /\ UNCHANGED <<ordered, squeezed>>
Drop(r) ==
  /\ ~Idle(r)
  /\ req' = [req EXCEPT ![r] = Done]
  /\ UNCHANGED <<db, day, ran, ordered, squeezed, writes>>
AtOnce(d) ==
  /\ Room
  /\ \A q \in Requests : Idle(q) \/ req[q].op \in Overlapping
  /\ db' = d
  /\ writes' = writes + 1
  /\ UNCHANGED <<day, req, ran>>

(* --- The company --- *)

CreateCompany ==
  \E c \in Companies :
    /\ db.co[c].status = "none"
    /\ AtOnce([db EXCEPT !.co[c].status = "draft"])
    /\ UNCHANGED <<ordered, squeezed>>

(* The operations that save the company's row as they read it: its profile, *)
(* invite code, features, closed period (status is kept), the owner's       *)
(* submission for approval, and an administrator's decision.                *)
Submittable(row) == row.status \notin {"none", "pending", "active"}
AskSaveCompany(r) ==
  \E c \in Followed, status \in {"kept", "pending"} \cup Decisions :
    /\ db.co[c].status # "none"
    /\ status = "pending" => Submittable(db.co[c])
    /\ Ask(r, [op |-> IF status = "kept" THEN "edit" ELSE "setStatus", c |-> c,
               status |-> status, row |-> db.co[c]])
SaveCompany(r) ==
  LET q == req[r]
  IN /\ Serving(r, "edit") \/ Serving(r, "setStatus")
     /\ Then(r, [db EXCEPT !.co[q.c] = IF q.status = "kept" THEN q.row
                                       ELSE [q.row EXCEPT !.status = q.status]], Done)
     /\ ordered' = IF q.op = "setStatus" THEN ordered \cup {q.c} ELSE ordered
     /\ UNCHANGED squeezed

(* --- Trials --- *)

RequestTrial ==
  \E c \in Companies, s \in Unused(db) :
    /\ db.co[c].status = "draft" /\ ~db.co[c].trial
    /\ OpenOf(db, c) = {}
    /\ ~Barred(db, c)
    /\ AtOnce([db EXCEPT !.sub[s] = [co |-> c, kind |-> "TRIAL", plan |-> "trial",
                                     status |-> "submitted"],
                         !.claim[s] = "pending",
                         !.co[c] = [@ EXCEPT !.pay = "submitted", !.last = s]])
    /\ UNCHANGED <<ordered, squeezed>>

ApproveTrial ==
  \E s \in Subs :
    LET c == db.sub[s].co
        row == db.co[c]
    IN /\ Open(db, s) /\ db.sub[s].kind = "TRIAL"
       /\ ~row.trial /\ row.pay # "paid" /\ row.status \in {"draft", "pending"}
       /\ AtOnce(Reconciled(
            [db EXCEPT !.co[c] = [@ EXCEPT !.trial = TRUE, !.plan = "trial",
                                           !.expiry = day + TrialDays, !.standing = "active",
                                           !.pay = "none", !.status = "active"],
                       !.sub[s].status = "approved", !.claim[s] = "approved"],
            c, TrialLimit))
       /\ ordered' = ordered \ {c} /\ squeezed' = squeezed \ {c}

RejectTrial ==
  \E s \in Subs, claim \in {"blocked", "released"} :
    LET c == db.sub[s].co
    IN /\ Open(db, s) /\ db.sub[s].kind = "TRIAL"
       /\ AtOnce([db EXCEPT !.sub[s].status = "rejected", !.claim[s] = claim,
                            !.co[c].pay = IF db.co[c].last = s /\ @ = "submitted"
                                          THEN "none" ELSE @])
       /\ UNCHANGED <<ordered, squeezed>>

(* --- Payments --- *)

(* createSubmission: reads the company, uploads the screenshot, saves the   *)
(* submission, then the company as it was read.                             *)
AskPay(r) ==
  \E c \in Followed, p \in Plans :
    /\ db.co[c].status # "none" /\ ~TrialOpen(db, c)
    /\ Ask(r, [op |-> "pay", c |-> c, plan |-> p, row |-> db.co[c]])
SavePayment(r) ==
  LET q == req[r]
  IN \E s \in Unused(db) :
       /\ Serving(r, "pay")
       /\ Then(r, [db EXCEPT !.sub[s] = [co |-> q.c, kind |-> "PAYMENT", plan |-> q.plan,
                                         status |-> "submitted"]],
               [op |-> "markPay", c |-> q.c,
                row |-> [q.row EXCEPT !.pay = "submitted", !.last = s]])
       /\ UNCHANGED <<ordered, squeezed>>
MarkPayment(r) ==
  /\ Serving(r, "markPay")
  /\ Commit(r, [db EXCEPT !.co[req[r].c] = req[r].row])

(* Approving an approved submission only makes sure of its revenue.         *)
Approve ==
  \E s \in Subs :
    LET c == db.sub[s].co
        row == db.co[c]
        plan == db.sub[s].plan
    IN /\ Open(db, s) /\ db.sub[s].kind = "PAYMENT"
       /\ AtOnce(Reconciled(
            [db EXCEPT !.co[c] = [@ EXCEPT !.plan = plan, !.expiry = Base(row) + Length[plan],
                                           !.standing = "active", !.pay = "paid",
                                           !.status = "active",
                                           !.converted = row.converted \/ Trialing(row)],
                       !.sub[s].status = "approved", !.revenue[s] = 1],
            c, db.seats[plan]))
       /\ ordered' = ordered \ {c} /\ squeezed' = squeezed \ {c}
ApproveAgain ==
  \E s \in Subs :
    /\ db.sub[s].kind = "PAYMENT" /\ db.sub[s].status = "approved"
    /\ AtOnce([db EXCEPT !.revenue[s] = 1])
    /\ UNCHANGED <<ordered, squeezed>>

(* rejectSubmission: reads and saves the submission, then the company.      *)
AskReject(r) ==
  \E s \in Subs :
    /\ db.sub[s].kind = "PAYMENT" /\ db.sub[s].status \in {"submitted", "rejected"}
    /\ Ask(r, [op |-> "reject", s |-> s, row |-> db.sub[s]])
Reject(r) ==
  LET s == req[r].s
      c == req[r].row.co
  IN /\ Serving(r, "reject")
     /\ Then(r, [db EXCEPT !.sub[s] = [req[r].row EXCEPT !.status = "rejected"]],
             IF db.co[c].last = s
             THEN [op |-> "markReject", c |-> c, row |-> [db.co[c] EXCEPT !.pay = "rejected"]]
             ELSE Done)
     /\ UNCHANGED <<ordered, squeezed>>
MarkRejected(r) ==
  /\ Serving(r, "markReject")
  /\ Commit(r, [db EXCEPT !.co[req[r].c] = req[r].row])

(* --- The daily scan --- *)

(* It reads every company that can expire, then, one company after another, *)
(* notifies its administrators and saves the row as it was read.            *)
Scanned(row, today) ==
  IF Lapsed(row, today) THEN [row EXCEPT !.standing = "expired", !.status = "inactive"]
  ELSE [row EXCEPT !.standing = IF row.expiry - today <= Soon THEN "expiring" ELSE "active"]
AskScan(r) ==
  LET due == {c \in Companies : db.co[c].plan # "free" /\ db.co[c].expiry > 0}
  IN /\ due # {}
     /\ \A q \in Requests : ~Serving(q, "scan")
     /\ Ask(r, [op |-> "scan", today |-> day, rows |-> [c \in due |-> db.co[c]]])
Scan(r) ==
  /\ Serving(r, "scan")
  /\ \E c \in DOMAIN req[r].rows :
       LET rest == DOMAIN req[r].rows \ {c}
       IN Then(r, [db EXCEPT !.co[c] = Scanned(req[r].rows[c], req[r].today)],
               IF rest = {} THEN Done
               ELSE [req[r] EXCEPT !.rows = [x \in rest |-> req[r].rows[x]]])
  /\ UNCHANGED <<ordered, squeezed>>

(* --- Riders and seats --- *)

(* assertSeatAvailable: locks the company, then counts.                     *)
SeatLeftOver(d, c) == Cardinality(Active(d, c)) <= SeatLimit(d, d.co[c].plan)
SeatAvailable(d, c) == Cardinality(Active(d, c)) < SeatLimit(d, d.co[c].plan)

CreateRider ==
  \E c \in Followed, n \in Riders :
    /\ Admitted(c)
    /\ db.rider[c][n] = "none" /\ \A m \in Riders : m < n => db.rider[c][m] # "none"
    /\ SeatAvailable(db, c)
    /\ AtOnce([db EXCEPT !.rider[c][n] = "active"])
    /\ UNCHANGED <<ordered, squeezed>>

(* update, setAvailability and updateLocation save the profile as read,     *)
(* with the status asked for, if any.  Only one that was read as not active *)
(* must find a seat to be active.                                           *)
AskRider(r) ==
  \E c \in Companies, n \in Riders : \E status \in {db.rider[c][n], "active", "inactive"} :
    /\ db.rider[c][n] # "none"
    /\ Ask(r, [op |-> IF status = "active" /\ db.rider[c][n] # "active"
                      THEN "activate" ELSE "saveRider",
               c |-> c, n |-> n, row |-> status])
SaveRider(r) ==
  LET q == req[r]
  IN /\ Serving(r, "activate") \/ Serving(r, "saveRider")
     /\ Serving(r, "activate") => SeatAvailable(db, q.c)
     /\ Commit(r, [db EXCEPT !.rider[q.c][q.n] = q.row])

Assign ==
  \E c \in Companies, n \in Riders :
    /\ db.rider[c][n] = "active" /\ n \notin db.road[c]
    /\ AtOnce([db EXCEPT !.road[c] = @ \cup {n}])
    /\ UNCHANGED <<ordered, squeezed>>
Finish ==
  \E c \in Companies : \E n \in db.road[c] :
    /\ AtOnce([db EXCEPT !.road[c] = @ \ {n}])
    /\ UNCHANGED <<ordered, squeezed>>

(* Editing a plan changes the limits of the companies on it at once; their  *)
(* riders are not looked at.                                                *)
EditPlan ==
  \E p \in Plans, n \in 0..Cardinality(Riders) :
    /\ n # db.seats[p]
    /\ AtOnce([db EXCEPT !.seats[p] = n])
    /\ squeezed' = squeezed \cup {c \in Companies : db.co[c].plan = p
                                                    /\ Cardinality(Active(db, c)) > n}
    /\ UNCHANGED ordered

(* Bound: a request ends on the day it came.                                *)
NextDay ==
  /\ day < MaxDay
  /\ \A r \in Requests : Idle(r)
  /\ day' = day + 1
  /\ ran' = [c \in Companies |->
               ran[c] + IF db.co[c].plan \in Plans /\ Running(db.co[c]) THEN 1 ELSE 0]
  /\ UNCHANGED <<db, req, ordered, squeezed, writes>>

-----------------------------------------------------------------------------
AskStep(r) ==
  AskSaveCompany(r) \/ AskPay(r) \/ AskReject(r) \/ AskScan(r) \/ AskRider(r)
ServeStep(r) ==
  \/ SaveCompany(r) \/ SavePayment(r) \/ MarkPayment(r)
  \/ Reject(r) \/ MarkRejected(r) \/ Scan(r) \/ SaveRider(r)
LockedStep ==
  \/ CreateCompany \/ RequestTrial \/ ApproveTrial \/ RejectTrial
  \/ Approve \/ ApproveAgain \/ CreateRider \/ Assign \/ Finish \/ EditPlan
Next ==
  \/ \E r \in Requests : AskStep(r) \/ ServeStep(r) \/ Drop(r)
  \/ LockedStep \/ NextDay

Spec == Init /\ [][Next]_vars

-----------------------------------------------------------------------------
(* approveSubmission: a company is served exactly the time the platform has *)
(* booked as revenue, whatever the order of payments, renewals before and   *)
(* after the expiry, trials, scans and plan changes; and a company on a     *)
(* plan is admitted just while its time runs, unless an administrator said  *)
(* otherwise.                                                               *)
PaidFor(c) ==
  Sum([s \in Subs |-> IF db.sub[s].co = c /\ db.sub[s].kind = "PAYMENT"
                      THEN db.revenue[s] * Length[db.sub[s].plan] ELSE 0], Subs)
Left(row) == IF row.plan \in Plans /\ Running(row) THEN row.expiry - day ELSE 0
PaidTimeHonoured ==
  \A c \in Companies :
    /\ ran[c] + Left(db.co[c]) = PaidFor(c)
    /\ (db.co[c].plan # "free" /\ c \notin ordered) => (Admitted(c) <=> Running(db.co[c]))

(* The comment on requestTrial and the unique indexes on trial_claims: one  *)
(* trial for one e-mail address and one phone, whatever companies ask and   *)
(* whatever is rejected and released in between.                            *)
OneTrialEach ==
  \A s, t \in Subs :
    (s # t /\ db.sub[s].kind = "TRIAL" /\ db.sub[t].kind = "TRIAL"
       /\ db.sub[s].status = "approved" /\ db.sub[t].status = "approved")
      => /\ Email[db.sub[s].co] # Email[db.sub[t].co]
         /\ Phone[db.sub[s].co] # Phone[db.sub[t].co]

(* The comment at the head of rider-seats.ts: active riders stay within the *)
(* plan through upgrades, downgrades, trials and concurrent activations,    *)
(* unless the plan itself lost seats since the company's last approval.     *)
RidersWithinPlan ==
  \A c \in Companies \ squeezed :
    Cardinality(Active(db, c)) <= SeatLimit(db, db.co[c].plan)

(* Same comment: a plan never pauses a rider on the road while one who is   *)
(* not keeps a seat.                                                        *)
RoadKeepsSeats ==
  [][\A c \in Companies : \A n \in db.road[c] :
       (db.rider[c][n] = "active" /\ db'.rider[c][n] = "locked")
         => Active(db', c) \subseteq db.road[c]]_vars

=============================================================================
