----------------------------- MODULE BillingDesk -----------------------------
(***************************************************************************)
(* What Subscription's companies and the platform's administrators are     *)
(* shown: the plans on offer, as administrators edit them, a company's     *)
(* status page, what its next payment is called, the lists and counts of   *)
(* companies, and the mails that a trial is about to end.                  *)
(***************************************************************************)
EXTENDS Subscription, Sequences

CONSTANTS PlanEdits,     \* what an administrator may send: fields and values
          Milestones,    \* TRIAL_EMAIL_MILESTONES
          ReminderDays   \* bound: days before its end a trial is looked at

ASSUME BillingDeskAssumption == Milestones \subseteq Nat \ {0} /\ ReminderDays \in Nat

Null == -1

-----------------------------------------------------------------------------
(* The plans. *)

(* PLAN_CONFIG, in rupees; sold is for what a warehouse may buy.            *)
Plan(months, monthly, total, seats, sold) ==
  [months |-> months, monthly |-> monthly, total |-> total, seats |-> seats, sold |-> sold]
Catalogue ==
  [free |-> Plan(Null, 0, 0, 1, FALSE), trial |-> Plan(Null, 0, 0, 1, FALSE),
   standard |-> Plan(6, 1000, 6000, 3, FALSE), pro |-> Plan(2, 2000, 4000, 3, FALSE),
   small3 |-> Plan(3, 2500, 7500, 0, FALSE), small6 |-> Plan(6, 2000, 12000, 0, FALSE),
   large3 |-> Plan(3, 5000, 15000, 0, FALSE), large6 |-> Plan(6, 4000, 24000, 0, FALSE),
   warehouse3 |-> Plan(3, 4000, 12000, 3, FALSE), warehouse6 |-> Plan(6, 3000, 18000, 5, FALSE),
   starter6 |-> Plan(6, 3000, 18000, 3, TRUE), starter12 |-> Plan(12, 2250, 27000, 3, TRUE),
   growth6 |-> Plan(6, 4000, 24000, 5, TRUE), growth12 |-> Plan(12, 3000, 36000, 5, TRUE),
   scale6 |-> Plan(6, 6000, 36000, 10, TRUE), scale12 |-> Plan(12, 4500, 54000, 10, TRUE)]
TierKeys == <<"starter6", "starter12", "growth6", "growth12", "scale6", "scale12">>

(* An override is a function from the fields that were edited.              *)
NoOverride == [x \in {} |-> x]
MergedInto(old, new) ==
  [f \in DOMAIN old \cup DOMAIN new |-> IF f \in DOMAIN new THEN new[f] ELSE old[f]]
Priced(plan, override) ==
  [f \in DOMAIN plan |-> IF f \in DOMAIN override THEN override[f] ELSE plan[f]]
Offered(override) == "offered" \in DOMAIN override => override["offered"]

(* PlanOverrideService.apply: the edit and the earlier ones together.       *)
MayEdit(plan, edited) ==
  plan.months > 0 => Priced(plan, edited).total = Priced(plan, edited).monthly * plan.months
Edited(key, override, edit) ==
  LET edited == MergedInto(override, edit)
  IN IF MayEdit(Catalogue[key], edited) THEN edited ELSE override

(* getPlansForType: what a plan saves a month, against the shortest of its  *)
(* riders.  overrides: of the tiers; the first of equally short ones counts.*)
Shown(overrides, n) == Priced(Catalogue[TierKeys[n]], overrides[n])
ForSale(overrides) ==
  {n \in DOMAIN TierKeys : Catalogue[TierKeys[n]].sold /\ Offered(overrides[n])}
Rung(overrides, n) ==
  {k \in ForSale(overrides) : Shown(overrides, k).seats = Shown(overrides, n).seats}
Baseline(overrides, n) ==
  LET rung == Rung(overrides, n)
      months(k) == Shown(overrides, k).months
  IN CHOOSE k \in rung :
       \A j \in rung : months(k) < months(j) \/ (months(k) = months(j) /\ k <= j)
Savings(overrides, n) ==
  LET less == Shown(overrides, Baseline(overrides, n)).monthly - Shown(overrides, n).monthly
  IN IF less > 0 THEN less ELSE 0

-----------------------------------------------------------------------------
(* A company's pages. *)

(* getStatus *)
StatusPage(c) ==
  LET row == db.co[c]
      left == IF row.expiry = 0 THEN Null ELSE row.expiry - day
      last == IF row.last \in Subs THEN db.sub[row.last] ELSE NoSub
  IN [account |-> row.status, left |-> left, never |-> row.plan = "free",
      trialLeft |-> IF Trialing(row) THEN left ELSE Null,
      trialPending |-> last.kind = "TRIAL" /\ last.status = "submitted"]

(* determineKind: what the next payment of the company is called.           *)
Kind(row, plan) ==
  IF Trialing(row) THEN "NEW"
  ELSE IF row.status = "inactive" \/ row.standing = "expired" THEN "RENEWAL"
  ELSE IF row.plan # "free" THEN IF plan = row.plan THEN "RENEWAL" ELSE "UPGRADE"
  ELSE IF row.status = "active" THEN "UPGRADE" ELSE "NEW"

(* What can be submitted, and listed: by the company, or by an admin.       *)
SubmissionsOf(c) == {s \in Subs : db.sub[s].co = c}
ListedAs(kind) ==
  {s \in Subs : db.sub[s] # NoSub /\ (IF kind = "PAYMENT" THEN db.sub[s].kind # "TRIAL"
                                      ELSE db.sub[s].kind = kind)}

(* getAllCompanies and getPlatformStats: a draft counts as pending.         *)
InStatus(filter) ==
  {c \in Companies : db.co[c].status \in
     IF filter = "pending" THEN {"draft", "pending"} ELSE {filter}}
Stats == [filter \in {"pending", "active", "inactive", "rejected"} |-> Cardinality(InStatus(filter))]

-----------------------------------------------------------------------------
(* The mails of a trial: at which days left one goes out, if the scan runs  *)
(* at those in days.                                                        *)

MilestoneOnTheDay(left) == IF left \in Milestones THEN left ELSE Null
Milestone(left) == LET reached == {m \in Milestones : left <= m}
                   IN IF reached = {} THEN Null ELSE Min(reached)
Mails(days) ==
  LET after[left \in 0 .. ReminderDays] ==
        LET before == IF left = ReminderDays THEN [last |-> Null, sent |-> {}] ELSE after[left + 1]
            m == Milestone(left)
        IN IF left \in days /\ m # Null /\ (before.last = Null \/ m < before.last)
             THEN [last |-> m, sent |-> before.sent \cup {left}] ELSE before
  IN after[1].sent

-----------------------------------------------------------------------------
(* The comment on apply: whatever is edited, and edited again, the price a  *)
(* customer is charged is the monthly one it is quoted, times the months;   *)
(* and what a plan saves is saved against one on offer for as many riders.  *)
PlansAddUp ==
  /\ \A key \in DOMAIN Catalogue, first, second \in PlanEdits :
       LET plan == Priced(Catalogue[key], Edited(key, Edited(key, NoOverride, first), second))
       IN plan.months > 0 => plan.total = plan.monthly * plan.months
  /\ \A n, k \in DOMAIN TierKeys, a, b \in PlanEdits :
       LET overrides == [j \in DOMAIN TierKeys |->
                           IF j = n THEN Edited(TierKeys[j], NoOverride, a)
                           ELSE IF j = k THEN Edited(TierKeys[j], NoOverride, b) ELSE NoOverride]
       IN \A j \in ForSale(overrides) :
            LET p == Shown(overrides, j)
            IN Savings(overrides, j) > 0 =>
                 \E i \in ForSale(overrides) \ {j} :
                   LET q == Shown(overrides, i)
                   IN /\ q.seats = p.seats /\ q.months <= p.months
                      /\ p.total + Savings(overrides, j) * p.months = q.monthly * p.months

(* TRIAL_EMAIL_MILESTONES: whatever scans are missed or late, each stretch  *)
(* of days between two milestones has its mail, at the first scan in it.    *)
Stretch(m) == {left \in 1 .. m : \A n \in Milestones : n < m => left > n}
MilestonesMailed ==
  \A days \in SUBSET (1 .. ReminderDays) :
    Mails(days) = {Max(days \cap Stretch(m)) : m \in {m \in Milestones : days \cap Stretch(m) # {}}}

(* What a company and an administrator are told agrees with what the        *)
(* company gets, in any history of payments, trials, scans and decisions:   *)
(* an account shown active with time left is admitted, a trial is pending   *)
(* exactly while one waits, a first purchase is called new and a renewal is *)
(* one, every company is in one list, and every plan is sold as quoted, and *)
(* every trial owner warned in time.                                        *)
BillingTold ==
  /\ writes = 0 /\ day = 1 => PlansAddUp /\ MilestonesMailed
  /\ (\A r \in Requests : Idle(r)) =>
       /\ \A c \in Companies :
            LET page == StatusPage(c)
                paid == PaidFor(c) > 0
            IN /\ page.account = "active" /\ (page.never \/ page.left > 0) => Admitted(c)
               /\ page.trialPending = (\E s \in SubmissionsOf(c) \cap ListedAs("TRIAL") : Open(db, s))
               /\ page.trialLeft # Null => ~paid
               /\ \A plan \in Plans :
                    /\ Kind(db.co[c], plan) = "NEW" => ~paid
                    /\ (Kind(db.co[c], plan) = "RENEWAL" /\ c \notin ordered) => paid
       /\ Stats["pending"] + Stats["active"] + Stats["inactive"] + Stats["rejected"]
            = Cardinality({c \in Companies : db.co[c].status # "none"})
       /\ ListedAs("TRIAL") \cap ListedAs("PAYMENT") = {}
=============================================================================
