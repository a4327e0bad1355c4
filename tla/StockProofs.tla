---------------------------- MODULE StockProofs ----------------------------
(***************************************************************************)
(* Theorems about stock on the road, DeliveryLedger, for every number of   *)
(* deliveries, items, requests and concurrent HTTP requests: the books     *)
(* first, then the life of each delivery when no unlocked save can be      *)
(* stale.  And about stock on the shelf, Inventory, for any items,         *)
(* documents, costs, quantities and clients, with its reports; and about   *)
(* the files that open stock, ItemImport, for any file and any shelf.      *)
(***************************************************************************)
EXTENDS DeliveryLedger, ItemImport, FiniteSumTheorems

-----------------------------------------------------------------------------
(* Types *)

(* The books alone keep their types. *)
BooksOK ==
  /\ onHand \in [Items -> Int]
  /\ gl1200 \in [Items -> Int]
  /\ gl1250 \in [Deliveries -> [Items -> Int]]
  /\ cogs \in [Items -> Int]
  /\ invoices \in [Deliveries -> Nat]

(* A row written back by save() is a row. *)
LEMMA SavedIsRow ==
  ASSUME NEW mem \in Row, NEW base \in Row, NEW cur \in Row, NEW w \in BOOLEAN
  PROVE  Saved(mem, base, cur, w) \in Row
  BY DEF Saved, Row

LEMMA AssignedIsRow ==
  ASSUME NEW row \in Row
  PROVE  Assigned(row) \in Row
  BY DEF Assigned, Row, Live, Moving

(* The units on a delivery's lines are naturals, and so is what was kept.  *)
LEMMA LoadIsNat ==
  ASSUME NEW d \in Deliveries, NEW row \in Row
  PROVE  Load(d, row) \in [Items -> Nat]
  BY LinesAssumption DEF Load, Zero

LEMMA KeptBounds ==
  ASSUME NEW q \in Nat, NEW n \in Int
  PROVE  Kept(q, n) \in 0..q
  BY DEF Kept

LEMMA ConstantRows ==
  /\ NoRow \in Row
  /\ \A withRider \in BOOLEAN : NewRow(withRider) \in Row
  /\ [NoRow EXCEPT !.status = "removed"] \in Row
  BY DEF NoRow, NewRow, Row, LedgerStatuses, Live, Moving

LEMMA ConstantSessions ==
  /\ Zero \in [Items -> Int]
  /\ NoEntry \in Entry
  /\ Idle \in Session
<1>1. Zero \in [Items -> Int]
  BY DEF Zero
<1>2. NoEntry \in Entry
  BY <1>1 DEF NoEntry, Entry
<1>3. Idle \in Session
  BY <1>2, ConstantRows DEF Idle, Session
<1> QED BY <1>1, <1>2, <1>3

(* Dispatch, sale and return keep the types, whatever row they start from. *)
LEMMA CommitStockType ==
  ASSUME TypeOK, NEW d \in Deliveries, NEW row \in Row, CommitStockOnAssign(d, row)
  PROVE  delivery' \in [Deliveries -> Row] /\ BooksOK'
<1>1. CASE row.committed \/ ~row.lines
  BY <1>1 DEF CommitStockOnAssign, ToDispatch, InStock, TypeOK, BooksOK, books
<1>2. CASE ~(row.committed \/ ~row.lines)
  <2>1. [row EXCEPT !.committed = TRUE, !.ledger = "in_transit",
                    !.invoiced = FALSE] \in Row
    BY DEF Row, LedgerStatuses
  <2>2. delivery' \in [Deliveries -> Row]
    BY <1>2, <2>1 DEF CommitStockOnAssign, ToDispatch, InStock, TypeOK
  <2>3. BooksOK'
    <3>1. Lines[d] \in [Items -> Nat]
      BY LinesAssumption
    <3>2. onHand' \in [Items -> Int] /\ gl1200' \in [Items -> Int]
      BY <1>2, <3>1 DEF CommitStockOnAssign, ToDispatch, InStock, TypeOK
    <3>3. gl1250' \in [Deliveries -> [Items -> Int]]
      <4>1. [i \in Items |-> gl1250[d][i] + Lines[d][i]] \in [Items -> Int]
        BY <3>1 DEF TypeOK
      <4> QED BY <1>2, <4>1 DEF CommitStockOnAssign, ToDispatch, InStock, TypeOK
    <3> QED BY <1>2, <3>2, <3>3 DEF CommitStockOnAssign, ToDispatch, InStock, TypeOK, BooksOK
  <2> QED BY <2>2, <2>3
<1> QED BY <1>1, <1>2

LEMMA ReleaseType ==
  ASSUME TypeOK, NEW d \in Deliveries, NEW row \in Row, ReleaseOnReject(d, row)
  PROVE  delivery' \in [Deliveries -> Row] /\ BooksOK'
<1>1. CASE row.ledger # "in_transit"
  BY <1>1 DEF ReleaseOnReject, InTransit, TypeOK, BooksOK, books
<1>2. CASE row.ledger = "in_transit"
  <2>1. [row EXCEPT !.ledger = "returned"] \in Row
    BY DEF Row, LedgerStatuses
  <2>2. delivery' \in [Deliveries -> Row]
    BY <1>2, <2>1 DEF ReleaseOnReject, InTransit, TypeOK
  <2>3. BooksOK'
    <3>1. Load(d, row) \in [Items -> Nat]
      BY LoadIsNat
    <3>2. onHand' \in [Items -> Int] /\ gl1200' \in [Items -> Int]
      BY <1>2, <3>1 DEF ReleaseOnReject, InTransit, TypeOK
    <3>3. gl1250' \in [Deliveries -> [Items -> Int]]
      BY <1>2, <3>1 DEF ReleaseOnReject, InTransit, TypeOK
    <3> QED BY <1>2, <3>2, <3>3 DEF ReleaseOnReject, InTransit, TypeOK, BooksOK
  <2> QED BY <2>2, <2>3
<1> QED BY <1>1, <1>2

LEMMA CommitApprovalType ==
  ASSUME TypeOK, NEW d \in Deliveries, NEW count \in [Items -> Counts],
         CommitApproval(d, count)
  PROVE  delivery' \in [Deliveries -> Row] /\ BooksOK'
<1> DEFINE load == Load(d, delivery[d])
           kept == [i \in Items |-> Kept(load[i], count[i].delivered)]
           sold == \E i \in Items : kept[i] > 0
<1>1. load \in [Items -> Nat]
  BY LoadIsNat DEF TypeOK
<1>2. kept \in [Items -> Int]
  BY <1>1, KeptBounds, CountsAssumption
<1>3. onHand' \in [Items -> Int] /\ gl1200' \in [Items -> Int]
  BY <1>1, <1>2 DEF CommitApproval, InTransit, TypeOK
<1>4. cogs' \in [Items -> Int]
  BY <1>2 DEF CommitApproval, InTransit, TypeOK
<1>5. gl1250' \in [Deliveries -> [Items -> Int]]
  <2>1. [i \in Items |-> gl1250[d][i] - load[i]] \in [Items -> Int]
    BY <1>1 DEF TypeOK
  <2> QED BY <2>1 DEF CommitApproval, InTransit, TypeOK
<1>6. invoices' \in [Deliveries -> Nat]
  BY DEF CommitApproval, InTransit, TypeOK
<1>7. delivery' \in [Deliveries -> Row]
  <2> DEFINE row == [delivery[d] EXCEPT !.ledger = "committed", !.status = "delivered",
                                        !.invoiced = sold \/ @]
  <2>1. row \in Row
    BY ZenonT(40) DEF TypeOK, Row, LedgerStatuses, Live
  <2>2. delivery' = [delivery EXCEPT ![d] = row]
    BY DEF CommitApproval, InTransit, TypeOK, Row
  <2> QED BY <2>1, <2>2 DEF TypeOK
<1> QED BY <1>3, <1>4, <1>5, <1>6, <1>7 DEF BooksOK

LEMMA LegacyApprovalType ==
  ASSUME TypeOK, NEW s \in Sessions, NEW count \in [Items -> Counts],
         session[s].d \in Deliveries, LegacyApproval(s, count)
  PROVE  delivery' \in [Deliveries -> Row] /\ BooksOK'
<1> DEFINE d == session[s].d
<1>1. \A i \in Items : Net(count, i) \in Int
  BY CountsAssumption DEF Net
<1>2. onHand' \in [Items -> Int] /\ gl1200' \in [Items -> Int] /\ cogs' \in [Items -> Int]
  BY <1>1 DEF LegacyApproval, TypeOK
<1>3. delivery' \in [Deliveries -> Row]
  <2>1. session[s].row \in Row /\ delivery[d] \in Row
    BY DEF TypeOK, Session
  <2>2. PICK mem \in {session[s].row, delivery[d]}, base \in {session[s].row, delivery[d]} :
          delivery' = IF mem.status \in Live \ {"delivered"}
                        THEN [delivery EXCEPT ![d] =
                                Saved([mem EXCEPT !.status = "delivered"], base,
                                      delivery[d], FALSE)]
                        ELSE delivery
    BY DEF LegacyApproval
  <2>3. [mem EXCEPT !.status = "delivered"] \in Row
    BY <2>1 DEF Row, Live
  <2>4. Saved([mem EXCEPT !.status = "delivered"], base, delivery[d], FALSE) \in Row
    BY <2>1, <2>3, SavedIsRow
  <2> QED BY <2>2, <2>4 DEF TypeOK
<1> QED BY <1>2, <1>3 DEF BooksOK, LegacyApproval, TypeOK

-----------------------------------------------------------------------------
(* The type invariant *)

(* A request that was filed names its delivery and its counts; the others  *)
(* name none.                                                              *)
RequestsOK ==
  \A r \in Requests :
    IF request[r].status = "absent"
      THEN request[r].d = None
      ELSE request[r].d \in Deliveries /\ request[r].count \in [Items -> Counts]

(* A session at work names its delivery, and a review the request it reads. *)
SessionsOK ==
  \A s \in Sessions :
    /\ session[s].op \in Ops \cup {"idle"}
    /\ session[s].op # "idle" => session[s].d \in Deliveries
    /\ session[s].op = "billPhoto" => session[s].r \in Requests
    /\ session[s].op \in {"approve", "reject", "undo"} =>
         session[s].r \in Requests /\ request[session[s].r].status # "absent"

IType == TypeOK /\ RequestsOK /\ SessionsOK

LEMMA InitType == Init => IType
  BY ConstantRows, ConstantSessions, OpeningAssumption
     DEF Init, IType, TypeOK, RequestsOK, SessionsOK, Idle, NoRequest, Request

(* Requests keep their identity: none that was filed becomes absent again. *)
Filed == \A r \in Requests : request[r].status # "absent" => request'[r].status # "absent"

LEMMA EndType ==
  ASSUME IType, NEW s \in Sessions, End(s), Filed
  PROVE  session' \in [Sessions -> Session] /\ SessionsOK'
  BY ConstantSessions DEF IType, TypeOK, SessionsOK, End, Idle, Filed

LEMMA BeginType ==
  ASSUME IType, NEW s \in Sessions, NEW op, NEW d \in Deliveries,
         NEW r \in Requests \cup {None}, NEW row \in Row,
         op \in {"billPhoto", "approve", "reject"} => r \in Requests,
         op \in {"approve", "reject"} => request[r].status # "absent",
         op # "undo",
         Begin(s, op, d, r, row)
  PROVE  IType'
<1> DEFINE new == [Idle EXCEPT !.op = op, !.d = d, !.r = r, !.row = row]
<1>1. new \in Session
  BY OpsAssumption, ConstantSessions DEF Begin, Session, Idle
<1>2. session' = [session EXCEPT ![s] = new]
  BY DEF Begin
<1>3. TypeOK'
  BY <1>1, <1>2 DEF IType, TypeOK, Begin, books
<1>4. SessionsOK'
  BY <1>2 DEF IType, TypeOK, SessionsOK, Begin, Idle
<1>5. RequestsOK'
  BY DEF IType, RequestsOK, Begin
<1> QED BY <1>3, <1>4, <1>5 DEF IType

LEMMA SaveRequestType ==
  ASSUME IType, NEW s \in Sessions, session[s].op \in {"approve", "reject", "undo"},
         NEW status \in {"pending", "approved", "rejected"}, NEW entry \in Entry,
         SaveRequest(s, status, entry)
  PROVE  request' \in [Requests -> Request] /\ RequestsOK' /\ Filed
<1>0. PICK r \in Requests : r = session[s].r
  BY DEF IType, SessionsOK
<1>1. request[r] \in Request /\ request[r].status # "absent"
  BY <1>0 DEF IType, TypeOK, SessionsOK
<1>2. PICK gone \in BOOLEAN :
        request' = [request EXCEPT ![r].status = IF gone THEN @ ELSE status,
                                   ![r].entry = IF gone THEN @ ELSE entry]
  BY <1>0 DEF SaveRequest
<1> DEFINE new == IF gone THEN request[r]
                  ELSE [request[r] EXCEPT !.status = status, !.entry = entry]
<1>3. new \in Request /\ new.d = request[r].d /\ new.count = request[r].count
  BY <1>1 DEF Request
<1>4. new.status = "absent" => request[r].status = "absent"
  BY <1>1 DEF Request
<1>5. request' = [request EXCEPT ![r] = new]
  BY <1>1, <1>2 DEF IType, TypeOK, Request
<1> HIDE DEF new
<1>6. request' \in [Requests -> Request]
  BY <1>1, <1>3, <1>5 DEF IType, TypeOK
<1>7. \A q \in Requests :
        /\ request'[q].d = request[q].d /\ request'[q].count = request[q].count
        /\ request'[q].status = "absent" <=> request[q].status = "absent"
  BY <1>1, <1>3, <1>4, <1>5 DEF IType, TypeOK
<1> QED BY <1>6, <1>7 DEF IType, RequestsOK, Filed

LEMMA StartType ==
  ASSUME IType, NEW s \in Sessions, Start(s)
  PROVE  IType'
<1>1. ASSUME NEW d \in Deliveries, StartCreate(s, d)
      PROVE  IType'
  BY <1>1, BeginType, ConstantRows DEF StartCreate
<1>2. ASSUME NEW d \in Deliveries,
             \/ StartAssign(s, d) \/ StartAutoAssign(s, d) \/ StartEdit(s, d)
             \/ StartGeocode(s, d) \/ StartConfirm(s, d) \/ StartRemove(s, d)
      PROVE  IType'
  <2>1. delivery[d] \in Row
    BY DEF IType, TypeOK
  <2>2. \E op \in {"assign", "autoAssign", "edit", "geocode", "confirm", "remove"} :
          Begin(s, op, d, None, delivery[d])
    BY <1>2 DEF StartAssign, StartAutoAssign, StartEdit, StartGeocode, StartConfirm,
                StartRemove
  <2> QED BY <2>1, <2>2, BeginType
<1>3. ASSUME NEW d \in Deliveries, NEW r \in Requests, StartBillPhoto(s, r, d)
      PROVE  IType'
  <2>1. delivery[d] \in Row
    BY DEF IType, TypeOK
  <2> QED BY <1>3, <2>1, BeginType DEF StartBillPhoto
<1>4. ASSUME NEW r \in Requests, NEW op \in {"approve", "reject"}, StartReview(s, op, r)
      PROVE  IType'
  <2>1. request[r].d \in Deliveries /\ request[r].status # "absent"
    BY <1>4 DEF IType, RequestsOK, StartReview, Reviewable
  <2>2. delivery[request[r].d] \in Row
    BY <2>1 DEF IType, TypeOK
  <2> QED BY <1>4, <2>1, <2>2, BeginType DEF StartReview
<1>5. ASSUME NEW r \in Requests, StartUndo(s, r)
      PROVE  IType'
  <2>1. request[r] \in Request /\ request[r].d \in Deliveries /\ request[r].status # "absent"
    BY <1>5 DEF IType, TypeOK, RequestsOK, StartUndo, Undoable
  <2> DEFINE new == [Idle EXCEPT !.op = "undo", !.d = request[r].d, !.r = r,
                                 !.entry = request[r].entry]
  <2>2. new \in Session
    BY <2>1, ConstantSessions DEF Session, Idle, Request, OpNames
  <2>3. session' = [session EXCEPT ![s] = new]
    BY <1>5 DEF StartUndo
  <2>4. TypeOK'
    BY <1>5, <2>2, <2>3 DEF IType, TypeOK, StartUndo, books
  <2>5. SessionsOK'
    BY <1>5, <2>1, <2>3 DEF IType, TypeOK, SessionsOK, StartUndo, Idle
  <2>6. RequestsOK'
    BY <1>5 DEF IType, RequestsOK, StartUndo
  <2> QED BY <2>4, <2>5, <2>6 DEF IType
<1> QED BY <1>1, <1>2, <1>3, <1>4, <1>5 DEF Start

(* An action that ends its request and leaves the requests' rows alone.    *)
LEMMA EndKeepsType ==
  ASSUME IType, NEW s \in Sessions, End(s), UNCHANGED request,
         delivery' \in [Deliveries -> Row], BooksOK'
  PROVE  IType'
<1>1. Filed /\ RequestsOK'
  BY DEF IType, RequestsOK, Filed
<1> QED BY <1>1, EndType DEF IType, TypeOK, BooksOK

LEMMA FinishType ==
  ASSUME IType, NEW s \in Sessions, Finish(s)
  PROVE  IType'
<1> DEFINE d == session[s].d
<1> USE DEF IType
<1>0. session[s] \in Session /\ session[s].row \in Row /\ session[s].entry \in Entry
  BY DEF TypeOK, Session
<1>b. UNCHANGED books => BooksOK'
  BY DEF books, BooksOK, TypeOK
<1>1. CASE Create(s)
  <2>1. d \in Deliveries
    BY <1>1 DEF Create, SessionsOK
  <2>2. PICK withRider \in BOOLEAN :
          IF withRider
            THEN CommitStockOnAssign(d, NewRow(TRUE))
            ELSE /\ delivery' = [delivery EXCEPT ![d] = NewRow(FALSE)]
                 /\ UNCHANGED books
    BY <1>1 DEF Create
  <2>3. delivery' \in [Deliveries -> Row] /\ BooksOK'
    BY <1>b, <2>1, <2>2, CommitStockType, ConstantRows DEF TypeOK
  <2> QED BY <1>1, <2>3, EndKeepsType DEF Create
<1>2. CASE Assign(s)
  <2>1. d \in Deliveries
    BY <1>2 DEF Assign, SessionsOK
  <2>2. PICK base \in {session[s].row, delivery[d]} :
          CommitStockOnAssign(d, Saved(Assigned(session[s].row), base, delivery[d],
                                       session[s].op = "assign"))
    BY <1>2 DEF Assign
  <2>3. delivery[d] \in Row /\ base \in Row /\ Assigned(session[s].row) \in Row
    BY <1>0, <2>1, <2>2, AssignedIsRow DEF TypeOK
  <2>4. Saved(Assigned(session[s].row), base, delivery[d], session[s].op = "assign") \in Row
    BY <2>3, SavedIsRow
  <2> QED BY <1>2, <2>1, <2>2, <2>4, CommitStockType, EndKeepsType DEF Assign
<1>3. ASSUME NEW giveRider \in BOOLEAN, Edit(s, giveRider)
      PROVE  IType'
  <2>1. d \in Deliveries /\ delivery[d] \in Row
    BY <1>3 DEF Edit, SessionsOK, TypeOK
  <2> DEFINE dispatches == giveRider /\ session[s].row.status = "unassigned"
             edited == IF ~giveRider THEN session[s].row
                       ELSE IF dispatches THEN Assigned(session[s].row)
                       ELSE [session[s].row EXCEPT !.rider = TRUE]
  <2>2. edited \in Row
    <3>1. [session[s].row EXCEPT !.rider = TRUE] \in Row
      BY <1>0 DEF Row
    <3> QED BY <1>0, <3>1, AssignedIsRow
  <2>3. PICK base \in {session[s].row, delivery[d]} :
          LET row == Saved(edited, base, delivery[d], TRUE)
          IN IF dispatches
               THEN row.status \in Live /\ CommitStockOnAssign(d, row)
               ELSE delivery' = [delivery EXCEPT ![d] = row] /\ UNCHANGED books
    BY <1>3 DEF Edit
  <2>4. Saved(edited, base, delivery[d], TRUE) \in Row
    BY <1>0, <2>1, <2>2, SavedIsRow
  <2> HIDE DEF edited, dispatches
  <2>5. delivery' \in [Deliveries -> Row] /\ BooksOK'
    BY <1>b, <2>1, <2>3, <2>4, CommitStockType DEF TypeOK
  <2> QED BY <1>3, <2>5, EndKeepsType DEF Edit
<1>4. CASE Geocode(s)
  <2>1. d \in Deliveries /\ delivery[d] \in Row
    BY <1>4 DEF Geocode, SessionsOK, TypeOK
  <2>2. PICK base \in {session[s].row, delivery[d]} :
          delivery' = [delivery EXCEPT ![d] = Saved(session[s].row, base, delivery[d], FALSE)]
    BY <1>4 DEF Geocode
  <2>3. Saved(session[s].row, base, delivery[d], FALSE) \in Row
    BY <1>0, <2>1, SavedIsRow
  <2> QED BY <1>4, <1>b, <2>2, <2>3, EndKeepsType DEF Geocode, TypeOK
<1>5. CASE ConfirmAnswer(s)
  <2>1. d \in Deliveries /\ delivery[d] \in Row
    BY <1>5 DEF ConfirmAnswer, SessionsOK, TypeOK
  <2>2. PICK base \in {session[s].row, delivery[d]} :
          delivery' = [delivery EXCEPT ![d] = Saved(session[s].row, base, delivery[d], TRUE)]
    BY <1>5 DEF ConfirmAnswer
  <2>3. Saved(session[s].row, base, delivery[d], TRUE) \in Row
    BY <1>0, <2>1, SavedIsRow
  <2> DEFINE new == [session[s] EXCEPT !.answered = TRUE]
  <2>4. session' = [session EXCEPT ![s] = new]
    BY <1>5, <1>0 DEF ConfirmAnswer, Session, TypeOK
  <2>5. /\ new \in Session /\ new.op = session[s].op /\ new.d = session[s].d
        /\ new.r = session[s].r
    BY <1>0 DEF Session
  <2> HIDE DEF new
  <2>6. TypeOK'
    BY <1>5, <2>2, <2>3, <2>4, <2>5, ZenonT(40) DEF ConfirmAnswer, TypeOK, books
  <2>7. SessionsOK'
    BY <1>5, <2>4, <2>5 DEF ConfirmAnswer, SessionsOK, TypeOK
  <2> QED BY <1>5, <2>6, <2>7 DEF ConfirmAnswer, RequestsOK
<1>6. CASE Confirm(s)
  <2>1. d \in Deliveries /\ delivery[d] \in Row
    BY <1>6 DEF Confirm, SessionsOK, TypeOK
  <2>2. [session[s].row EXCEPT !.status = "delivered"] \in Row
    BY <1>0 DEF Row, Live
  <2>3. delivery' \in [Deliveries -> Row]
    <3> DEFINE mem == [session[s].row EXCEPT !.status = "delivered"]
    <3>1. \A base \in {session[s].row, delivery[d]} :
            Saved(mem, base, delivery[d], TRUE) \in Row
      BY <1>0, <2>1, <2>2, SavedIsRow
    <3>2. \/ UNCHANGED delivery
          \/ \E base \in {session[s].row, delivery[d]} :
               delivery' = [delivery EXCEPT ![d] = Saved(mem, base, delivery[d], TRUE)]
      BY <1>6 DEF Confirm
    <3> QED BY <3>1, <3>2 DEF TypeOK
  <2> QED BY <1>6, <1>b, <2>3, EndKeepsType DEF Confirm
<1>7. CASE Remove(s)
  <2>1. delivery' \in [Deliveries -> Row]
    BY <1>7, ConstantRows DEF Remove, TypeOK
  <2>2. \A q \in Requests : request'[q] = IF request[q].d = d
                                          THEN [request[q] EXCEPT !.status = "deleted"]
                                          ELSE request[q]
    BY <1>7 DEF Remove
  <2>3. request' \in [Requests -> Request]
    <3>1. \A q \in Requests : [request[q] EXCEPT !.status = "deleted"] \in Request
      BY DEF TypeOK, Request
    <3> QED BY <1>7, <3>1 DEF Remove, TypeOK
  <2>4. \A q \in Requests :
          /\ request'[q].d = request[q].d /\ request'[q].count = request[q].count
          /\ request'[q].status = "absent" <=> request[q].status = "absent"
    <3>1. \A q \in Requests : request[q].d = d => request[q].status # "absent"
      BY <1>7, NoneAssumption DEF Remove, RequestsOK, SessionsOK
    <3> QED BY <2>2, <3>1 DEF TypeOK, Request
  <2>5. RequestsOK' /\ Filed
    BY <2>4 DEF RequestsOK, Filed
  <2> QED BY <1>7, <1>b, <2>1, <2>3, <2>5, EndType DEF Remove, TypeOK, BooksOK
<1>8. CASE BillPhoto(s)
  <2>1. d \in Deliveries /\ delivery[d] \in Row /\ session[s].r \in Requests
    BY <1>8 DEF BillPhoto, SessionsOK, TypeOK
  <2>2. PICK base \in {session[s].row, delivery[d]} :
          delivery' = [delivery EXCEPT ![d] = Saved(session[s].row, base, delivery[d], FALSE)]
    BY <1>8 DEF BillPhoto
  <2>3. Saved(session[s].row, base, delivery[d], FALSE) \in Row
    BY <1>0, <2>1, SavedIsRow
  <2>4. PICK count \in [Items -> Counts] :
          request' = [request EXCEPT ![session[s].r] = Pending(d, count)]
    BY <1>8 DEF BillPhoto
  <2>5. Pending(d, count) \in Request
    BY <2>1, ConstantSessions DEF Pending, Request
  <2>6. request' \in [Requests -> Request] /\ RequestsOK' /\ Filed
    BY <2>1, <2>4, <2>5 DEF TypeOK, RequestsOK, Filed, Pending
  <2> QED BY <1>8, <1>b, <2>2, <2>3, <2>6, EndType DEF BillPhoto, TypeOK, BooksOK
<1>9. CASE Approve(s)
  <2>1. /\ d \in Deliveries /\ delivery[d] \in Row /\ session[s].r \in Requests
        /\ request[session[s].r].count \in [Items -> Counts]
    BY <1>9 DEF Approve, SessionsOK, RequestsOK, TypeOK
  <2> DEFINE count == request[session[s].r].count
             load == Load(d, delivery[d])
             kept == [i \in Items |-> Kept(load[i], count[i].delivered)]
             net == [i \in Items |-> Net(count, i)]
             sale == [stock |-> [i \in Items |-> load[i] - kept[i]], cost |-> kept]
             legacy == [stock |-> [i \in Items |-> -net[i]], cost |-> net]
  <2>2. sale \in Entry
    <3>1. load \in [Items -> Nat] /\ kept \in [Items -> Int]
      BY <2>1, LoadIsNat, KeptBounds, CountsAssumption
    <3> QED BY <3>1 DEF Entry
  <2>3. legacy \in Entry
    <3>1. net \in [Items -> Int]
      BY <2>1, CountsAssumption DEF Net
    <3> QED BY <3>1 DEF Entry
  <2>4. CASE session[s].row.committed
    <3>1. CommitApproval(d, count) /\ SaveRequest(s, "approved", sale)
      BY <1>9, <2>4 DEF Approve
    <3> HIDE DEF sale, count
    <3>2. delivery' \in [Deliveries -> Row] /\ BooksOK'
      BY <2>1, <3>1, CommitApprovalType DEF count
    <3>3. request' \in [Requests -> Request] /\ RequestsOK' /\ Filed
      BY <1>9, <2>2, <3>1, SaveRequestType DEF Approve
    <3> QED BY <1>9, <3>2, <3>3, EndType DEF Approve, TypeOK, BooksOK
  <2>5. CASE ~session[s].row.committed
    <3>1. LegacyApproval(s, count) /\ SaveRequest(s, "approved", legacy)
      BY <1>9, <2>5 DEF Approve
    <3> HIDE DEF legacy, count
    <3>2. delivery' \in [Deliveries -> Row] /\ BooksOK'
      BY <2>1, <3>1, LegacyApprovalType DEF count
    <3>3. request' \in [Requests -> Request] /\ RequestsOK' /\ Filed
      BY <1>9, <2>3, <3>1, SaveRequestType DEF Approve
    <3> QED BY <1>9, <3>2, <3>3, EndType DEF Approve, TypeOK, BooksOK
  <2> QED BY <2>4, <2>5
<1>10. CASE Reject(s)
  <2>1. d \in Deliveries /\ delivery[d] \in Row /\ session[s].r \in Requests
    BY <1>10 DEF Reject, SessionsOK, TypeOK
  <2>2. [delivery[d] EXCEPT !.status = "returned"] \in Row
    BY <2>1 DEF Row, Live, Dead
  <2>3. delivery' \in [Deliveries -> Row] /\ BooksOK'
    BY <1>10, <1>b, <2>1, <2>2, ReleaseType DEF Reject, TypeOK
  <2>4. PICK entry \in {NoEntry, request[session[s].r].entry} : SaveRequest(s, "rejected", entry)
    BY <1>10 DEF Reject
  <2>5. entry \in Entry
    BY <2>1, <2>4, ConstantSessions DEF TypeOK, Request
  <2>6. request' \in [Requests -> Request] /\ RequestsOK' /\ Filed
    BY <1>10, <2>4, <2>5, SaveRequestType DEF Reject
  <2> QED BY <1>10, <2>3, <2>6, EndType DEF Reject, TypeOK, BooksOK
<1>11. CASE Undo(s)
  <2>1. session[s].r \in Requests /\ request[session[s].r].count \in [Items -> Counts]
    BY <1>11 DEF Undo, SessionsOK, RequestsOK
  <2> DEFINE count == request[session[s].r].count
  <2>2. \A i \in Items : Net(count, i) \in Int
    BY <2>1, CountsAssumption DEF Net
  <2>3. BooksOK'
    <3>1. session[s].entry.stock \in [Items -> Int] /\ session[s].entry.cost \in [Items -> Int]
      BY <1>0 DEF Entry
    <3>2. onHand' \in [Items -> Int]
      BY <1>11, <2>2 DEF Undo, TypeOK
    <3>3. gl1200' \in [Items -> Int] /\ cogs' \in [Items -> Int]
      BY <1>11, <3>1 DEF Undo, TypeOK
    <3> QED BY <1>11, <3>2, <3>3 DEF Undo, BooksOK, TypeOK
  <2>4. request' \in [Requests -> Request] /\ RequestsOK' /\ Filed
    BY <1>11, ConstantSessions, SaveRequestType DEF Undo
  <2> QED BY <1>11, <2>3, <2>4, EndType DEF Undo, TypeOK, BooksOK
<1>12. CASE Rollback(s)
  BY <1>12, <1>b, EndKeepsType DEF Rollback, TypeOK
<1> QED BY <1>1, <1>2, <1>3, <1>4, <1>5, <1>6, <1>7, <1>8, <1>9, <1>10, <1>11, <1>12
        DEF Finish

LEMMA AtOnceType ==
  ASSUME IType, NEW s \in Sessions, AtOnce(s)
  PROVE  IType'
<1> USE DEF IType
<1>1. ASSUME NEW d \in Deliveries, NEW to \in Live, UpdateStatus(s, d, to)
      PROVE  IType'
  <2> DEFINE row == [delivery[d] EXCEPT !.status = to]
  <2>1. row \in Row
    BY DEF TypeOK, Row
  <2>2. CASE to \in Dead
    <3>1. ReleaseOnReject(d, row)
      BY <1>1, <2>2 DEF UpdateStatus
    <3> HIDE DEF row
    <3>2. delivery' \in [Deliveries -> Row] /\ BooksOK'
      BY <2>1, <3>1, ReleaseType
    <3> QED BY <1>1, <3>2 DEF UpdateStatus, TypeOK, BooksOK, RequestsOK, SessionsOK
  <2>3. CASE to \notin Dead
    <3>1. delivery' = [delivery EXCEPT ![d] = row] /\ UNCHANGED books
      BY <1>1, <2>3 DEF UpdateStatus
    <3> HIDE DEF row
    <3> QED BY <1>1, <2>1, <3>1 DEF UpdateStatus, TypeOK, books, RequestsOK, SessionsOK
  <2> QED BY <2>2, <2>3
<1>2. ASSUME NEW d \in Deliveries, NEW r \in Requests, CreateRequest(s, r, d)
      PROVE  IType'
  <2>1. PICK count \in [Items -> Counts] :
          request' = [request EXCEPT ![r] = Pending(d, count)]
    BY <1>2 DEF CreateRequest
  <2>2. Pending(d, count) \in Request
    BY ConstantSessions DEF Pending, Request
  <2>3. TypeOK'
    BY <1>2, <2>1, <2>2 DEF CreateRequest, TypeOK, books
  <2>4. RequestsOK'
    BY <2>1 DEF RequestsOK, Pending, TypeOK
  <2>5. SessionsOK'
    BY <1>2, <2>1 DEF CreateRequest, SessionsOK, Pending, TypeOK
  <2> QED BY <2>3, <2>4, <2>5
<1> QED BY <1>1, <1>2 DEF AtOnce

LEMMA NextType == IType /\ [Next]_vars => IType'
<1>1. ASSUME IType, UNCHANGED vars
      PROVE  IType'
  BY <1>1 DEF IType, TypeOK, RequestsOK, SessionsOK, vars
<1> QED BY <1>1, StartType, FinishType, AtOnceType DEF Next

(* Every variable keeps its type, whatever requests are in flight.         *)
THEOREM TypeCorrect == Spec => []TypeOK
<1>1. IType => TypeOK
  BY DEF IType
<1> QED BY <1>1, InitType, NextType, PTL DEF Spec

-----------------------------------------------------------------------------
(* The shelf and account 1200 *)

(* What a step does to the shelf: units never go below zero, account 1200   *)
(* moves by the same units, and what does not move in transit is sold or    *)
(* put back by the same units too.                                         *)
ShelfMoves ==
  \A i \in Items :
    /\ onHand'[i] >= 0
    /\ onHand'[i] - onHand[i] = gl1200'[i] - gl1200[i]
    /\ UNCHANGED gl1250 => onHand'[i] + cogs'[i] = onHand[i] + cogs[i]

LEMMA CommitStockMoves ==
  ASSUME TypeOK, StockNeverNegative, NEW d \in Deliveries, NEW row \in Row,
         CommitStockOnAssign(d, row)
  PROVE  ShelfMoves
<1>1. Lines[d] \in [Items -> Nat]
  BY LinesAssumption
<1>2. CASE row.committed \/ ~row.lines
  BY <1>2 DEF CommitStockOnAssign, ToDispatch, InStock, TypeOK, StockNeverNegative, ShelfMoves, books
<1>3. CASE ~(row.committed \/ ~row.lines)
  <2>1. \A i \in Items : gl1250'[d][i] = gl1250[d][i] + Lines[d][i]
    BY <1>3 DEF CommitStockOnAssign, ToDispatch, InStock, TypeOK
  <2>2. /\ onHand' = [i \in Items |-> onHand[i] - Lines[d][i]]
        /\ gl1200' = [i \in Items |-> gl1200[i] - Lines[d][i]]
        /\ \A i \in Items : onHand[i] >= Lines[d][i]
        /\ cogs' = cogs
    BY <1>3 DEF CommitStockOnAssign, ToDispatch, InStock
  <2>3. \A i \in Items : /\ onHand[i] \in Int /\ gl1200[i] \in Int /\ cogs[i] \in Int
                         /\ gl1250[d][i] \in Int /\ Lines[d][i] \in Nat
    BY <1>1 DEF TypeOK
  <2> QED BY <2>1, <2>2, <2>3 DEF ShelfMoves
<1> QED BY <1>2, <1>3

LEMMA ReleaseMoves ==
  ASSUME TypeOK, StockNeverNegative, NEW d \in Deliveries, NEW row \in Row,
         ReleaseOnReject(d, row)
  PROVE  ShelfMoves
<1>1. Load(d, row) \in [Items -> Nat]
  BY LoadIsNat
<1>2. CASE row.ledger # "in_transit"
  BY <1>2 DEF ReleaseOnReject, InTransit, TypeOK, StockNeverNegative, ShelfMoves, books
<1>3. CASE row.ledger = "in_transit"
  <2>1. \A i \in Items : gl1250'[d][i] = gl1250[d][i] - Load(d, row)[i]
    BY <1>3 DEF ReleaseOnReject, InTransit, TypeOK
  <2>2. /\ onHand' = [i \in Items |-> onHand[i] + Load(d, row)[i]]
        /\ gl1200' = [i \in Items |-> gl1200[i] + Load(d, row)[i]]
        /\ cogs' = cogs
    BY <1>3 DEF ReleaseOnReject, InTransit
  <2>3. \A i \in Items : /\ onHand[i] \in Int /\ gl1200[i] \in Int /\ cogs[i] \in Int
                         /\ gl1250[d][i] \in Int /\ Load(d, row)[i] \in Nat
    BY <1>1 DEF TypeOK
  <2> QED BY <2>1, <2>2, <2>3 DEF StockNeverNegative, ShelfMoves
<1> QED BY <1>2, <1>3

LEMMA CommitApprovalMoves ==
  ASSUME TypeOK, StockNeverNegative, NEW d \in Deliveries,
         NEW count \in [Items -> Counts], CommitApproval(d, count)
  PROVE  ShelfMoves
<1> DEFINE load == Load(d, delivery[d])
           kept == [i \in Items |-> Kept(load[i], count[i].delivered)]
<1>1. load \in [Items -> Nat]
  BY LoadIsNat DEF TypeOK
<1>2. \A i \in Items : kept[i] \in 0..load[i]
  BY <1>1, KeptBounds, CountsAssumption
<1>3. /\ onHand' = [i \in Items |-> onHand[i] + (load[i] - kept[i])]
      /\ gl1200' = [i \in Items |-> gl1200[i] + (load[i] - kept[i])]
      /\ cogs' = [i \in Items |-> cogs[i] + kept[i]]
  BY DEF CommitApproval, InTransit
<1>4. \A i \in Items : gl1250'[d][i] = gl1250[d][i] - load[i]
  BY DEF CommitApproval, InTransit, TypeOK
<1> HIDE DEF load, kept
<1> QED BY <1>1, <1>2, <1>3, <1>4 DEF TypeOK, StockNeverNegative, ShelfMoves

LEMMA LegacyApprovalMoves ==
  ASSUME TypeOK, NEW s \in Sessions, NEW count \in [Items -> Counts],
         LegacyApproval(s, count)
  PROVE  ShelfMoves
<1>1. \A i \in Items : Net(count, i) \in Int
  BY CountsAssumption DEF Net
<1> QED BY <1>1 DEF LegacyApproval, TypeOK, ShelfMoves

LEMMA IdleBooksMoveNothing ==
  ASSUME TypeOK, StockNeverNegative, UNCHANGED books
  PROVE  ShelfMoves
  BY DEF TypeOK, StockNeverNegative, ShelfMoves, books

(* Every step but an undo moves the shelf and its account together.        *)
LEMMA StepMoves ==
  ASSUME IType, StockNeverNegative, NEW s \in Sessions,
         Start(s) \/ Finish(s) \/ AtOnce(s), ~Undo(s)
  PROVE  ShelfMoves
<1> DEFINE d == session[s].d
<1> USE IdleBooksMoveNothing DEF IType
<1>0. session[s] \in Session /\ session[s].row \in Row
  BY DEF TypeOK, Session
<1>1. CASE Start(s)
  <2>1. UNCHANGED books
    BY <1>1 DEF Start, StartCreate, StartAssign, StartAutoAssign, StartEdit,
                StartGeocode, StartConfirm, StartRemove, StartBillPhoto, StartReview,
                StartUndo, Begin
  <2> QED BY <2>1
<1>2. CASE Create(s)
  <2>1. d \in Deliveries
    BY <1>2 DEF Create, SessionsOK
  <2> QED BY <1>2, <2>1, CommitStockMoves, ConstantRows DEF Create
<1>3. CASE Assign(s)
  <2>1. d \in Deliveries /\ delivery[d] \in Row /\ Assigned(session[s].row) \in Row
    BY <1>0, <1>3, AssignedIsRow DEF Assign, SessionsOK, TypeOK
  <2>2. PICK base \in {session[s].row, delivery[d]} :
          CommitStockOnAssign(d, Saved(Assigned(session[s].row), base, delivery[d],
                                       session[s].op = "assign"))
    BY <1>3 DEF Assign
  <2>3. Saved(Assigned(session[s].row), base, delivery[d], session[s].op = "assign") \in Row
    BY <1>0, <2>1, SavedIsRow
  <2> QED BY <2>1, <2>2, <2>3, CommitStockMoves
<1>4. ASSUME NEW giveRider \in BOOLEAN, Edit(s, giveRider)
      PROVE  ShelfMoves
  <2>1. d \in Deliveries /\ delivery[d] \in Row /\ Assigned(session[s].row) \in Row
    BY <1>0, <1>4, AssignedIsRow DEF Edit, SessionsOK, TypeOK
  <2>2. \/ UNCHANGED books
        \/ \E base \in {session[s].row, delivery[d]} :
             CommitStockOnAssign(d, Saved(Assigned(session[s].row), base, delivery[d], TRUE))
    BY <1>4 DEF Edit
  <2>3. \A base \in {session[s].row, delivery[d]} :
          Saved(Assigned(session[s].row), base, delivery[d], TRUE) \in Row
    BY <1>0, <2>1, SavedIsRow
  <2> QED BY <2>1, <2>2, <2>3, CommitStockMoves
<1>5. CASE Geocode(s) \/ ConfirmAnswer(s) \/ Confirm(s) \/ Remove(s) \/ BillPhoto(s)
           \/ Rollback(s)
  BY <1>5 DEF Geocode, ConfirmAnswer, Confirm, Remove, BillPhoto, Rollback
<1>6. CASE Approve(s)
  <2>1. d \in Deliveries /\ request[session[s].r].count \in [Items -> Counts]
    BY <1>6 DEF Approve, SessionsOK, RequestsOK
  <2>2. \/ CommitApproval(d, request[session[s].r].count)
        \/ LegacyApproval(s, request[session[s].r].count)
    BY <1>6 DEF Approve
  <2> QED BY <2>1, <2>2, CommitApprovalMoves, LegacyApprovalMoves
<1>7. CASE Reject(s)
  <2>1. d \in Deliveries /\ delivery[d] \in Row
    BY <1>7 DEF Reject, SessionsOK, TypeOK
  <2>2. [delivery[d] EXCEPT !.status = "returned"] \in Row
    BY <2>1 DEF Row, Live, Dead
  <2> QED BY <1>7, <2>1, <2>2, ReleaseMoves DEF Reject
<1>8. CASE AtOnce(s)
  <2>1. ASSUME NEW e \in Deliveries, NEW to \in Live, UpdateStatus(s, e, to)
        PROVE  ShelfMoves
    <3>1. [delivery[e] EXCEPT !.status = to] \in Row
      BY DEF TypeOK, Row
    <3> QED BY <2>1, <3>1, ReleaseMoves DEF UpdateStatus
  <2>2. ASSUME NEW e \in Deliveries, NEW r \in Requests, CreateRequest(s, r, e)
        PROVE  ShelfMoves
    BY <2>2 DEF CreateRequest
  <2> QED BY <1>8, <2>1, <2>2 DEF AtOnce
<1> QED BY <1>1, <1>2, <1>3, <1>4, <1>5, <1>6, <1>7, <1>8 DEF Finish

(* The shelf never goes below zero: I11, for any number of HTTP requests in *)
(* flight and any counts the riders report.  Dispatch and the approval of   *)
(* an undispatched delivery check the shelf under the item's row lock; the  *)
(* undo of an approval stops at zero.                                       *)
THEOREM StockSafe == Spec => []StockNeverNegative
<1> DEFINE Inv == IType /\ StockNeverNegative
<1>1. Init => Inv
  BY InitType, OpeningAssumption DEF Init, StockNeverNegative
<1>2. Inv /\ [Next]_vars => Inv'
  <2> SUFFICES ASSUME Inv, [Next]_vars
               PROVE  StockNeverNegative'
    BY NextType
  <2>1. CASE UNCHANGED vars
    BY <2>1 DEF vars, StockNeverNegative
  <2>2. ASSUME NEW s \in Sessions, Start(s) \/ Finish(s) \/ AtOnce(s), ~Undo(s)
        PROVE  StockNeverNegative'
    BY <2>2, StepMoves DEF ShelfMoves, StockNeverNegative
  <2>3. ASSUME NEW s \in Sessions, Undo(s)
        PROVE  StockNeverNegative'
    <3>1. request[session[s].r].count \in [Items -> Counts]
      BY <2>3 DEF Undo, IType, SessionsOK, RequestsOK
    <3>2. \A i \in Items : Net(request[session[s].r].count, i) \in Int
      BY <3>1, CountsAssumption DEF Net
    <3>3. onHand \in [Items -> Int]
      BY DEF IType, TypeOK
    <3> QED BY <2>3, <3>2, <3>3 DEF Undo, StockNeverNegative
  <2> QED BY <2>1, <2>2, <2>3 DEF Next
<1>3. Inv => StockNeverNegative
  OBVIOUS
<1> QED BY <1>1, <1>2, <1>3, PTL DEF Spec

(* The units on hand are the units account 1200 carries: I13, for every     *)
(* interleaving of the operations other than the undo of an approval.       *)
THEOREM StockTies ==
  ASSUME "undo" \notin Ops
  PROVE  Spec => []SubledgerTies
<1> DEFINE Inv == IType /\ StockNeverNegative /\ SubledgerTies
<1>1. Init => Inv
  BY InitType, OpeningAssumption DEF Init, StockNeverNegative, SubledgerTies
<1>2. Inv /\ [Next]_vars => Inv'
  <2> SUFFICES ASSUME Inv, [Next]_vars
               PROVE  StockNeverNegative' /\ SubledgerTies'
    BY NextType
  <2>1. CASE UNCHANGED vars
    BY <2>1 DEF vars, StockNeverNegative, SubledgerTies
  <2>2. ASSUME NEW s \in Sessions, Start(s) \/ Finish(s) \/ AtOnce(s)
        PROVE  StockNeverNegative' /\ SubledgerTies'
    <3>1. ~Undo(s)
      BY DEF Undo, IType, SessionsOK
    <3>2. ShelfMoves
      BY <2>2, <3>1, StepMoves
    <3>3. \A i \in Items : /\ onHand[i] \in Int /\ gl1200[i] \in Int
                           /\ onHand'[i] \in Int /\ gl1200'[i] \in Int
      BY NextType DEF IType, TypeOK
    <3> QED BY <3>2, <3>3 DEF ShelfMoves, StockNeverNegative, SubledgerTies
  <2> QED BY <2>1, <2>2 DEF Next
<1>3. Inv => SubledgerTies
  OBVIOUS
<1> QED BY <1>1, <1>2, <1>3, PTL DEF Spec
-----------------------------------------------------------------------------
(* The life of each delivery *)

(* Either the instance exercises none of the operations that save a row     *)
(* they read without a lock, with any number of HTTP requests in flight, or *)
(* every operation, one HTTP request at a time.                             *)
NoStaleSave == Ops \cap StaleSavers = {} \/ \A s, t \in Sessions : s = t

-----------------------------------------------------------------------------
(* The inductive invariant *)

(* A delivery's stamp, ledger status, Goods in Transit and sale agree.     *)
RowSettled(d) ==
  /\ delivery[d].ledger = "none" <=> ~delivery[d].committed
  /\ delivery[d].ledger = "in_transit" => delivery[d].lines
  /\ delivery[d].status \notin Live => ~delivery[d].committed
  /\ gl1250[d] = IF delivery[d].ledger = "in_transit" THEN Lines[d] ELSE Zero
  /\ invoices[d] \in 0..1
  /\ delivery[d].ledger # "committed" => invoices[d] = 0

(* A snapshot a saver holds is the row itself; one a reviewer or a removal  *)
(* holds, if it shows no dispatch, still shows the truth; a delivery that   *)
(* is being created is known to nobody else.                                *)
SessionSettled(s) ==
  LET d == session[s].d IN
  /\ session[s].op = "create" =>
       /\ delivery[d].status = "absent"
       /\ \A t \in Sessions : session[t].d = d => t = s
  /\ session[s].op \in StaleSavers =>
       session[s].row = delivery[d] /\ delivery[d].status \in Live
  /\ session[s].op \in {"approve", "reject", "remove", "undo"} => delivery[d].status # "absent"
  /\ session[s].op \in {"approve", "remove"} /\ ~session[s].row.committed =>
       session[s].row.ledger = "none" /\ ~delivery[d].committed
  /\ session[s].op = "remove" => ~session[s].row.committed

Settled ==
  /\ \A d \in Deliveries : RowSettled(d)
  /\ \A s \in Sessions : SessionSettled(s)
  /\ \A r \in Requests :
       request[r].status # "absent" => delivery[request[r].d].status # "absent"

(* The ledger status of d goes none, in transit, sold or returned, and     *)
(* stays there.                                                            *)
Forward(d) ==
  /\ delivery[d].ledger \in {"committed", "returned"} =>
       delivery'[d].ledger = delivery[d].ledger
  /\ delivery[d].ledger = "in_transit" => delivery'[d].ledger # "none"

Implemented == Consignment!Next \/ UNCHANGED Consignment!vars

(* What one step does to the deliveries: it touches d alone, leaves it      *)
(* settled, takes its ledger status forward, dispatches it only if it       *)
(* creates it or may save what it read without a lock, and is a step of the *)
(* consignment if the shelf moved as it should.                             *)
Effect(d) ==
  /\ \A e \in Deliveries \ {d} :
       delivery'[e] = delivery[e] /\ gl1250'[e] = gl1250[e] /\ invoices'[e] = invoices[e]
  /\ RowSettled(d)'
  /\ Forward(d)
  /\ delivery[d].status # "absent" => delivery'[d].status # "absent"
  /\ Ops \cap StaleSavers = {} /\ delivery[d].status # "absent" /\ ~delivery[d].committed =>
       ~delivery'[d].committed
  /\ ShelfMoves => Implemented

(* Nothing moves in transit and the row keeps its stamp, status and lines. *)
LEMMA QuietEffect ==
  ASSUME TypeOK, NEW d \in Deliveries, NEW row \in Row, RowSettled(d),
         delivery' = [delivery EXCEPT ![d] = row], UNCHANGED <<gl1250, invoices>>,
         row.committed = delivery[d].committed, row.ledger = delivery[d].ledger,
         row.ledger = "in_transit" => row.lines,
         row.status \in Live \/ ~row.committed,
         row.status # "absent"
  PROVE  Effect(d)
<1>1. delivery'[d] = row /\ \A e \in Deliveries \ {d} : delivery'[e] = delivery[e]
  BY DEF TypeOK
<1>2. RowSettled(d)'
  BY <1>1 DEF RowSettled
<1>3. [e \in Deliveries |-> delivery'[e].ledger] = [e \in Deliveries |-> delivery[e].ledger]
  BY <1>1
<1>4. ShelfMoves => Implemented
  BY <1>3 DEF ShelfMoves, Implemented, Consignment!Next, Consignment!CounterSale
<1> QED BY <1>1, <1>2, <1>4 DEF Effect, Forward

(* Dispatch, from a row that carries the delivery's own stamp and status.  *)
LEMMA CommitStockEffect ==
  ASSUME TypeOK, NEW d \in Deliveries, NEW row \in Row, RowSettled(d),
         CommitStockOnAssign(d, row),
         row.committed = delivery[d].committed, row.ledger = delivery[d].ledger,
         row.ledger = "in_transit" => row.lines,
         row.status \in Live,
         delivery[d].status = "absent" \/ Ops \cap StaleSavers # {}
  PROVE  Effect(d)
<1>1. CASE row.committed \/ ~row.lines
  <2>1. row.status # "absent"
    BY DEF Live, Moving, Dead
  <2>2. delivery' = [delivery EXCEPT ![d] = row] /\ UNCHANGED <<gl1250, invoices>>
    BY <1>1 DEF CommitStockOnAssign, ToDispatch, InStock, books
  <2> QED BY <2>1, <2>2, QuietEffect
<1>2. CASE ~(row.committed \/ ~row.lines)
  <2> DEFINE new == [row EXCEPT !.committed = TRUE, !.ledger = "in_transit",
                                !.invoiced = FALSE]
  <2>1. delivery' = [delivery EXCEPT ![d] = new]
    BY <1>2 DEF CommitStockOnAssign, ToDispatch, InStock
  <2>2. /\ new.committed /\ new.ledger = "in_transit" /\ new.lines
        /\ new.status \in Live
    BY <1>2 DEF Row
  <2> HIDE DEF new
  <2>3. delivery'[d] = new /\ \A e \in Deliveries \ {d} : delivery'[e] = delivery[e]
    BY <2>1 DEF TypeOK
  <2>4. invoices' = invoices
    BY <1>2 DEF CommitStockOnAssign, ToDispatch, InStock
  <2>5. gl1250[d] = Zero /\ invoices[d] = 0 /\ delivery[d].ledger = "none"
    BY <1>2 DEF RowSettled
  <2>6. gl1250' = [gl1250 EXCEPT ![d] = Lines[d]]
    <3>1. Lines[d] \in [Items -> Nat]
      BY LinesAssumption
    <3>2. [i \in Items |-> gl1250[d][i] + Lines[d][i]] = Lines[d]
      BY <2>5, <3>1 DEF Zero
    <3> QED BY <1>2, <3>2 DEF CommitStockOnAssign, ToDispatch, InStock
  <2>7. gl1250'[d] = Lines[d] /\ \A e \in Deliveries \ {d} : gl1250'[e] = gl1250[e]
    BY <2>6 DEF TypeOK
  <2>8. RowSettled(d)'
    BY <2>2, <2>3, <2>4, <2>5, <2>7 DEF RowSettled
  <2>9. Forward(d)
    BY <2>5 DEF Forward
  <2>10. new.status # "absent"
    BY <2>2 DEF Live, Moving, Dead
  <2>11. Consignment!Dispatch(d)
    <3>1. [e \in Deliveries |-> delivery'[e].ledger] =
            [[e \in Deliveries |-> delivery[e].ledger] EXCEPT ![d] = "in_transit"]
      BY <2>2, <2>3
    <3>2. /\ \A i \in Items : onHand[i] >= Lines[d][i]
          /\ onHand' = [i \in Items |-> onHand[i] - Lines[d][i]]
          /\ UNCHANGED cogs
      BY <1>2 DEF CommitStockOnAssign, ToDispatch, InStock
    <3> QED BY <2>5, <2>6, <3>1, <3>2 DEF Consignment!Dispatch
  <2>12. Implemented
    BY <2>11 DEF Implemented, Consignment!Next
  <2> QED BY <2>3, <2>4, <2>7, <2>8, <2>9, <2>10, <2>12 DEF Effect
<1> QED BY <1>1, <1>2

LEMMA ReleaseEffect ==
  ASSUME TypeOK, NEW d \in Deliveries, NEW row \in Row, RowSettled(d),
         ReleaseOnReject(d, row), row.status \in Live,
         row.committed = delivery[d].committed, row.ledger = delivery[d].ledger,
         row.lines = delivery[d].lines
  PROVE  Effect(d)
<1>0. row.status # "absent"
  BY DEF Live, Moving, Dead
<1>1. CASE row.ledger # "in_transit"
  <2>1. delivery' = [delivery EXCEPT ![d] = row] /\ UNCHANGED <<gl1250, invoices>>
    BY <1>1 DEF ReleaseOnReject, InTransit, books
  <2> QED BY <1>0, <1>1, <2>1, QuietEffect
<1>2. CASE row.ledger = "in_transit"
  <2> DEFINE new == [row EXCEPT !.ledger = "returned"]
  <2>1. delivery' = [delivery EXCEPT ![d] = new]
    BY <1>2 DEF ReleaseOnReject, InTransit
  <2>2. new.committed = row.committed /\ new.ledger = "returned" /\ new.status = row.status
    BY DEF Row
  <2> HIDE DEF new
  <2>3. delivery'[d] = new /\ \A e \in Deliveries \ {d} : delivery'[e] = delivery[e]
    BY <2>1 DEF TypeOK
  <2>4. invoices' = invoices
    BY <1>2 DEF ReleaseOnReject, InTransit
  <2>5. gl1250[d] = Lines[d] /\ invoices[d] = 0 /\ row.committed /\ Load(d, row) = Lines[d]
    BY <1>2 DEF RowSettled, Load
  <2>6. gl1250' = [gl1250 EXCEPT ![d] = Zero]
    <3>1. Lines[d] \in [Items -> Nat]
      BY LinesAssumption
    <3>2. [i \in Items |-> gl1250[d][i] - Load(d, row)[i]] = Zero
      BY <2>5, <3>1 DEF Zero
    <3> QED BY <1>2, <3>2 DEF ReleaseOnReject, InTransit
  <2>7. gl1250'[d] = Zero /\ \A e \in Deliveries \ {d} : gl1250'[e] = gl1250[e]
    BY <2>6 DEF TypeOK
  <2>8. RowSettled(d)'
    BY <2>2, <2>3, <2>4, <2>5, <2>7 DEF RowSettled
  <2>9. Forward(d)
    BY <1>2, <2>2, <2>3 DEF Forward
  <2>10. Consignment!GiveBack(d)
    <3>1. [e \in Deliveries |-> delivery'[e].ledger] =
            [[e \in Deliveries |-> delivery[e].ledger] EXCEPT ![d] = "returned"]
      BY <2>2, <2>3
    <3>2. onHand' = [i \in Items |-> onHand[i] + Lines[d][i]] /\ UNCHANGED cogs
      BY <1>2, <2>5 DEF ReleaseOnReject, InTransit
    <3> QED BY <1>2, <2>6, <3>1, <3>2
            DEF Consignment!GiveBack, Consignment!Nothing, Zero
  <2>11. Implemented
    BY <2>10 DEF Implemented, Consignment!Next
  <2> QED BY <1>0, <1>2, <2>2, <2>3, <2>4, <2>5, <2>7, <2>8, <2>9, <2>11 DEF Effect
<1> QED BY <1>1, <1>2

LEMMA CommitApprovalEffect ==
  ASSUME TypeOK, NEW d \in Deliveries, RowSettled(d), NEW count \in [Items -> Counts],
         CommitApproval(d, count)
  PROVE  Effect(d)
<1> DEFINE load == Load(d, delivery[d])
           kept == [i \in Items |-> Kept(load[i], count[i].delivered)]
           sold == \E i \in Items : kept[i] > 0
           new == [delivery[d] EXCEPT !.ledger = "committed", !.status = "delivered",
                                      !.invoiced = sold \/ @]
<1>1. delivery[d] \in Row /\ delivery[d].ledger = "in_transit"
  BY DEF CommitApproval, InTransit, TypeOK
<1>2. delivery' = [delivery EXCEPT ![d] = new]
  BY <1>1 DEF CommitApproval, InTransit, TypeOK, Row
<1>3. /\ new.committed = delivery[d].committed /\ new.ledger = "committed"
      /\ new.status = "delivered"
  BY <1>1 DEF Row
<1> HIDE DEF new
<1>4. delivery'[d] = new /\ \A e \in Deliveries \ {d} : delivery'[e] = delivery[e]
  BY <1>2 DEF TypeOK
<1>5. load = Lines[d] /\ gl1250[d] = Lines[d] /\ delivery[d].committed /\ invoices[d] = 0
  BY <1>1 DEF RowSettled, Load
<1>6. gl1250' = [gl1250 EXCEPT ![d] = Zero]
  <2>1. Lines[d] \in [Items -> Nat]
    BY LinesAssumption
  <2>2. [i \in Items |-> gl1250[d][i] - load[i]] = Zero
    BY <1>5, <2>1 DEF Zero
  <2> QED BY <2>2 DEF CommitApproval, InTransit
<1>7. gl1250'[d] = Zero /\ \A e \in Deliveries \ {d} : gl1250'[e] = gl1250[e]
  BY <1>6 DEF TypeOK
<1>8. invoices'[d] \in 0..1 /\ \A e \in Deliveries \ {d} : invoices'[e] = invoices[e]
  BY <1>5 DEF CommitApproval, InTransit, TypeOK
<1>9. RowSettled(d)'
  BY <1>3, <1>4, <1>5, <1>7, <1>8 DEF RowSettled, Live
<1>10. Forward(d)
  BY <1>1, <1>3, <1>4 DEF Forward
<1>11. Consignment!Sell(d)
  <2>1. [e \in Deliveries |-> delivery'[e].ledger] =
          [[e \in Deliveries |-> delivery[e].ledger] EXCEPT ![d] = "committed"]
    BY <1>3, <1>4
  <2>2. \A i \in Items : kept[i] \in 0..Lines[d][i] /\ Lines[d][i] \in Nat
    <3> TAKE i \in Items
    <3>1. Lines[d][i] \in Nat /\ count[i].delivered \in Int
      BY LinesAssumption, CountsAssumption
    <3>2. kept[i] = Kept(Lines[d][i], count[i].delivered)
      BY <1>5
    <3> QED BY <3>1, <3>2, KeptBounds
  <2>3. /\ onHand' = [i \in Items |-> onHand[i] + (Lines[d][i] - kept[i])]
        /\ cogs' = [i \in Items |-> cogs[i] + kept[i]]
    BY <1>5 DEF CommitApproval, InTransit
  <2> HIDE DEF kept
  <2>4. \A i \in Items : cogs'[i] - cogs[i] = kept[i] /\ onHand[i] \in Int
    BY <2>2, <2>3 DEF TypeOK
  <2>5. onHand' = [i \in Items |-> onHand[i] + Lines[d][i] - (cogs'[i] - cogs[i])]
    BY <2>2, <2>3, <2>4
  <2> QED BY <1>1, <1>6, <2>1, <2>2, <2>4, <2>5
          DEF Consignment!Sell, Consignment!Nothing, Zero
<1>12. Implemented
  BY <1>11 DEF Implemented, Consignment!Next
<1> QED BY <1>1, <1>3, <1>4, <1>5, <1>7, <1>8, <1>9, <1>10, <1>12 DEF Effect

(* A step that leaves every delivery and its accounts alone.               *)
LEMMA NoEffect ==
  ASSUME TypeOK, NEW d \in Deliveries, RowSettled(d),
         UNCHANGED <<delivery, gl1250, invoices>>
  PROVE  Effect(d)
<1>1. ShelfMoves => Implemented
  BY DEF ShelfMoves, Implemented, Consignment!Next, Consignment!CounterSale
<1> QED BY <1>1 DEF Effect, Forward, RowSettled

(* A fresh save changes neither stamp, ledger status nor lines.            *)
LEMMA FreshSave ==
  ASSUME NEW mem \in Row, NEW cur \in Row, cur.status \in Live, NEW w \in BOOLEAN,
         mem.committed = cur.committed, mem.ledger = cur.ledger, mem.status \in Live
  PROVE  /\ Saved(mem, cur, cur, w).committed = cur.committed
         /\ Saved(mem, cur, cur, w).ledger = cur.ledger
         /\ Saved(mem, cur, cur, w).lines = cur.lines
         /\ Saved(mem, cur, cur, w).status \in Live
  BY DEF Saved

LEMMA UndispatchedSave ==
  ASSUME NEW mem \in Row, NEW base \in Row, NEW cur \in Row, NEW w \in BOOLEAN,
         ~mem.committed, ~base.committed, ~cur.committed,
         mem.ledger = "none", base.ledger = "none", cur.ledger = "none",
         mem.status # "absent", cur.status # "absent"
  PROVE  /\ ~Saved(mem, base, cur, w).committed
         /\ Saved(mem, base, cur, w).ledger = "none"
         /\ Saved(mem, base, cur, w).status # "absent"
  BY DEF Saved, Row

LEMMA LegacyApprovalEffect ==
  ASSUME TypeOK, NEW s \in Sessions, NEW count, session[s].d \in Deliveries,
         RowSettled(session[s].d), LegacyApproval(s, count),
         ~session[s].row.committed, session[s].row.ledger = "none",
         ~delivery[session[s].d].committed, delivery[session[s].d].status # "absent"
  PROVE  Effect(session[s].d)
<1> DEFINE d == session[s].d
<1>1. session[s].row \in Row /\ delivery[d] \in Row /\ delivery[d].ledger = "none"
  BY DEF TypeOK, Session, RowSettled
<1>2. UNCHANGED <<gl1250, invoices>>
  BY DEF LegacyApproval
<1>3. PICK mem \in {session[s].row, delivery[d]}, base \in {session[s].row, delivery[d]} :
        delivery' = IF mem.status \in Live \ {"delivered"}
                      THEN [delivery EXCEPT ![d] =
                              Saved([mem EXCEPT !.status = "delivered"], base,
                                    delivery[d], FALSE)]
                      ELSE delivery
  BY DEF LegacyApproval
<1> DEFINE sold == [mem EXCEPT !.status = "delivered"]
           row == Saved(sold, base, delivery[d], FALSE)
<1>4. /\ sold \in Row /\ ~sold.committed /\ sold.ledger = "none"
      /\ sold.status # "absent"
  BY <1>1 DEF Row, Live
<1>5. base \in Row /\ ~base.committed /\ base.ledger = "none"
  BY <1>1
<1>6. delivery' = [delivery EXCEPT ![d] = row] \/ UNCHANGED delivery
  BY <1>3
<1> HIDE DEF sold
<1>7. row \in Row /\ ~row.committed /\ row.ledger = "none" /\ row.status # "absent"
  BY <1>1, <1>4, <1>5, SavedIsRow, UndispatchedSave, ZenonT(40)
<1> HIDE DEF row
<1>8. CASE delivery' = [delivery EXCEPT ![d] = row]
  <2>1. row.committed = delivery[d].committed
    BY <1>1, <1>7 DEF Row
  <2> QED BY <1>1, <1>2, <1>7, <1>8, <2>1, QuietEffect
<1>9. CASE UNCHANGED delivery
  BY <1>2, <1>9, NoEffect
<1> QED BY <1>6, <1>8, <1>9

-----------------------------------------------------------------------------
(* From the effect on one delivery to the invariant *)

(* The requests that were filed before are the requests filed after, or     *)
(* the new one is for a delivery that exists.                               *)
RequestsKept ==
  \A r \in Requests :
    request'[r].status # "absent" =>
      \/ request[r].status # "absent" /\ request'[r].d = request[r].d
      \/ request'[r].d \in Deliveries /\ delivery[request'[r].d].status # "absent"

LEMMA EffectSettles ==
  ASSUME NoStaleSave, IType, IType', Settled, NEW s \in Sessions, NEW d \in Deliveries,
         Effect(d), RequestsKept,
         \A t \in Sessions \ {s} : session'[t] = session[t],
         SessionSettled(s)',
         \A t \in Sessions \ {s} :
           session[t].op = "create" => session[t].d # d /\ session[t].d # session'[s].d
  PROVE  Settled'
<1>1. \A e \in Deliveries : RowSettled(e)'
  <2>1. ASSUME NEW e \in Deliveries \ {d} PROVE RowSettled(e)'
    BY <2>1 DEF Effect, RowSettled, Settled
  <2> QED BY <2>1 DEF Effect
<1>2. \A e \in Deliveries : delivery[e].status # "absent" => delivery'[e].status # "absent"
  BY DEF Effect
<1>3. \A r \in Requests :
        request'[r].status # "absent" => delivery'[request'[r].d].status # "absent"
  BY <1>2 DEF RequestsKept, Settled, IType, RequestsOK
<1>4. ASSUME NEW t \in Sessions \ {s}
      PROVE  SessionSettled(t)'
  <2>1. Ops \cap StaleSavers = {} /\ session[t].op \notin StaleSavers
    BY DEF NoStaleSave, IType, SessionsOK, StaleSavers
  <2>2. SessionSettled(t) /\ session'[t] = session[t]
    BY DEF Settled
  <2>3. CASE session[t].op = "idle"
    BY <2>2, <2>3 DEF SessionSettled, StaleSavers
  <2>4. CASE session[t].op # "idle"
    <3> DEFINE e == session[t].d
    <3>1. e \in Deliveries
      BY <2>4 DEF IType, SessionsOK
    <3>2. ~delivery[e].committed /\ delivery[e].status # "absent" => ~delivery'[e].committed
      BY <2>1, <3>1 DEF Effect
    <3>3. session[t].op = "create" =>
            delivery'[e].status = "absent" /\ \A u \in Sessions : session'[u].d = e => u = t
      BY <2>2, <3>1 DEF SessionSettled, Effect
    <3> QED BY <1>2, <2>1, <2>2, <3>1, <3>2, <3>3 DEF SessionSettled
  <2> QED BY <2>3, <2>4
<1> QED BY <1>1, <1>3, <1>4 DEF Settled

(* The end of an HTTP request that had its effect on its own delivery.     *)
LEMMA EndSettles ==
  ASSUME NoStaleSave, IType, IType', Settled, NEW s \in Sessions,
         session[s].d \in Deliveries, Effect(session[s].d), RequestsKept, End(s)
  PROVE  Settled'
<1>1. session' = [session EXCEPT ![s] = Idle]
  BY DEF End
<1>2. session'[s] = Idle /\ \A t \in Sessions \ {s} : session'[t] = session[t]
  BY <1>1 DEF IType, TypeOK
<1>3. SessionSettled(s)'
  BY <1>2 DEF SessionSettled, Idle, StaleSavers
<1>4. \A t \in Sessions \ {s} :
        session[t].op = "create" =>
          session[t].d # session[s].d /\ session[t].d # session'[s].d
  BY <1>2, NoneAssumption DEF Settled, SessionSettled, IType, SessionsOK, Idle
<1> QED BY <1>2, <1>3, <1>4, EffectSettles

LEMMA BeginSettles ==
  ASSUME NoStaleSave, IType, IType', Settled, NEW s \in Sessions, NEW d \in Deliveries,
         NEW new \in Session, new.d = d, session' = [session EXCEPT ![s] = new],
         UNCHANGED <<delivery, request, books>>,
         delivery[d].status # "absent" \/ \A t \in Sessions : session[t].d # d,
         SessionSettled(s)'
  PROVE  Settled'
<1>1. session'[s] = new /\ \A t \in Sessions \ {s} : session'[t] = session[t]
  BY DEF IType, TypeOK
<1>2. Effect(d)
  BY NoEffect DEF IType, Settled, books
<1>3. RequestsKept
  BY DEF RequestsKept
<1>4. \A t \in Sessions \ {s} :
        session[t].op = "create" => session[t].d # d /\ session[t].d # session'[s].d
  BY <1>1 DEF Settled, SessionSettled
<1> QED BY <1>1, <1>2, <1>3, <1>4, EffectSettles

LEMMA StartSettles ==
  ASSUME NoStaleSave, IType, Settled, NEW s \in Sessions, Start(s)
  PROVE  Settled'
<1>0. IType' /\ TypeOK
  BY StartType DEF IType
<1>1. ASSUME NEW d \in Deliveries, StartCreate(s, d)
      PROVE  Settled'
  <2> DEFINE new == [Idle EXCEPT !.op = "create", !.d = d, !.r = None, !.row = NoRow]
  <2>1. new \in Session /\ new.op = "create" /\ new.d = d
    BY ConstantRows, ConstantSessions DEF Session, Idle, OpNames
  <2>2. session' = [session EXCEPT ![s] = new] /\ UNCHANGED <<delivery, request, books>>
    BY <1>1 DEF StartCreate, Begin
  <2> HIDE DEF new
  <2>3. SessionSettled(s)'
    <3>1. delivery'[d].status = "absent"
      BY <1>1, <2>2 DEF StartCreate, NoRow
    <3>2. \A t \in Sessions : session'[t].d = d => t = s
      BY <1>0, <1>1, <2>2 DEF StartCreate, TypeOK
    <3> QED BY <1>0, <2>1, <2>2, <3>1, <3>2 DEF SessionSettled, StaleSavers, TypeOK
  <2>4. \A t \in Sessions : session[t].d # d
    BY <1>1 DEF StartCreate
  <2> QED BY <1>0, <2>1, <2>2, <2>3, <2>4, BeginSettles
<1>2. ASSUME NEW d \in Deliveries, NEW r \in Requests \cup {None},
             NEW op \in StaleSavers \cup {"remove", "approve", "reject"},
             Begin(s, op, d, r, delivery[d]),
             op \in StaleSavers => delivery[d].status \in Live,
             op = "remove" => ~delivery[d].committed,
             delivery[d].status # "absent"
      PROVE  Settled'
  <2> DEFINE new == [Idle EXCEPT !.op = op, !.d = d, !.r = r, !.row = delivery[d]]
  <2>1. new \in Session /\ new.op = op /\ new.d = d /\ new.row = delivery[d]
    BY <1>0, ConstantSessions DEF Session, Idle, OpNames, StaleSavers, TypeOK
  <2>2. session' = [session EXCEPT ![s] = new] /\ UNCHANGED <<delivery, request, books>>
    BY <1>2 DEF Begin
  <2> HIDE DEF new
  <2>3. session'[s] = new
    BY <1>0, <2>2 DEF TypeOK
  <2>4. SessionSettled(s)'
    BY <1>2, <2>1, <2>2, <2>3 DEF SessionSettled, StaleSavers, Settled, RowSettled
  <2> QED BY <1>0, <1>2, <2>1, <2>2, <2>4, BeginSettles
<1>3. ASSUME NEW d \in Deliveries,
             \/ StartAssign(s, d) \/ StartAutoAssign(s, d) \/ StartEdit(s, d)
             \/ StartGeocode(s, d) \/ StartConfirm(s, d) \/ StartRemove(s, d)
      PROVE  Settled'
  <2>1. delivery[d].status \in Live /\ delivery[d].status # "absent"
    BY <1>3 DEF StartAssign, StartAutoAssign, StartEdit, StartGeocode, StartConfirm,
                StartRemove, Removable, Exists, Live, Moving, Dead
  <2>2. \E op \in {"assign", "autoAssign", "edit", "geocode", "confirm", "remove"} :
          /\ Begin(s, op, d, None, delivery[d])
          /\ op = "remove" => ~delivery[d].committed
    BY <1>3 DEF StartAssign, StartAutoAssign, StartEdit, StartGeocode, StartConfirm,
                StartRemove, Removable
  <2> QED BY <1>2, <2>1, <2>2 DEF StaleSavers
<1>4. ASSUME NEW d \in Deliveries, NEW r \in Requests, StartBillPhoto(s, r, d)
      PROVE  Settled'
  BY <1>2, <1>4 DEF StartBillPhoto, Exists, StaleSavers, Live, Moving, Dead
<1>5. ASSUME NEW r \in Requests, NEW op \in {"approve", "reject"}, StartReview(s, op, r)
      PROVE  Settled'
  <2>1. request[r].d \in Deliveries /\ delivery[request[r].d].status # "absent"
    BY <1>5 DEF IType, RequestsOK, StartReview, Reviewable, Settled
  <2> QED BY <1>2, <1>5, <2>1 DEF StartReview, StaleSavers
<1>6. ASSUME NEW r \in Requests, StartUndo(s, r)
      PROVE  Settled'
  <2> DEFINE d == request[r].d
             new == [Idle EXCEPT !.op = "undo", !.d = d, !.r = r, !.entry = request[r].entry]
  <2>1. d \in Deliveries /\ delivery[d].status # "absent"
    BY <1>6 DEF IType, RequestsOK, StartUndo, Undoable, Settled
  <2>2. new \in Session /\ new.op = "undo" /\ new.d = d
    BY <1>0, <2>1, ConstantSessions DEF Session, Idle, OpNames, TypeOK, Request
  <2>3. session' = [session EXCEPT ![s] = new] /\ UNCHANGED <<delivery, request, books>>
    BY <1>6 DEF StartUndo
  <2> HIDE DEF new
  <2>4. session'[s] = new
    BY <1>0, <2>3 DEF TypeOK
  <2>5. SessionSettled(s)'
    BY <2>1, <2>2, <2>3, <2>4 DEF SessionSettled, StaleSavers
  <2> QED BY <1>0, <2>1, <2>2, <2>3, <2>5, BeginSettles
<1> QED BY <1>1, <1>3, <1>4, <1>5, <1>6 DEF Start

(* The row a fresh saver's session holds.                                  *)
LEMMA FreshRow ==
  ASSUME IType, Settled, NEW s \in Sessions, session[s].op \in StaleSavers
  PROVE  /\ session[s].d \in Deliveries
         /\ session[s].row = delivery[session[s].d]
         /\ delivery[session[s].d] \in Row
         /\ delivery[session[s].d].status \in Live
         /\ delivery[session[s].d].status # "absent"
         /\ Ops \cap StaleSavers # {}
  BY DEF IType, TypeOK, SessionsOK, Settled, SessionSettled, StaleSavers, Live, Moving, Dead

(* A fresh save on its own leaves the delivery settled.                    *)
LEMMA FreshSaveEffect ==
  ASSUME IType, Settled, NEW s \in Sessions, session[s].op \in StaleSavers,
         NEW mem \in Row, NEW w \in BOOLEAN, mem.status \in Live,
         mem.committed = session[s].row.committed, mem.ledger = session[s].row.ledger,
         NEW base \in {session[s].row, delivery[session[s].d]},
         delivery' = [delivery EXCEPT ![session[s].d] =
                        Saved(mem, base, delivery[session[s].d], w)],
         UNCHANGED books
  PROVE  Effect(session[s].d)
<1> DEFINE d == session[s].d
           row == Saved(mem, delivery[d], delivery[d], w)
<1>1. /\ d \in Deliveries /\ session[s].row = delivery[d] /\ base = delivery[d]
      /\ delivery[d] \in Row /\ delivery[d].status \in Live
  BY FreshRow
<1>2. row \in Row
  BY <1>1, SavedIsRow
<1>3. /\ row.committed = delivery[d].committed /\ row.ledger = delivery[d].ledger
      /\ row.lines = delivery[d].lines /\ row.status \in Live
  BY <1>1, FreshSave
<1>4. delivery' = [delivery EXCEPT ![d] = row]
  BY <1>1
<1> HIDE DEF row
<1>5. row.status # "absent"
  BY <1>3 DEF Live, Moving, Dead
<1>6. RowSettled(d) /\ TypeOK /\ UNCHANGED <<gl1250, invoices>>
  BY <1>1 DEF Settled, IType, books
<1>7. row.ledger = "in_transit" => row.lines
  BY <1>3, <1>6 DEF RowSettled
<1> QED BY <1>1, <1>2, <1>3, <1>4, <1>5, <1>6, <1>7, QuietEffect

LEMMA FreshDispatchEffect ==
  ASSUME IType, Settled, NEW s \in Sessions, session[s].op \in StaleSavers,
         NEW w \in BOOLEAN, NEW base \in {session[s].row, delivery[session[s].d]},
         CommitStockOnAssign(session[s].d, Saved(Assigned(session[s].row), base,
                                                 delivery[session[s].d], w))
  PROVE  Effect(session[s].d)
<1> DEFINE d == session[s].d
           mem == Assigned(delivery[d])
           row == Saved(mem, delivery[d], delivery[d], w)
<1>1. /\ d \in Deliveries /\ session[s].row = delivery[d] /\ base = delivery[d]
      /\ delivery[d] \in Row /\ delivery[d].status \in Live /\ Ops \cap StaleSavers # {}
  BY FreshRow
<1>2. /\ mem \in Row /\ mem.committed = delivery[d].committed
      /\ mem.ledger = delivery[d].ledger /\ mem.status \in Live
  BY <1>1, AssignedIsRow DEF Assigned, Row, Live, Moving
<1>3. CommitStockOnAssign(d, row)
  BY <1>1
<1> HIDE DEF mem
<1>4. row \in Row
  BY <1>1, <1>2, SavedIsRow
<1>5. /\ row.committed = delivery[d].committed /\ row.ledger = delivery[d].ledger
      /\ row.lines = delivery[d].lines /\ row.status \in Live
  BY <1>1, <1>2, FreshSave
<1> HIDE DEF row
<1>6. RowSettled(d) /\ TypeOK
  BY <1>1 DEF Settled, IType
<1>7. row.ledger = "in_transit" => row.lines
  BY <1>5, <1>6 DEF RowSettled
<1> QED BY <1>1, <1>3, <1>4, <1>5, <1>6, <1>7, CommitStockEffect

(* What each operation does to the delivery of its HTTP request.           *)
LEMMA FinishEffect ==
  ASSUME NoStaleSave, IType, Settled, NEW s \in Sessions, Finish(s)
  PROVE  session[s].d \in Deliveries /\ Effect(session[s].d)
<1> DEFINE d == session[s].d
<1>0. d \in Deliveries /\ TypeOK /\ session[s].row \in Row /\ delivery[d] \in Row
  <2>1. TypeOK /\ session[s] \in Session
    BY DEF IType, TypeOK
  <2>2. session[s].op # "idle"
    BY DEF Finish, Create, Assign, Edit, Geocode, ConfirmAnswer, Confirm, Remove,
           BillPhoto, Approve, Reject, Undo, Rollback, Free
  <2>3. d \in Deliveries
    BY <2>2 DEF IType, SessionsOK
  <2> QED BY <2>1, <2>3 DEF TypeOK, Session
<1>s. RowSettled(d) /\ SessionSettled(s)
  BY <1>0 DEF Settled
<1>1. CASE Create(s)
  <2>1. delivery[d].status = "absent" /\ ~delivery[d].committed /\ delivery[d].ledger = "none"
    BY <1>0, <1>1, <1>s DEF Create, SessionSettled, RowSettled, Live, Moving, Dead
  <2>2. ASSUME NEW withRider \in BOOLEAN
        PROVE  LET row == NewRow(withRider) IN
               /\ row \in Row /\ row.committed = delivery[d].committed
               /\ row.ledger = delivery[d].ledger /\ row.status \in Live
               /\ row.ledger # "in_transit" /\ row.status # "absent"
    BY <1>0, <2>1, ConstantRows, ZenonT(40) DEF NewRow, NoRow, Live, Moving, Row
  <2>3. CASE CommitStockOnAssign(d, NewRow(TRUE))
    BY <1>0, <1>s, <2>1, <2>2, <2>3, CommitStockEffect
  <2>4. CASE delivery' = [delivery EXCEPT ![d] = NewRow(FALSE)] /\ UNCHANGED books
    BY <1>0, <1>s, <2>2, <2>4, QuietEffect DEF books
  <2> QED BY <1>0, <1>1, <2>3, <2>4 DEF Create
<1>2. CASE Assign(s)
  BY <1>0, <1>2, FreshDispatchEffect DEF Assign, StaleSavers
<1>3. ASSUME NEW giveRider \in BOOLEAN, Edit(s, giveRider)
      PROVE  Effect(d)
  <2>1. session[s].op \in StaleSavers
    BY <1>3 DEF Edit, StaleSavers
  <2>2. session[s].row.status \in Live
    BY <2>1, FreshRow
  <2>3. CASE giveRider /\ session[s].row.status = "unassigned"
    BY <1>3, <2>1, <2>3, FreshDispatchEffect DEF Edit
  <2>4. CASE ~giveRider
    BY <1>0, <1>3, <2>1, <2>2, <2>4, FreshSaveEffect DEF Edit
  <2>5. CASE giveRider /\ session[s].row.status # "unassigned"
    <3> DEFINE mem == [session[s].row EXCEPT !.rider = TRUE]
    <3>1. /\ mem \in Row /\ mem.status \in Live
          /\ mem.committed = session[s].row.committed /\ mem.ledger = session[s].row.ledger
      BY <1>0, <2>2 DEF Row
    <3>2. \E base \in {session[s].row, delivery[d]} :
            /\ delivery' = [delivery EXCEPT ![d] = Saved(mem, base, delivery[d], TRUE)]
            /\ UNCHANGED books
      BY <1>3, <2>5 DEF Edit
    <3> HIDE DEF mem
    <3> QED BY <2>1, <3>1, <3>2, FreshSaveEffect
  <2> QED BY <2>3, <2>4, <2>5
<1>4. CASE Geocode(s) \/ ConfirmAnswer(s) \/ BillPhoto(s)
  <2>1. session[s].op \in StaleSavers
    BY <1>4 DEF Geocode, ConfirmAnswer, BillPhoto, StaleSavers
  <2>2. session[s].row.status \in Live
    BY <2>1, FreshRow
  <2>3. UNCHANGED books /\ \E w \in BOOLEAN, base \in {session[s].row, delivery[d]} :
          delivery' = [delivery EXCEPT ![d] = Saved(session[s].row, base, delivery[d], w)]
    BY <1>4 DEF Geocode, ConfirmAnswer, BillPhoto
  <2> QED BY <1>0, <2>1, <2>2, <2>3, FreshSaveEffect
<1>5. CASE Confirm(s)
  <2>1. session[s].op \in StaleSavers
    BY <1>5 DEF Confirm, StaleSavers
  <2> DEFINE mem == [session[s].row EXCEPT !.status = "delivered"]
  <2>2. /\ mem \in Row /\ mem.status \in Live
        /\ mem.committed = session[s].row.committed /\ mem.ledger = session[s].row.ledger
    BY <1>0 DEF Row, Live
  <2>3. /\ UNCHANGED books
        /\ \/ UNCHANGED delivery
           \/ \E base \in {session[s].row, delivery[d]} :
                delivery' = [delivery EXCEPT ![d] = Saved(mem, base, delivery[d], TRUE)]
    BY <1>5 DEF Confirm
  <2> HIDE DEF mem
  <2>4. CASE UNCHANGED delivery
    BY <1>0, <1>s, <2>3, <2>4, NoEffect DEF books
  <2>5. CASE \E base \in {session[s].row, delivery[d]} :
               delivery' = [delivery EXCEPT ![d] = Saved(mem, base, delivery[d], TRUE)]
    <3>1. PICK base \in {session[s].row, delivery[d]} :
            delivery' = [delivery EXCEPT ![d] = Saved(mem, base, delivery[d], TRUE)]
      BY <2>5
    <3> QED BY <1>0, <2>1, <2>2, <2>3, <3>1, FreshSaveEffect
  <2> QED BY <2>3, <2>4, <2>5
<1>6. CASE Remove(s)
  <2> DEFINE row == [NoRow EXCEPT !.status = "removed"]
  <2>1. ~delivery[d].committed /\ delivery[d].ledger = "none"
    BY <1>6, <1>s DEF Remove, SessionSettled, RowSettled
  <2>2. /\ row \in Row /\ row.committed = delivery[d].committed
        /\ row.ledger = delivery[d].ledger /\ row.ledger # "in_transit"
        /\ ~row.committed /\ row.status # "absent"
    BY <1>0, <2>1, ConstantRows DEF NoRow, Row
  <2>3. delivery' = [delivery EXCEPT ![d] = row] /\ UNCHANGED books
    BY <1>6 DEF Remove
  <2> HIDE DEF row
  <2> QED BY <1>0, <1>s, <2>2, <2>3, QuietEffect DEF books
<1>7. CASE Approve(s)
  <2>1. CASE session[s].row.committed
    <3>1. request[session[s].r].count \in [Items -> Counts]
      BY <1>7 DEF Approve, IType, SessionsOK, RequestsOK
    <3> QED BY <1>0, <1>7, <1>s, <2>1, <3>1, CommitApprovalEffect DEF Approve
  <2>2. CASE ~session[s].row.committed
    <3>1. /\ session[s].row.ledger = "none" /\ ~delivery[d].committed
          /\ delivery[d].status # "absent"
      BY <1>7, <1>s, <2>2 DEF Approve, SessionSettled
    <3> QED BY <1>0, <1>7, <1>s, <2>2, <3>1, LegacyApprovalEffect DEF Approve
  <2> QED BY <2>1, <2>2
<1>8. CASE Reject(s)
  <2> DEFINE row == [delivery[d] EXCEPT !.status = "returned"]
  <2>1. /\ row \in Row /\ row.status \in Live /\ row.committed = delivery[d].committed
        /\ row.ledger = delivery[d].ledger /\ row.lines = delivery[d].lines
    BY <1>0 DEF Row, Live, Dead
  <2>2. ReleaseOnReject(d, row) \/ UNCHANGED <<delivery, books>>
    BY <1>8 DEF Reject
  <2> HIDE DEF row
  <2> QED BY <1>0, <1>s, <2>1, <2>2, ReleaseEffect, NoEffect DEF books
<1>9. CASE Undo(s) \/ Rollback(s)
  <2>1. UNCHANGED <<delivery, gl1250, invoices>>
    BY <1>9 DEF Undo, Rollback, books
  <2> QED BY <1>0, <1>s, <2>1, NoEffect
<1> QED BY <1>0, <1>1, <1>2, <1>3, <1>4, <1>5, <1>6, <1>7, <1>8, <1>9 DEF Finish

(* Only a new request names a delivery, and one that exists.               *)
LEMMA FinishKeepsRequests ==
  ASSUME NoStaleSave, IType, Settled, NEW s \in Sessions, Finish(s)
  PROVE  RequestsKept
<1>1. CASE BillPhoto(s)
  <2>1. /\ session[s].d \in Deliveries /\ delivery[session[s].d].status # "absent"
        /\ session[s].r \in Requests
    BY <1>1, FreshRow DEF BillPhoto, StaleSavers, IType, SessionsOK
  <2>2. PICK count \in [Items -> Counts] :
          request' = [request EXCEPT ![session[s].r] = Pending(session[s].d, count)]
    BY <1>1 DEF BillPhoto
  <2> QED BY <2>1, <2>2 DEF RequestsKept, IType, TypeOK, Pending
<1>2. CASE Approve(s) \/ Reject(s) \/ Undo(s)
  <2>1. PICK r \in Requests : r = session[s].r /\ request[r].status # "absent"
    BY <1>2 DEF Approve, Reject, Undo, IType, SessionsOK
  <2>2. PICK status, entry : SaveRequest(s, status, entry)
    BY <1>2 DEF Approve, Reject, Undo
  <2>3. PICK gone \in BOOLEAN :
          request' = [request EXCEPT ![r].status = IF gone THEN @ ELSE status,
                                     ![r].entry = IF gone THEN @ ELSE entry]
    BY <2>1, <2>2 DEF SaveRequest
  <2> DEFINE new == [request[r] EXCEPT !.status = IF gone THEN @ ELSE status,
                                       !.entry = IF gone THEN @ ELSE entry]
  <2>4. new.d = request[r].d
    BY DEF IType, TypeOK, Request
  <2>5. request' = [request EXCEPT ![r] = new]
    BY <2>3 DEF IType, TypeOK, Request
  <2> HIDE DEF new
  <2> QED BY <2>1, <2>4, <2>5 DEF RequestsKept, IType, TypeOK
<1>3. CASE Remove(s)
  <2>1. \A q \in Requests : request'[q] = IF request[q].d = session[s].d
                                          THEN [request[q] EXCEPT !.status = "deleted"]
                                          ELSE request[q]
    BY <1>3 DEF Remove
  <2>2. \A q \in Requests : request[q].d = session[s].d => request[q].status # "absent"
    BY <1>3, NoneAssumption DEF Remove, IType, RequestsOK, SessionsOK
  <2> QED BY <2>1, <2>2, ZenonT(40) DEF RequestsKept, IType, TypeOK, Request
<1>4. CASE UNCHANGED request
  BY <1>4 DEF RequestsKept
<1> QED BY <1>1, <1>2, <1>3, <1>4
        DEF Finish, Create, Assign, Edit, Geocode, ConfirmAnswer, Confirm, Rollback

LEMMA FinishSettles ==
  ASSUME NoStaleSave, IType, Settled, NEW s \in Sessions, Finish(s)
  PROVE  Settled'
<1> DEFINE d == session[s].d
<1>1. d \in Deliveries /\ Effect(d) /\ RequestsKept /\ IType'
  BY FinishEffect, FinishKeepsRequests, FinishType
<1>2. CASE ConfirmAnswer(s)
  <2> DEFINE new == [session[s] EXCEPT !.answered = TRUE]
  <2>0. session' = [session EXCEPT ![s] = new] /\ session[s].op = "confirm"
    BY <1>2 DEF ConfirmAnswer, IType, TypeOK, Session
  <2>1. /\ session' \in [Sessions -> Session] /\ session[s].op = "confirm"
        /\ session'[s].op = session[s].op /\ session'[s].d = session[s].d
        /\ session'[s].row = session[s].row
        /\ \A t \in Sessions \ {s} : session'[t] = session[t]
    BY <1>1, <2>0 DEF IType, TypeOK, Session
  <2> HIDE DEF new
  <2>2. /\ session[s].row = delivery[d] /\ delivery[d] \in Row /\ delivery[d].status \in Live
    BY <2>1, FreshRow DEF StaleSavers
  <2>3. delivery' = [delivery EXCEPT ![d] = Saved(delivery[d], delivery[d], delivery[d], TRUE)]
    BY <1>2, <2>2 DEF ConfirmAnswer
  <2>4. Saved(delivery[d], delivery[d], delivery[d], TRUE) = delivery[d]
    BY <2>2 DEF Saved, Row
  <2>5. delivery'[d] = delivery[d]
    BY <1>1, <2>3, <2>4 DEF IType, TypeOK
  <2>6. SessionSettled(s)'
    BY <2>1, <2>2, <2>5 DEF SessionSettled, StaleSavers
  <2>7. \A t \in Sessions \ {s} : session[t].op = "create" => session[t].d # d
    BY <1>1 DEF Settled, SessionSettled
  <2> QED BY <1>1, <2>1, <2>6, <2>7, EffectSettles
<1>3. CASE End(s)
  BY <1>1, <1>3, EndSettles
<1> QED BY <1>2, <1>3 DEF Finish, Create, Assign, Edit, Geocode, Confirm, Remove, BillPhoto,
                         Approve, Reject, Undo, Rollback

LEMMA AtOnceEffect ==
  ASSUME IType, Settled, NEW s \in Sessions, AtOnce(s)
  PROVE  \E d \in Deliveries :
           Effect(d) /\ RequestsKept /\ UNCHANGED session /\ delivery[d].status # "absent"
<1>1. ASSUME NEW d \in Deliveries, NEW to \in Live, UpdateStatus(s, d, to)
      PROVE  /\ Effect(d) /\ RequestsKept /\ UNCHANGED session
             /\ delivery[d].status # "absent"
  <2> DEFINE row == [delivery[d] EXCEPT !.status = to]
  <2>1. /\ row \in Row /\ row.status \in Live /\ row.committed = delivery[d].committed
        /\ row.ledger = delivery[d].ledger /\ row.lines = delivery[d].lines
    BY DEF IType, TypeOK, Row
  <2>2. ReleaseOnReject(d, row) \/ (delivery' = [delivery EXCEPT ![d] = row] /\ UNCHANGED books)
    BY <1>1 DEF UpdateStatus
  <2> HIDE DEF row
  <2>3. TypeOK /\ RowSettled(d)
    BY DEF IType, Settled
  <2>4. row.status # "absent" /\ (row.ledger = "in_transit" => row.lines)
    BY <2>1, <2>3 DEF Live, Moving, Dead, RowSettled
  <2>5. Effect(d)
    BY <2>1, <2>2, <2>3, <2>4, ReleaseEffect, QuietEffect DEF books
  <2>6. delivery[d].status # "absent"
    BY <1>1 DEF UpdateStatus, Exists, Live, Moving, Dead
  <2> QED BY <1>1, <2>5, <2>6 DEF UpdateStatus, RequestsKept
<1>2. ASSUME NEW d \in Deliveries, NEW r \in Requests, CreateRequest(s, r, d)
      PROVE  /\ Effect(d) /\ RequestsKept /\ UNCHANGED session
             /\ delivery[d].status # "absent"
  <2>1. PICK count \in [Items -> Counts] :
          request' = [request EXCEPT ![r] = Pending(d, count)]
    BY <1>2 DEF CreateRequest
  <2>2. delivery[d].status # "absent"
    BY <1>2 DEF CreateRequest
  <2>3. RequestsKept
    BY <2>1, <2>2 DEF RequestsKept, IType, TypeOK, Pending
  <2>4. Effect(d)
    BY <1>2, NoEffect DEF CreateRequest, IType, Settled, books
  <2> QED BY <1>2, <2>2, <2>3, <2>4 DEF CreateRequest
<1> QED BY <1>1, <1>2 DEF AtOnce

LEMMA AtOnceSettles ==
  ASSUME NoStaleSave, IType, Settled, NEW s \in Sessions, AtOnce(s)
  PROVE  Settled'
<1>1. PICK d \in Deliveries :
        Effect(d) /\ RequestsKept /\ UNCHANGED session /\ delivery[d].status # "absent"
  BY AtOnceEffect
<1>2. IType' /\ session[s].op = "idle"
  BY AtOnceType DEF AtOnce, UpdateStatus, CreateRequest, Free
<1>3. SessionSettled(s)'
  BY <1>1, <1>2 DEF SessionSettled, StaleSavers
<1>4. \A t \in Sessions \ {s} :
        session[t].op = "create" => session[t].d # d /\ session[t].d # session'[s].d
  BY <1>1 DEF Settled, SessionSettled
<1> QED BY <1>1, <1>2, <1>3, <1>4, EffectSettles

LEMMA InitSettled == Init => Settled
<1> SUFFICES ASSUME Init PROVE Settled
  OBVIOUS
<1>1. \A d \in Deliveries : delivery[d] = NoRow /\ gl1250[d] = Zero /\ invoices[d] = 0
  BY DEF Init
<1>2. \A d \in Deliveries : RowSettled(d)
  BY <1>1 DEF RowSettled, NoRow
<1>3. \A s \in Sessions : SessionSettled(s)
  BY DEF Init, SessionSettled, Idle, StaleSavers
<1>4. \A r \in Requests : request[r].status = "absent"
  BY DEF Init, NoRequest
<1> QED BY <1>2, <1>3, <1>4 DEF Settled

LEMMA NextSettles ==
  ASSUME NoStaleSave
  PROVE  IType /\ Settled /\ [Next]_vars => Settled'
<1>1. ASSUME Settled, UNCHANGED vars
      PROVE  Settled'
  BY <1>1 DEF Settled, RowSettled, SessionSettled, vars
<1> QED BY <1>1, StartSettles, FinishSettles, AtOnceSettles DEF Next

-----------------------------------------------------------------------------
(* A delivery holds in Goods in Transit exactly its lines while its ledger  *)
(* status says in transit, and nothing before and after: it is dispatched   *)
(* once and relieved once.                                                  *)
THEOREM TransitExact ==
  ASSUME NoStaleSave
  PROVE  Spec => []InTransitExactly
<1>1. Settled => InTransitExactly
  BY DEF Settled, RowSettled, InTransitExactly
<1> QED BY <1>1, InitType, NextType, InitSettled, NextSettles, PTL DEF Spec

(* A delivery is sold at most once, whoever reviews its requests.          *)
THEOREM SoldOnce ==
  ASSUME NoStaleSave
  PROVE  Spec => []SoldAtMostOnce
<1>1. Settled => SoldAtMostOnce
  BY DEF Settled, RowSettled, SoldAtMostOnce
<1> QED BY <1>1, InitType, NextType, InitSettled, NextSettles, PTL DEF Spec

(* The ledger status of a delivery only goes forward, and a delivery that   *)
(* has been sold or returned stays so.                                     *)
THEOREM ForwardOnly ==
  ASSUME NoStaleSave
  PROVE  Spec => LedgerNeverGoesBack
<1> DEFINE Onward == \A d \in Deliveries : Forward(d)
<1>1. IType /\ Settled /\ [Next]_vars => Onward
  <2> SUFFICES ASSUME IType, Settled, [Next]_vars
               PROVE  Onward
    OBVIOUS
  <2>1. ASSUME NEW d \in Deliveries, Effect(d)
        PROVE  Onward
    BY <2>1 DEF Effect, Forward
  <2>2. ASSUME UNCHANGED delivery
        PROVE  Onward
    BY <2>2 DEF Forward
  <2>3. ASSUME NEW s \in Sessions, Start(s)
        PROVE  UNCHANGED delivery
    BY <2>3 DEF Start, StartCreate, StartAssign, StartAutoAssign, StartEdit, StartGeocode,
                StartConfirm, StartRemove, StartBillPhoto, StartReview, StartUndo, Begin
  <2> QED BY <2>1, <2>2, <2>3, FinishEffect, AtOnceEffect DEF Next, vars
<1>2. Onward => [\A d \in Deliveries :
                 /\ delivery[d].ledger \in {"committed", "returned"} =>
                      delivery'[d].ledger = delivery[d].ledger
                 /\ delivery[d].ledger = "in_transit" => delivery'[d].ledger # "none"]_vars
  BY DEF Forward
<1> QED BY <1>1, <1>2, InitType, NextType, InitSettled, NextSettles, PTL
        DEF Spec, LedgerNeverGoesBack

(* The rows and accounts implement the consignment: the ledger status, the  *)
(* shelf, Goods in Transit and cost of goods sold of every delivery move    *)
(* together, and no unit is gained or lost between them.  The undo of an    *)
(* approval is left out: it stops the shelf at zero.                        *)
THEOREM Refinement ==
  ASSUME NoStaleSave, "undo" \notin Ops
  PROVE  Spec => ImplementsConsignment
<1> DEFINE Inv == IType /\ Settled /\ StockNeverNegative
<1>1. Init => Inv /\ Consignment!Init
  <2>1. Init => StockNeverNegative
    BY OpeningAssumption DEF Init, StockNeverNegative
  <2>2. Init => Consignment!Init
    BY DEF Init, NoRow, Zero, Consignment!Init, Consignment!Nothing
  <2> QED BY <2>1, <2>2, InitType, InitSettled
<1>2. Inv /\ [Next]_vars => Inv' /\ [Consignment!Next]_Consignment!vars
  <2> SUFFICES ASSUME Inv, [Next]_vars
               PROVE  Inv' /\ Implemented
    BY DEF Implemented
  <2>1. IType' /\ Settled'
    BY NextType, NextSettles
  <2>2. CASE UNCHANGED vars
    BY <2>1, <2>2 DEF vars, Implemented, Consignment!vars, StockNeverNegative
  <2>3. ASSUME NEW s \in Sessions, Start(s) \/ Finish(s) \/ AtOnce(s)
        PROVE  StockNeverNegative' /\ Implemented
    <3>1. ~Undo(s)
      BY DEF Undo, IType, SessionsOK
    <3>2. ShelfMoves
      BY <2>3, <3>1, StepMoves
    <3>3. CASE Start(s)
      <4>1. UNCHANGED <<delivery, books>>
        BY <3>3 DEF Start, StartCreate, StartAssign, StartAutoAssign, StartEdit,
                    StartGeocode, StartConfirm, StartRemove, StartBillPhoto, StartReview,
                    StartUndo, Begin
      <4> QED BY <3>2, <4>1 DEF books, Implemented, Consignment!vars, ShelfMoves,
                                StockNeverNegative
    <3>4. CASE Finish(s) \/ AtOnce(s)
      BY <3>2, <3>4, FinishEffect, AtOnceEffect DEF Effect, ShelfMoves, StockNeverNegative
    <3> QED BY <2>3, <3>3, <3>4
  <2> QED BY <2>1, <2>2, <2>3 DEF Next
<1> QED BY <1>1, <1>2, PTL DEF Spec, ImplementsConsignment, Consignment!Spec

-----------------------------------------------------------------------------
(* Inventory: types *)

MadeRow == [made : {TRUE}, qty : Nat, unit : Int]
StockRow == {NoItem} \cup MadeRow
DayRow == [n : Nat, qty : Int, value : Int]
PaperRow == {NoDocument} \cup
  [kind : Kinds, item : Goods, day : Days, qty : Int, value : Int, live : BOOLEAN]
FilingRow == {NoFiling} \cup
  [status : {"filed", "posted"}, item : Goods, to : Nat, saw : Nat, count : BOOLEAN, day : Days]
StockDb == [item : [Goods -> StockRow], moved : [Goods -> [Days -> DayRow]],
            arrived : [Goods -> SUBSET Days], gl : [Days -> Int],
            doc : [Documents -> PaperRow], filed : [Filings -> FilingRow]]

EditCall == [op : {"edit"}, i : Goods, c : Costs, seen : MadeRow]
TransferCall == [op : {"transfer"}, i : Goods, day : Days, seen : MadeRow]
ApproveCall == [op : {"approve"}, f : Filings, to : Nat]
CountCall == [op : {"count"}, i : Goods, q : Nat, day : Days, seen : MadeRow]
SellCall == [op : {"sell"}, i : Goods, q : Quantities, day : Days, seen : MadeRow]
RestockCall == [op : {"restock"}, i : Goods, q : Quantities, c : Nat, day : Days, seen : MadeRow]
VoidCall == [op : {"void"}, k : Documents, seen : MadeRow]
StockCalls == {[op |-> "idle"]} \cup EditCall \cup TransferCall \cup ApproveCall \cup CountCall
              \cup SellCall \cup RestockCall \cup VoidCall

(* What a request found when it was asked still holds of what it read, and  *)
(* of the document it undoes, whose figures are frozen.                     *)
Found(d, c) ==
  /\ c.op = "edit" /\ c.c # c.seen.unit => c.seen.qty <= 0
  /\ c.op = "sell" => c.q <= c.seen.qty
  /\ c.op = "restock" => WholeAverage(c.seen, c.q, c.q * c.c)
  /\ c.op = "approve" => d.filed[c.f].status # "none"
  /\ c.op = "void" =>
       /\ d.doc[c.k].kind \in {"sold", "returned", "restocked"}
       /\ c.seen.qty - d.doc[c.k].qty >= 0
       /\ LeavesNothing(c.seen, -d.doc[c.k].qty, -d.doc[c.k].value)
Papers(d) ==
  /\ \A k \in Documents : d.doc[k].kind # "none" =>
       /\ d.item[d.doc[k].item].made
       /\ d.doc[k].kind = "returned" => d.doc[k].qty <= 0
  /\ \A f \in Filings : d.filed[f].status # "none" => d.item[d.filed[f].item].made

StockTyped ==
  /\ db \in StockDb
  /\ Papers(db)
  /\ req \in [Clients -> StockCalls]
  /\ \A r \in Clients : Found(db, req[r])
  /\ writes \in Nat
  /\ apart \in BOOLEAN

-----------------------------------------------------------------------------
(* Rows of items *)

LEMMA TwoParts ==
  \A a, b, c \in Int : (a + b) * c = a * c + b * c /\ (a - b) * c = a * c - b * c
                      /\ a * c \in Int /\ (-b) * c = -(b * c)
  OBVIOUS

LEMMA WholeShare ==
  \A n \in Nat \ {0}, w \in Int : w % n = 0 => n * (w \div n) = w
  OBVIOUS

LEMMA ShareIsInt ==
  \A n \in Nat \ {0}, w \in Int : w \div n \in Int
  OBVIOUS

LEMMA RowFacts ==
  ASSUME NEW row \in StockRow
  PROVE  /\ row.qty \in Nat /\ row.unit \in Int /\ row.made \in BOOLEAN
         /\ row.made <=> row \in MadeRow
         /\ ~row.made => row.qty = 0
         /\ Worth(row) \in Int
         /\ \A q \in Int : AtAverage(row, q) \in Int
<1>a. row = NoItem \/ row \in MadeRow
  BY DEF StockRow
<1>b. CASE row = NoItem
  BY <1>b DEF NoItem, MadeRow, Worth, AtAverage
<1>c. CASE row \in MadeRow
  <2>1. /\ row.qty \in Nat /\ row.unit \in Int /\ row.made = TRUE
    BY <1>c DEF MadeRow
  <2>3. Worth(row) \in Int /\ \A q \in Int : AtAverage(row, q) \in Int
    <3>1. \A a, b \in Int : a * b \in Int
      OBVIOUS
    <3> QED BY <2>1, <3>1 DEF Worth, AtAverage
  <2> QED BY <1>c, <2>1, <2>3
<1> QED BY <1>a, <1>b, <1>c

LEMMA ByAverage ==
  ASSUME NEW row \in MadeRow, NEW to \in Nat
  PROVE  LET now == [row EXCEPT !.qty = to]
         IN /\ now \in MadeRow /\ now.qty = to
            /\ Worth(now) = Worth(row) + AtAverage(row, to - row.qty)
<1> DEFINE now == [row EXCEPT !.qty = to]
<1>1. now \in MadeRow /\ now.qty = to /\ now.unit = row.unit
  BY DEF MadeRow
<1>2. row.qty \in Int /\ row.unit \in Int /\ to \in Int /\ to - row.qty \in Int
  BY DEF MadeRow
<1>3. to * row.unit = row.qty * row.unit + (to - row.qty) * row.unit
  BY <1>2, TwoParts
<1> HIDE DEF now
<1>4. Worth(now) = Worth(row) + AtAverage(row, to - row.qty)
  BY <1>1, <1>3 DEF Worth, AtAverage
<1> QED BY <1>1, <1>4 DEF now

LEMMA AveragedIsRow ==
  ASSUME NEW row \in MadeRow, NEW q \in Int, NEW v \in Int, NEW u \in Int, row.qty + q >= 0
  PROVE  Averaged(row, q, v, u) \in MadeRow /\ Averaged(row, q, v, u).qty = row.qty + q
<1> DEFINE n == row.qty + q
           w == Worth(row) + v
           unit == IF n > 0 THEN w \div n ELSE u
<1>0. row \in StockRow
  BY DEF StockRow
<1>1. n \in Nat /\ w \in Int
  BY <1>0, RowFacts
<1>2. unit \in Int
  <2> HIDE DEF n, w
  <2> QED BY <1>1, ShareIsInt
<1>3. Averaged(row, q, v, u) = [row EXCEPT !.qty = n, !.unit = unit]
  BY DEF Averaged
<1> HIDE DEF n, unit
<1> QED BY <1>1, <1>2, <1>3 DEF MadeRow, n

LEMMA Averages ==
  ASSUME NEW row \in MadeRow, NEW q \in Int, NEW v \in Int, NEW u \in Int,
         row.qty + q >= 0, WholeAverage(row, q, v),
         row.qty + q = 0 => Worth(row) + v = 0
  PROVE  LET now == Averaged(row, q, v, u)
         IN /\ now \in MadeRow /\ now.qty = row.qty + q
            /\ Worth(now) = Worth(row) + v
<1> DEFINE now == Averaged(row, q, v, u)
           n == row.qty + q
           w == Worth(row) + v
           share == w \div n
<1>0. row \in StockRow
  BY DEF StockRow
<1>1. n \in Nat /\ w \in Int
  BY <1>0, RowFacts
<1>2. n # 0 => share \in Int /\ n * share = w
  <2>1. n # 0 => w % n = 0
    BY <1>1 DEF WholeAverage
  <2> HIDE DEF n, w
  <2> QED BY <1>1, <2>1, WholeShare, ShareIsInt
<1> DEFINE unit == IF n > 0 THEN share ELSE u
<1>3. now = [row EXCEPT !.qty = n, !.unit = unit]
  BY DEF Averaged
<1>4. unit \in Int
  <2> HIDE DEF n, share
  <2> QED BY <1>1, <1>2
<1>5. n * unit = w
  <2>1. n = 0 => w = 0
    OBVIOUS
  <2>2. n = 0 => n * unit = 0
    <3> HIDE DEF n, unit
    <3> QED BY <1>4
  <2> HIDE DEF n, share, w
  <2> QED BY <1>1, <1>2, <2>1, <2>2
<1> HIDE DEF n, unit, now
<1>6. now \in MadeRow /\ now.qty = n /\ now.unit = unit
  BY <1>1, <1>3, <1>4 DEF MadeRow
<1>7. Worth(now) = w
  BY <1>5, <1>6 DEF Worth
<1> QED BY <1>6, <1>7 DEF now, n

-----------------------------------------------------------------------------
(* What an operation does to the books: item i becomes row, and a movement  *)
(* of q units worth v is written on day and entered on entry.               *)

Trade(d, x, i, row, day, entry, q, v) ==
  /\ x.item = [d.item EXCEPT ![i] = row]
  /\ \A j \in Goods, t \in Days :
       /\ x.moved[j][t].qty = d.moved[j][t].qty + (IF j = i /\ t = day THEN q ELSE 0)
       /\ x.moved[j][t].value = d.moved[j][t].value + (IF j = i /\ t = day THEN v ELSE 0)
  /\ \A t \in Days : x.gl[t] = d.gl[t] + (IF t = entry THEN v ELSE 0)
Fair(d, x) ==
  \E i \in Goods, row \in StockRow, day, entry \in Days, q, v \in Int :
    /\ Trade(d, x, i, row, day, entry, q, v)
    /\ row.qty = d.item[i].qty + q
    /\ Worth(row) = Worth(d.item[i]) + v

(* Documents, once written, keep their figures, and items are not unmade.   *)
Frozen(d, x) ==
  /\ \A i \in Goods : d.item[i].made => x.item[i].made
  /\ \A k \in Documents : d.doc[k].kind # "none" =>
       /\ x.doc[k].kind = d.doc[k].kind /\ x.doc[k].item = d.doc[k].item
       /\ x.doc[k].qty = d.doc[k].qty /\ x.doc[k].value = d.doc[k].value
  /\ \A f \in Filings : d.filed[f].status # "none" => x.filed[f].status # "none"
Lawful(d, x) == x \in StockDb /\ Papers(x) /\ Frozen(d, x)

(* Nothing filed is posted.                                                 *)
Unposted(d, x) ==
  \A f \in Filings : d.filed[f].status = "filed" => x.filed[f] = d.filed[f]

LEMMA DbParts ==
  ASSUME NEW d \in StockDb
  PROVE  /\ d.item \in [Goods -> StockRow] /\ d.moved \in [Goods -> [Days -> DayRow]]
         /\ d.arrived \in [Goods -> SUBSET Days] /\ d.gl \in [Days -> Int]
         /\ d.doc \in [Documents -> PaperRow] /\ d.filed \in [Filings -> FilingRow]
         /\ \A i \in Goods : d.item[i] \in StockRow
         /\ \A k \in Documents : d.doc[k] \in PaperRow
         /\ \A f \in Filings : d.filed[f] \in FilingRow
  BY DEF StockDb

LEMMA StoredDb ==
  ASSUME NEW d \in StockDb, NEW i \in Goods, NEW row \in StockRow
  PROVE  LET x == Stored(d, i, row)
         IN /\ x \in StockDb /\ x.item = [d.item EXCEPT ![i] = row]
            /\ x.moved = d.moved /\ x.arrived = d.arrived /\ x.gl = d.gl
            /\ x.doc = d.doc /\ x.filed = d.filed
  BY DEF StockDb, Stored

LEMMA ArrivedDb ==
  ASSUME NEW d \in StockDb, NEW i \in Goods, NEW day \in Days
  PROVE  LET x == Arrived(d, i, day)
         IN /\ x \in StockDb /\ x.item = d.item /\ x.moved = d.moved /\ x.gl = d.gl
            /\ x.doc = d.doc /\ x.filed = d.filed
  BY DEF StockDb, Arrived

LEMMA NotedDb ==
  ASSUME NEW d \in StockDb, NEW k \in Documents, NEW kind \in Kinds, NEW i \in Goods,
         NEW day \in Days, NEW q \in Int, NEW v \in Int
  PROVE  LET x == Noted(d, k, kind, i, day, q, v)
         IN /\ x \in StockDb /\ x.item = d.item /\ x.moved = d.moved /\ x.gl = d.gl
            /\ x.doc = [d.doc EXCEPT ![k] = [kind |-> kind, item |-> i, day |-> day, qty |-> q,
                                             value |-> v, live |-> TRUE]]
            /\ x.filed = d.filed
<1> DEFINE paper == [kind |-> kind, item |-> i, day |-> day, qty |-> q, value |-> v, live |-> TRUE]
<1>1. paper \in PaperRow
  BY DEF PaperRow
<1>2. Noted(d, k, kind, i, day, q, v) = [d EXCEPT !.doc = [d.doc EXCEPT ![k] = paper]]
  BY DEF Noted, StockDb
<1> HIDE DEF paper
<1>3. [d.doc EXCEPT ![k] = paper] \in [Documents -> PaperRow]
  BY <1>1, DbParts
<1> DEFINE docs == [d.doc EXCEPT ![k] = paper]
<1>4. Noted(d, k, kind, i, day, q, v) = [d EXCEPT !.doc = docs] /\ docs \in [Documents -> PaperRow]
  BY <1>2, <1>3
<1> HIDE DEF docs
<1>5. LET x == [d EXCEPT !.doc = docs]
      IN x \in StockDb /\ x.item = d.item /\ x.moved = d.moved /\ x.gl = d.gl /\ x.doc = docs
         /\ x.filed = d.filed
  BY <1>4 DEF StockDb
<1> QED BY <1>4, <1>5 DEF docs, paper

LEMMA MovedDb ==
  ASSUME NEW d \in StockDb, NEW i \in Goods, NEW row \in StockRow, NEW day \in Days,
         NEW entry \in Days, NEW q \in Int, NEW v \in Int
  PROVE  LET x == Moved(Stored(d, i, row), i, day, entry, q, v)
         IN /\ x \in StockDb /\ Trade(d, x, i, row, day, entry, q, v)
            /\ x.item = [d.item EXCEPT ![i] = row] /\ x.doc = d.doc /\ x.filed = d.filed
<1> DEFINE s == Stored(d, i, row)
           was == s.moved[i][day]
           move == [n |-> was.n + 1, qty |-> was.qty + q, value |-> was.value + v]
           sum == s.gl[entry] + v
           moves == [s.moved EXCEPT ![i] = [s.moved[i] EXCEPT ![day] = move]]
           entries == [s.gl EXCEPT ![entry] = sum]
           x == Moved(s, i, day, entry, q, v)
<1>1. /\ s \in StockDb /\ s.item = [d.item EXCEPT ![i] = row]
      /\ s.moved = d.moved /\ s.gl = d.gl /\ s.doc = d.doc /\ s.filed = d.filed
  BY StoredDb
<1> HIDE DEF s
<1>2. x = [s EXCEPT !.moved = moves, !.gl = entries]
  BY <1>1 DEF Moved, StockDb
<1>3. move \in DayRow /\ sum \in Int
  BY <1>1 DEF StockDb, DayRow
<1>4. move.qty = was.qty + q /\ move.value = was.value + v
  OBVIOUS
<1> HIDE DEF move, sum
<1>5. moves \in [Goods -> [Days -> DayRow]] /\ entries \in [Days -> Int]
  BY <1>1, <1>3 DEF StockDb
<1>6. /\ \A j \in Goods, t \in Days : moves[j][t] = IF j = i /\ t = day THEN move ELSE d.moved[j][t]
      /\ \A t \in Days : entries[t] = IF t = entry THEN sum ELSE d.gl[t]
  BY <1>1 DEF StockDb
<1>7. sum = d.gl[entry] + v /\ was = d.moved[i][day]
  BY <1>1 DEF sum
<1> HIDE DEF moves, entries, x, was
<1>8. x \in StockDb /\ x.item = s.item /\ x.moved = moves /\ x.gl = entries /\ x.doc = s.doc
      /\ x.filed = s.filed
  BY <1>1, <1>2, <1>5 DEF StockDb
<1>9. \A j \in Goods, t \in Days : d.moved[j][t].qty \in Int /\ d.moved[j][t].value \in Int
  BY DEF StockDb, DayRow
<1>10. /\ \A j \in Goods, t \in Days :
            /\ moves[j][t].qty = d.moved[j][t].qty + (IF j = i /\ t = day THEN q ELSE 0)
            /\ moves[j][t].value = d.moved[j][t].value + (IF j = i /\ t = day THEN v ELSE 0)
       /\ \A t \in Days : entries[t] = d.gl[t] + (IF t = entry THEN v ELSE 0)
  BY <1>4, <1>6, <1>7, <1>9, DbParts
<1> QED BY <1>1, <1>8, <1>10 DEF Trade, x, s

-----------------------------------------------------------------------------
(* The inductive invariant of what the stock is worth: an item is what its  *)
(* movements add up to, and the entries on 1200 what the items are worth.   *)

Units(d, i) == Sum([t \in Days |-> d.moved[i][t].qty], Days)
Value(d, i) == Sum([t \in Days |-> d.moved[i][t].value], Days)
Booked(d) == Sum(d.gl, Days)
StockKept(d) ==
  /\ \A i \in Goods : d.item[i].qty = Units(d, i) /\ Worth(d.item[i]) = Value(d, i)
  /\ Booked(d) = Snapshot(d)

LEMMA DaysFinite == IsFiniteSet(Days)
  BY InventoryAssumption, FS_Interval DEF Days

LEMMA UnitsMoved ==
  ASSUME NEW d \in StockDb, NEW x \in StockDb, NEW i \in Goods, NEW row \in StockRow,
         NEW day \in Days, NEW entry \in Days, NEW q \in Int, NEW v \in Int,
         Trade(d, x, i, row, day, entry, q, v)
  PROVE  /\ Units(x, i) = Units(d, i) + q /\ Value(x, i) = Value(d, i) + v
         /\ \A j \in Goods \ {i} : Units(x, j) = Units(d, j) /\ Value(x, j) = Value(d, j)
         /\ \A j \in Goods : Units(d, j) \in Int /\ Value(d, j) \in Int
<1> DEFINE qs(z, j) == [t \in Days |-> z.moved[j][t].qty]
           vs(z, j) == [t \in Days |-> z.moved[j][t].value]
<1>1. \A j \in Goods, t \in Days :
        /\ d.moved[j][t].qty \in Int /\ d.moved[j][t].value \in Int
        /\ x.moved[j][t].qty \in Int /\ x.moved[j][t].value \in Int
  BY DEF StockDb, DayRow
<1>2. Units(x, i) = Units(d, i) + q
  <2> DEFINE f == qs(d, i)
             g == qs(x, i)
  <2>1. \A t \in Days : f[t] \in Int /\ g[t] \in Int
    BY <1>1
  <2>2. g[day] = f[day] + q /\ \A t \in Days \ {day} : g[t] = f[t]
    BY <1>1 DEF Trade
  <2> HIDE DEF f, g
  <2>3. Sum(g, Days) = Sum(f, Days) + g[day] - f[day]
    BY <2>1, <2>2, DaysFinite, SumChange
  <2>4. Sum(f, Days) \in Int
    BY <2>1, DaysFinite, SumInt
  <2>5. Sum(g, Days) = Sum(f, Days) + q
    BY <2>1, <2>2, <2>3, <2>4
  <2> QED BY <2>5 DEF Units, f, g
<1>3. Value(x, i) = Value(d, i) + v
  <2> DEFINE f == vs(d, i)
             g == vs(x, i)
  <2>1. \A t \in Days : f[t] \in Int /\ g[t] \in Int
    BY <1>1
  <2>2. g[day] = f[day] + v /\ \A t \in Days \ {day} : g[t] = f[t]
    BY <1>1 DEF Trade
  <2> HIDE DEF f, g
  <2>3. Sum(g, Days) = Sum(f, Days) + g[day] - f[day]
    BY <2>1, <2>2, DaysFinite, SumChange
  <2>4. Sum(f, Days) \in Int
    BY <2>1, DaysFinite, SumInt
  <2>5. Sum(g, Days) = Sum(f, Days) + v
    BY <2>1, <2>2, <2>3, <2>4
  <2> QED BY <2>5 DEF Value, f, g
<1>4. ASSUME NEW j \in Goods \ {i}
      PROVE  Units(x, j) = Units(d, j) /\ Value(x, j) = Value(d, j)
  <2>1. \A t \in Days : x.moved[j][t].qty = d.moved[j][t].qty
                        /\ x.moved[j][t].value = d.moved[j][t].value
    BY <1>1 DEF Trade
  <2>2. qs(x, j) = qs(d, j) /\ vs(x, j) = vs(d, j)
    BY <2>1
  <2> QED BY <2>2 DEF Units, Value
<1>5. ASSUME NEW j \in Goods
      PROVE  Units(d, j) \in Int /\ Value(d, j) \in Int
  <2> DEFINE f == qs(d, j)
             g == vs(d, j)
  <2>1. \A t \in Days : f[t] \in Int /\ g[t] \in Int
    BY <1>1
  <2> HIDE DEF f, g
  <2>2. Sum(f, Days) \in Int /\ Sum(g, Days) \in Int
    BY <2>1, DaysFinite, SumInt
  <2> QED BY <2>2 DEF Units, Value, f, g
<1> QED BY <1>2, <1>3, <1>4, <1>5

LEMMA BookedMoved ==
  ASSUME NEW d \in StockDb, NEW x \in StockDb, NEW i \in Goods, NEW row \in StockRow,
         NEW day \in Days, NEW entry \in Days, NEW q \in Int, NEW v \in Int,
         Trade(d, x, i, row, day, entry, q, v)
  PROVE  Booked(x) = Booked(d) + v
<1> DEFINE f == d.gl
           g == x.gl
<1>1. \A t \in Days : f[t] \in Int /\ g[t] \in Int
  BY DEF StockDb
<1>2. g[entry] = f[entry] + v /\ \A t \in Days \ {entry} : g[t] = f[t]
  BY <1>1 DEF Trade
<1> HIDE DEF f, g
<1>3. Sum(g, Days) = Sum(f, Days) + g[entry] - f[entry]
  BY <1>1, <1>2, DaysFinite, SumChange
<1>4. Sum(f, Days) \in Int
  BY <1>1, DaysFinite, SumInt
<1>5. Sum(g, Days) = Sum(f, Days) + v
  BY <1>1, <1>2, <1>3, <1>4
<1> QED BY <1>5 DEF Booked, f, g

LEMMA SnapshotMoved ==
  ASSUME NEW d \in StockDb, NEW x \in StockDb, NEW i \in Goods, NEW row \in StockRow,
         x.item = [d.item EXCEPT ![i] = row]
  PROVE  /\ Snapshot(x) = Snapshot(d) + Worth(row) - Worth(d.item[i])
         /\ Snapshot(d) \in Int
<1> DEFINE f == [j \in Goods |-> Worth(d.item[j])]
           g == [j \in Goods |-> Worth(x.item[j])]
<1>1. \A j \in Goods : f[j] \in Int /\ g[j] \in Int
  BY DbParts, RowFacts
<1>2. x.item[i] = row /\ \A j \in Goods \ {i} : x.item[j] = d.item[j]
  BY DbParts
<1>3. g[i] = Worth(row) /\ f[i] = Worth(d.item[i]) /\ \A j \in Goods \ {i} : g[j] = f[j]
  BY <1>2
<1> HIDE DEF f, g
<1>4. Sum(g, Goods) = Sum(f, Goods) + g[i] - f[i]
  BY <1>1, <1>3, InventoryAssumption, SumChange
<1>5. Sum(f, Goods) \in Int
  BY <1>1, InventoryAssumption, SumInt
<1> QED BY <1>3, <1>4, <1>5 DEF Snapshot, f, g

LEMMA FairKeeps ==
  ASSUME NEW d \in StockDb, NEW x \in StockDb, Fair(d, x), StockKept(d)
  PROVE  StockKept(x)
<1>1. PICK i \in Goods, row \in StockRow, day \in Days, entry \in Days, q \in Int, v \in Int :
        /\ Trade(d, x, i, row, day, entry, q, v)
        /\ row.qty = d.item[i].qty + q
        /\ Worth(row) = Worth(d.item[i]) + v
  BY DEF Fair
<1>2. x.item = [d.item EXCEPT ![i] = row]
  BY <1>1 DEF Trade
<1>3. x.item[i] = row /\ \A j \in Goods \ {i} : x.item[j] = d.item[j]
  BY <1>2, DbParts
<1>4. /\ Units(x, i) = Units(d, i) + q /\ Value(x, i) = Value(d, i) + v
      /\ \A j \in Goods \ {i} : Units(x, j) = Units(d, j) /\ Value(x, j) = Value(d, j)
  <2>1. Trade(d, x, i, row, day, entry, q, v)
    BY <1>1
  <2> QED BY <2>1, UnitsMoved
<1>5. Booked(x) = Booked(d) + v
  BY <1>1, BookedMoved
<1>6. Snapshot(x) = Snapshot(d) + Worth(row) - Worth(d.item[i]) /\ Snapshot(d) \in Int
  BY <1>2, SnapshotMoved
<1>7. Worth(d.item[i]) \in Int
  BY DbParts, RowFacts
<1>8. \A j \in Goods : x.item[j].qty = Units(x, j) /\ Worth(x.item[j]) = Value(x, j)
  BY <1>1, <1>3, <1>4 DEF StockKept
<1>9. Booked(x) = Snapshot(x)
  BY <1>1, <1>5, <1>6, <1>7 DEF StockKept
<1> QED BY <1>8, <1>9 DEF StockKept

(* From there to the three reports.                                         *)
LEMMA KeptAgrees ==
  ASSUME db \in StockDb, StockKept(db)
  PROVE  ValuationsAgree
<1>1. Days = 1..Today /\ Today \in Days
  BY InventoryAssumption DEF Days
<1>2. Snapshot(db) = ClosingOf1200(db, Today)
  BY <1>1 DEF StockKept, Booked, ClosingOf1200
<1>3. AsOf(db, Today) = Snapshot(db)
  <2> DEFINE f == [i \in Goods |-> UpTo(db, i, Today).value]
             g == [i \in Goods |-> Worth(db.item[i])]
  <2>1. \A i \in Goods : f[i] = g[i]
    BY <1>1 DEF StockKept, Value, UpTo
  <2> HIDE DEF f, g
  <2>2. Sum(f, Goods) = Sum(g, Goods)
    BY <2>1, InventoryAssumption, SumSame
  <2> QED BY <2>2 DEF AsOf, Snapshot, f, g
<1>4. ASSUME NEW i \in Goods, NEW day \in Days
      PROVE  WalkedBack(db, i, day) = UpTo(db, i, day)
  <2> DEFINE later == (day + 1)..Today
             qs == [t \in Days |-> db.moved[i][t].qty]
             vs == [t \in Days |-> db.moved[i][t].value]
  <2>1. /\ IsFiniteSet(1..day) /\ IsFiniteSet(later) /\ (1..day) \cap later = {}
        /\ Days = (1..day) \cup later
    BY <1>1, FS_Interval, InventoryAssumption
  <2>2. \A t \in Days : qs[t] \in Int /\ vs[t] \in Int
    BY DEF StockDb, DayRow
  <2> HIDE DEF qs, vs, later
  <2>3. Sum(qs, Days) = Sum(qs, 1..day) + Sum(qs, later)
    BY <2>1, <2>2, SumDisjoint
  <2>4. Sum(vs, Days) = Sum(vs, 1..day) + Sum(vs, later)
    BY <2>1, <2>2, SumDisjoint
  <2>5. /\ Sum(qs, 1..day) \in Int /\ Sum(qs, later) \in Int
        /\ Sum(vs, 1..day) \in Int /\ Sum(vs, later) \in Int
    BY <2>1, <2>2, SumInt
  <2>6. db.item[i].qty = Sum(qs, Days) /\ Worth(db.item[i]) = Sum(vs, Days)
    BY DEF StockKept, Units, Value, qs, vs
  <2>7. /\ db.item[i].qty - Sum(qs, later) = Sum(qs, 1..day)
        /\ Worth(db.item[i]) - Sum(vs, later) = Sum(vs, 1..day)
    BY <2>3, <2>4, <2>5, <2>6
  <2> QED BY <2>7 DEF WalkedBack, UpTo, qs, vs, later
<1> QED BY <1>2, <1>3, <1>4 DEF ValuationsAgree

-----------------------------------------------------------------------------
(* Operations on the books, document or none                               *)

LEMMA PaperFacts ==
  ASSUME NEW p \in PaperRow
  PROVE  p.kind # "none" => /\ p.kind \in Kinds /\ p.item \in Goods /\ p.day \in Days
                            /\ p.qty \in Int /\ p.value \in Int /\ p.live \in BOOLEAN
<1>1. CASE p = NoDocument
  BY <1>1 DEF NoDocument
<1>2. CASE p \in [kind : Kinds, item : Goods, day : Days, qty : Int, value : Int, live : BOOLEAN]
  BY <1>2
<1> QED BY <1>1, <1>2 DEF PaperRow

LEMMA FilingFacts ==
  ASSUME NEW p \in FilingRow
  PROVE  p.status # "none" => /\ p.status \in {"filed", "posted"} /\ p.item \in Goods
                              /\ p.to \in Nat /\ p.saw \in Nat /\ p.count \in BOOLEAN
                              /\ p.day \in Days
<1>1. CASE p = NoFiling
  BY <1>1 DEF NoFiling
<1>2. CASE p \in [status : {"filed", "posted"}, item : Goods, to : Nat, saw : Nat, count : BOOLEAN, day : Days]
  BY <1>2
<1> QED BY <1>1, <1>2 DEF FilingRow

LEMMA TradeByFields ==
  ASSUME NEW d, NEW x, NEW y, NEW i, NEW row, NEW day, NEW entry, NEW q, NEW v,
         Trade(d, x, i, row, day, entry, q, v),
         y.item = x.item, y.moved = x.moved, y.gl = x.gl
  PROVE  Trade(d, y, i, row, day, entry, q, v)
  BY DEF Trade

LEMMA FairTrade ==
  ASSUME NEW d \in StockDb, NEW x, NEW i \in Goods, NEW row \in MadeRow, NEW day \in Days,
         NEW entry \in Days, NEW q \in Int, NEW v \in Int,
         Trade(d, x, i, row, day, entry, q, v),
         row.qty = d.item[i].qty + q, Worth(row) = Worth(d.item[i]) + v
  PROVE  Fair(d, x)
<1>1. row \in StockRow
  BY DEF StockRow
<1> QED BY <1>1 DEF Fair

(* A move of stock, and of a row that was not there, is lawful.             *)
LEMMA LawfulMove ==
  ASSUME NEW d \in StockDb, Papers(d), NEW i \in Goods, NEW row \in MadeRow, NEW day \in Days,
         NEW entry \in Days, NEW q \in Int, NEW v \in Int
  PROVE  LET x == Moved(Stored(d, i, row), i, day, entry, q, v)
         IN /\ Lawful(d, x) /\ Trade(d, x, i, row, day, entry, q, v) /\ Unposted(d, x)
            /\ x.item = [d.item EXCEPT ![i] = row] /\ x.doc = d.doc /\ x.filed = d.filed
<1> DEFINE x == Moved(Stored(d, i, row), i, day, entry, q, v)
<1>1. row \in StockRow
  BY DEF StockRow
<1>2. /\ x \in StockDb /\ Trade(d, x, i, row, day, entry, q, v)
      /\ x.item = [d.item EXCEPT ![i] = row] /\ x.doc = d.doc /\ x.filed = d.filed
  BY <1>1, MovedDb
<1> HIDE DEF x
<1>3. \A j \in Goods : d.item[j].made => x.item[j].made
  <2>1. d.item \in [Goods -> StockRow] /\ row.made = TRUE
    BY DbParts DEF MadeRow
  <2>2. \A j \in Goods : x.item[j] = IF j = i THEN row ELSE d.item[j]
    BY <1>2, <2>1
  <2> QED BY <2>1, <2>2
<1>4. \A k \in Documents : d.doc[k].kind # "none" => d.doc[k].item \in Goods
  BY DbParts, PaperFacts
<1>5. \A f \in Filings : d.filed[f].status # "none" => d.filed[f].item \in Goods
  BY DbParts, FilingFacts
<1>6. Papers(x)
  BY <1>2, <1>3, <1>4, <1>5 DEF Papers
<1>7. Frozen(d, x)
  BY <1>2, <1>3 DEF Frozen
<1>8. Unposted(d, x)
  BY <1>2 DEF Unposted
<1> QED BY <1>2, <1>6, <1>7, <1>8 DEF Lawful, x

(* So is the storing of a row without a movement.                           *)
LEMMA LawfulStore ==
  ASSUME NEW d \in StockDb, Papers(d), NEW i \in Goods, NEW row \in MadeRow
  PROVE  LET x == Stored(d, i, row)
         IN /\ Lawful(d, x) /\ \A day \in Days : Trade(d, x, i, row, day, day, 0, 0)
            /\ x.filed = d.filed
<1> DEFINE x == Stored(d, i, row)
<1>1. row \in StockRow
  BY DEF StockRow
<1>2. /\ x \in StockDb /\ x.item = [d.item EXCEPT ![i] = row]
      /\ x.moved = d.moved /\ x.gl = d.gl /\ x.doc = d.doc /\ x.filed = d.filed
  BY <1>1, StoredDb
<1> HIDE DEF x
<1>3. \A j \in Goods : d.item[j].made => x.item[j].made
  <2>1. d.item \in [Goods -> StockRow] /\ row.made = TRUE
    BY DbParts DEF MadeRow
  <2>2. \A j \in Goods : x.item[j] = IF j = i THEN row ELSE d.item[j]
    BY <1>2, <2>1
  <2> QED BY <2>1, <2>2
<1>4. \A k \in Documents : d.doc[k].kind # "none" => d.doc[k].item \in Goods
  BY DbParts, PaperFacts
<1>5. \A f \in Filings : d.filed[f].status # "none" => d.filed[f].item \in Goods
  BY DbParts, FilingFacts
<1>6. Papers(x)
  BY <1>2, <1>3, <1>4, <1>5 DEF Papers
<1>7. Frozen(d, x)
  BY <1>2, <1>3 DEF Frozen
<1>8. /\ \A j \in Goods, t \in Days : d.moved[j][t].qty \in Int /\ d.moved[j][t].value \in Int
      /\ \A t \in Days : d.gl[t] \in Int
  BY DEF StockDb, DayRow
<1>9. \A day \in Days : Trade(d, x, i, row, day, day, 0, 0)
  BY <1>2, <1>8 DEF Trade
<1> QED BY <1>2, <1>6, <1>7, <1>9 DEF Lawful, x

(* And the writing of a document that says what was moved.                  *)
LEMMA LawfulPaper ==
  ASSUME NEW d \in StockDb, Papers(d), NEW i \in Goods, NEW row \in MadeRow, NEW day \in Days,
         NEW q \in Int, NEW v \in Int, NEW kind \in Kinds, kind = "returned" => q <= 0,
         NEW k \in NextDocument(d)
  PROVE  LET y == Noted(Moved(Stored(d, i, row), i, day, day, q, v), k, kind, i, day, q, v)
         IN /\ Lawful(d, y) /\ Trade(d, y, i, row, day, day, q, v) /\ Unposted(d, y)
            /\ y.item = [d.item EXCEPT ![i] = row] /\ y.filed = d.filed
<1> DEFINE x == Moved(Stored(d, i, row), i, day, day, q, v)
           y == Noted(x, k, kind, i, day, q, v)
           paper == [kind |-> kind, item |-> i, day |-> day, qty |-> q, value |-> v, live |-> TRUE]
<1>1. k \in Documents /\ d.doc[k].kind = "none"
  <2>1. k \in Documents /\ \A j \in Documents : d.doc[j].kind = "none" <=> j >= k
    BY DEF NextDocument
  <2>2. k \in Nat
    BY <2>1, InventoryAssumption
  <2>3. k >= k
    BY <2>2
  <2> QED BY <2>1, <2>3
<1>2. /\ Lawful(d, x) /\ Trade(d, x, i, row, day, day, q, v) /\ Unposted(d, x)
      /\ x.item = [d.item EXCEPT ![i] = row] /\ x.doc = d.doc /\ x.filed = d.filed
  <2> HIDE DEF y, paper
  <2>1. LET z == Moved(Stored(d, i, row), i, day, day, q, v)
        IN /\ Lawful(d, z) /\ Trade(d, z, i, row, day, day, q, v) /\ Unposted(d, z)
           /\ z.item = [d.item EXCEPT ![i] = row] /\ z.doc = d.doc /\ z.filed = d.filed
    BY LawfulMove
  <2> QED BY <2>1
<1> HIDE DEF x
<1>3. x \in StockDb
  BY <1>2 DEF Lawful
<1>4. /\ y \in StockDb /\ y.item = x.item /\ y.moved = x.moved /\ y.gl = x.gl
      /\ y.doc = [x.doc EXCEPT ![k] = paper] /\ y.filed = x.filed
  BY <1>1, <1>3, NotedDb
<1>5. paper.kind = kind /\ paper.item = i /\ paper.qty = q
  OBVIOUS
<1> HIDE DEF y, paper
<1>6. Trade(d, y, i, row, day, day, q, v)
  BY <1>2, <1>4, TradeByFields
<1>7. y.doc[k] = paper /\ \A j \in Documents \ {k} : y.doc[j] = d.doc[j]
  BY <1>1, <1>2, <1>4, DbParts
<1>8. y.item[i].made
  <2>1. d.item \in [Goods -> StockRow] /\ row.made = TRUE
    BY DbParts DEF MadeRow
  <2>2. y.item[i] = row
    BY <1>2, <1>4, <2>1
  <2> QED BY <2>1, <2>2
<1>9. Papers(y)
  BY <1>2, <1>4, <1>5, <1>7, <1>8 DEF Papers, Lawful
<1>10. Frozen(d, y)
  BY <1>1, <1>2, <1>4, <1>7 DEF Frozen, Lawful
<1>11. Unposted(d, y)
  BY <1>2, <1>4 DEF Unposted
<1> QED BY <1>11, <1>2, <1>4, <1>6, <1>9, <1>10 DEF Lawful, x, y

LEMMA LawfulArrival ==
  ASSUME NEW d \in StockDb, NEW x, Lawful(d, x), NEW i \in Goods, NEW day \in Days
  PROVE  /\ Lawful(d, Arrived(x, i, day))
         /\ Arrived(x, i, day).item = x.item /\ Arrived(x, i, day).moved = x.moved
         /\ Arrived(x, i, day).gl = x.gl /\ Arrived(x, i, day).filed = x.filed
<1> DEFINE y == Arrived(x, i, day)
<1>1. x \in StockDb
  BY DEF Lawful
<1>2. /\ y \in StockDb /\ y.item = x.item /\ y.moved = x.moved /\ y.gl = x.gl
      /\ y.doc = x.doc /\ y.filed = x.filed
  BY <1>1, ArrivedDb
<1> HIDE DEF y
<1>3. Lawful(d, y)
  BY <1>2 DEF Lawful, Papers, Frozen
<1> QED BY <1>2, <1>3 DEF y

-----------------------------------------------------------------------------
(* The operations that lock the item                                        *)

LEMMA EmptyRow ==
  ASSUME NEW row \in StockRow, row.qty = 0
  PROVE  Worth(row) = 0
<1>1. \A a \in Int : 0 * a = 0
  OBVIOUS
<1> QED BY <1>1, RowFacts DEF Worth

LEMMA OpenedRow ==
  ASSUME NEW q \in Nat, NEW c \in Costs
  PROVE  LET row == [made |-> TRUE, qty |-> q, unit |-> c]
         IN row \in MadeRow /\ row.qty = q /\ Worth(row) = AtAverage(row, q)
                /\ AtAverage(row, q) \in Int
<1>1. c \in Nat
  BY InventoryAssumption
<1>2. \A a, b \in Nat : a * b \in Int
  OBVIOUS
<1> QED BY <1>1, <1>2 DEF MadeRow, Worth, AtAverage

LEMMA MadeRows ==
  ASSUME StockTyped, NEW i \in Goods
  PROVE  /\ db.item[i] \in StockRow
         /\ db.item[i].qty \in Nat /\ Worth(db.item[i]) \in Int
         /\ Made(i) => db.item[i] \in MadeRow
         /\ ~Made(i) => db.item[i].qty = 0
  BY DbParts, RowFacts DEF StockTyped, Made

LEMMA CreateItemWorks ==
  ASSUME StockTyped, CreateItem
  PROVE  Lawful(db, db') /\ Fair(db, db') /\ Unposted(db, db')
<1>1. PICK i \in Goods, c \in Costs :
        /\ ~Made(i)
        /\ db' = Stored(db, i, [made |-> TRUE, qty |-> 0, unit |-> c])
  BY DEF CreateItem, Locked
<1> DEFINE row == [made |-> TRUE, qty |-> 0, unit |-> c]
<1>2. row \in MadeRow /\ row.qty = 0
  BY OpenedRow
<1> HIDE DEF row
<1>3. Worth(row) = 0
  BY <1>2, EmptyRow DEF StockRow
<1>4. db.item[i].qty = 0 /\ Worth(db.item[i]) = 0
  BY <1>1, MadeRows, EmptyRow
<1>5. Today \in Days
  BY InventoryAssumption DEF Days
<1>6. /\ Lawful(db, db') /\ \A day \in Days : Trade(db, db', i, row, day, day, 0, 0)
      /\ db'.filed = db.filed
  BY <1>1, <1>2, LawfulStore DEF StockTyped, row
<1>7. Trade(db, db', i, row, Today, Today, 0, 0)
  BY <1>5, <1>6
<1>8. row.qty = db.item[i].qty + 0 /\ Worth(row) = Worth(db.item[i]) + 0
  BY <1>2, <1>3, <1>4
<1>9. db \in StockDb /\ 0 \in Int
  BY DEF StockTyped
<1>10. Fair(db, db')
  BY <1>2, <1>5, <1>7, <1>8, <1>9, FairTrade
<1> QED BY <1>6, <1>10 DEF Unposted

(* What opens an item that has nothing.                                     *)
LEMMA Opened ==
  ASSUME StockTyped, NEW i \in Goods, db.item[i].qty = 0, NEW row \in MadeRow, NEW day \in Days,
         Worth(row) = AtAverage(row, row.qty),
         db' = Arrived(Moved(Stored(db, i, row), i, day, day, row.qty, AtAverage(row, row.qty)), i, day)
  PROVE  Lawful(db, db') /\ Fair(db, db') /\ Unposted(db, db')
<1> DEFINE q == row.qty
           v == AtAverage(row, row.qty)
           x == Moved(Stored(db, i, row), i, day, day, q, v)
<1>1. q \in Int /\ v \in Int
  BY RowFacts DEF StockRow
<1>2. Worth(db.item[i]) = 0
  BY MadeRows, EmptyRow
<1>3. row.qty = db.item[i].qty + q /\ Worth(row) = Worth(db.item[i]) + v
  BY <1>1, <1>2
<1>4. db' = Arrived(x, i, day)
  OBVIOUS
<1>5. db \in StockDb /\ Papers(db)
  BY DEF StockTyped
<1> HIDE DEF q, v
<1>6. Lawful(db, x) /\ Trade(db, x, i, row, day, day, q, v) /\ Unposted(db, x)
  BY <1>1, <1>5, LawfulMove
<1> HIDE DEF x
<1>7. /\ Lawful(db, db') /\ db'.item = x.item /\ db'.moved = x.moved /\ db'.gl = x.gl
      /\ db'.filed = x.filed
  BY <1>4, <1>5, <1>6, LawfulArrival
<1>8. Trade(db, db', i, row, day, day, q, v)
  BY <1>6, <1>7, TradeByFields
<1>9. Fair(db, db')
  BY <1>1, <1>3, <1>5, <1>8, FairTrade
<1> QED BY <1>6, <1>7, <1>9 DEF Unposted

LEMMA SetOpeningStockWorks ==
  ASSUME StockTyped, SetOpeningStock
  PROVE  Lawful(db, db') /\ Fair(db, db') /\ Unposted(db, db')
<1>1. PICK i \in Goods, q \in Quantities, day \in Days :
        /\ Made(i) /\ db.item[i].qty = 0
        /\ LET row == [db.item[i] EXCEPT !.qty = q]
           IN db' = Arrived(Moved(Stored(db, i, row), i, day, day, q, AtAverage(row, q)), i, day)
  BY DEF SetOpeningStock, Locked, MayOpen
<1> DEFINE row == [db.item[i] EXCEPT !.qty = q]
<1>2. q \in Nat
  BY InventoryAssumption
<1>3. row \in MadeRow /\ row.qty = q
  BY <1>1, <1>2, MadeRows DEF MadeRow
<1>4. db' = Arrived(Moved(Stored(db, i, row), i, day, day, row.qty, AtAverage(row, row.qty)), i, day)
  BY <1>1, <1>3
<1> HIDE DEF row
<1>5. Worth(row) = AtAverage(row, row.qty)
  BY DEF Worth, AtAverage
<1> QED BY <1>1, <1>3, <1>4, <1>5, Opened

LEMMA ImportWorks ==
  ASSUME StockTyped, Import
  PROVE  Lawful(db, db') /\ Fair(db, db') /\ Unposted(db, db')
<1>1. PICK i \in Goods, q \in Quantities, c \in Costs, day \in Days :
        LET row == [made |-> TRUE, qty |-> q, unit |-> c]
        IN /\ ~Made(i) \/ db.item[i].qty = 0
           /\ db' = Arrived(Moved(Stored(db, i, row), i, day, day, q, AtAverage(row, q)), i, day)
  BY DEF Import, Locked
<1> DEFINE row == [made |-> TRUE, qty |-> q, unit |-> c]
<1>2. q \in Nat
  BY InventoryAssumption
<1>3. row \in MadeRow /\ row.qty = q
  BY <1>2, OpenedRow
<1>4. db' = Arrived(Moved(Stored(db, i, row), i, day, day, row.qty, AtAverage(row, row.qty)), i, day)
  BY <1>1, <1>3
<1>5. db.item[i].qty = 0
  BY <1>1, MadeRows
<1> HIDE DEF row
<1>6. Worth(row) = AtAverage(row, row.qty)
  BY DEF Worth, AtAverage
<1> QED BY <1>3, <1>4, <1>5, <1>6, Opened

(* A correction to a quantity, at the average.                              *)
LEMMA AdjustedWorks ==
  ASSUME StockTyped, NEW i \in Goods, Made(i), NEW to \in Nat, NEW day \in Days,
         NEW k \in NextDocument(db)
  PROVE  LET x == Adjusted(db, k, i, to, day)
         IN /\ Lawful(db, x) /\ Fair(db, x) /\ x.filed = db.filed /\ Unposted(db, x)
            /\ x.item = [db.item EXCEPT ![i] = [db.item[i] EXCEPT !.qty = to]]
<1> DEFINE row == db.item[i]
           by == to - row.qty
           v == AtAverage(row, by)
           now == [row EXCEPT !.qty = to]
           x == Adjusted(db, k, i, to, day)
<1>1. row \in MadeRow /\ row \in StockRow /\ row.qty \in Nat /\ Worth(row) \in Int
  BY MadeRows
<1>2. now \in MadeRow /\ now.qty = to /\ Worth(now) = Worth(row) + v
  <2> HIDE DEF row
  <2> QED BY <1>1, ByAverage
<1>3. by \in Int
  BY <1>1
<1>4. v \in Int
  BY <1>1, <1>3, RowFacts
<1>5. x = Noted(Moved(Stored(db, i, now), i, day, day, by, v), k, "adjusted", i, day, by, v)
  BY DEF Adjusted
<1>6. row.qty = db.item[i].qty /\ Worth(row) = Worth(db.item[i]) /\ now.qty = db.item[i].qty + by
  BY <1>1, <1>2
<1> HIDE DEF now, by, v, x
<1>7. db \in StockDb /\ Papers(db) /\ "adjusted" \in Kinds /\ "adjusted" # "returned"
  BY DEF StockTyped, Kinds
<1>8. /\ Lawful(db, x) /\ Trade(db, x, i, now, day, day, by, v) /\ Unposted(db, x)
      /\ x.item = [db.item EXCEPT ![i] = now] /\ x.filed = db.filed
  BY <1>2, <1>3, <1>4, <1>5, <1>7, LawfulPaper
<1>9. Fair(db, x)
  BY <1>2, <1>3, <1>4, <1>6, <1>7, <1>8, FairTrade
<1> QED BY <1>8, <1>9 DEF x, now

LEMMA AdjustWorks ==
  ASSUME StockTyped, Adjust
  PROVE  Lawful(db, db') /\ Fair(db, db') /\ Unposted(db, db')
<1>1. PICK i \in Goods, to \in Quantities \cup {0}, day \in Days, k \in NextDocument(db) :
        Made(i) /\ db' = Adjusted(db, k, i, to, day)
  BY DEF Adjust, Locked
<1>2. to \in Nat
  BY InventoryAssumption
<1> QED BY <1>1, <1>2, AdjustedWorks

(* What changes only the filings.                                           *)
LEMMA FilingChanges ==
  ASSUME NEW d \in StockDb, NEW x, Lawful(d, x), NEW f \in Filings, NEW row \in FilingRow,
         row.status # "none", x.item[row.item].made
  PROVE  LET y == [x EXCEPT !.filed[f] = row]
         IN /\ Lawful(d, y) /\ y.item = x.item /\ y.moved = x.moved /\ y.gl = x.gl
            /\ y.doc = x.doc /\ y.filed = [x.filed EXCEPT ![f] = row]
<1> DEFINE y == [x EXCEPT !.filed[f] = row]
<1>1. x \in StockDb
  BY DEF Lawful
<1>2. /\ y \in StockDb /\ y.item = x.item /\ y.moved = x.moved /\ y.gl = x.gl
      /\ y.doc = x.doc /\ y.filed = [x.filed EXCEPT ![f] = row]
  BY <1>1 DEF StockDb
<1> HIDE DEF y
<1>3. \A g \in Filings : y.filed[g] = IF g = f THEN row ELSE x.filed[g]
  BY <1>1, <1>2, DbParts
<1>4. Papers(y)
  BY <1>2, <1>3 DEF Papers, Lawful
<1>5. Frozen(d, y)
  BY <1>2, <1>3 DEF Frozen, Lawful
<1> QED BY <1>2, <1>4, <1>5 DEF Lawful, y

LEMMA FrozenSelf ==
  ASSUME StockTyped
  PROVE  Lawful(db, db)
  BY DEF StockTyped, Lawful, Frozen

LEMMA FileWorks ==
  ASSUME StockTyped, File
  PROVE  Lawful(db, db') /\ Fair(db, db') /\ Unposted(db, db')
<1>1. PICK f \in Filings, i \in Goods, to \in Quantities \cup {0}, count \in BOOLEAN, day \in Days :
        /\ Made(i) /\ db.filed[f].status = "none"
        /\ db' = [db EXCEPT !.filed[f] = [status |-> "filed", item |-> i, to |-> to,
                                          saw |-> db.item[i].qty, count |-> count, day |-> day]]
  BY DEF File, Locked
<1> DEFINE row == [status |-> "filed", item |-> i, to |-> to, saw |-> db.item[i].qty,
                   count |-> count, day |-> day]
<1>2. to \in Nat /\ db.item[i].qty \in Nat
  <2>1. to \in Nat
    BY InventoryAssumption
  <2>2. db.item[i].qty \in Nat
    BY MadeRows
  <2> QED BY <2>1, <2>2
<1>3. row \in FilingRow /\ row.status # "none" /\ row.item = i
  BY <1>2 DEF FilingRow
<1>4. db' = [db EXCEPT !.filed[f] = row]
  BY <1>1
<1> HIDE DEF row
<1>5. db.item[row.item].made
  BY <1>1, <1>3 DEF Made
<1>6. db \in StockDb
  BY DEF StockTyped
<1>7. /\ Lawful(db, db') /\ db'.item = db.item /\ db'.moved = db.moved /\ db'.gl = db.gl
      /\ db'.filed = [db.filed EXCEPT ![f] = row]
  BY <1>3, <1>4, <1>5, <1>6, FrozenSelf, FilingChanges
<1>8. Today \in Days
  BY InventoryAssumption DEF Days
<1>9. /\ \A j \in Goods, t \in Days : db.moved[j][t].qty \in Int /\ db.moved[j][t].value \in Int
      /\ \A t \in Days : db.gl[t] \in Int
  BY <1>6 DEF StockDb, DayRow
<1>10. db.item = [db.item EXCEPT ![i] = db.item[i]]
  BY <1>6, DbParts
<1>11. Trade(db, db', i, db.item[i], Today, Today, 0, 0)
  BY <1>7, <1>9, <1>10 DEF Trade
<1>12. db.item[i] \in MadeRow /\ db.item[i].qty = db.item[i].qty + 0
       /\ Worth(db.item[i]) = Worth(db.item[i]) + 0
  BY <1>1, MadeRows
<1>13. Fair(db, db')
  BY <1>6, <1>8, <1>11, <1>12, FairTrade
<1>14. Unposted(db, db')
  BY <1>1, <1>6, <1>7, DbParts DEF Unposted
<1> QED BY <1>7, <1>13, <1>14

(* What the average absorbs, with its document.                             *)
LEMMA AbsorbedWithPaper ==
  ASSUME NEW d \in StockDb, Papers(d), NEW i \in Goods, NEW row \in MadeRow, NEW day \in Days,
         NEW q \in Int, NEW v \in Int, NEW u \in Int, NEW kind \in Kinds,
         kind = "returned" => q <= 0, NEW k \in NextDocument(d),
         row.qty + q >= 0, WholeAverage(row, q, v), LeavesNothing(row, q, v)
  PROVE  LET y == Noted(Moved(Stored(d, i, Averaged(row, q, v, u)), i, day, day, q, v),
                        k, kind, i, day, q, v)
         IN /\ Lawful(d, y) /\ Unposted(d, y)
            /\ ~Emptying /\ row = d.item[i] => Fair(d, y)
<1> DEFINE now == Averaged(row, q, v, u)
           y == Noted(Moved(Stored(d, i, now), i, day, day, q, v), k, kind, i, day, q, v)
<1>1. now \in MadeRow
  BY AveragedIsRow
<1> HIDE DEF now
<1>2. Lawful(d, y) /\ Trade(d, y, i, now, day, day, q, v) /\ Unposted(d, y)
  BY <1>1, LawfulPaper
<1> HIDE DEF y
<1>3. ASSUME ~Emptying, row = d.item[i]
      PROVE  Fair(d, y)
  <2>1. row.qty + q = 0 => Worth(row) + v = 0
    BY <1>3 DEF LeavesNothing
  <2>2. now.qty = row.qty + q /\ Worth(now) = Worth(row) + v
    BY <2>1, Averages DEF now
  <2> QED BY <1>1, <1>2, <1>3, <2>2, FairTrade
<1> QED BY <1>2, <1>3 DEF y, now

LEMMA ReverseAdjustmentWorks ==
  ASSUME StockTyped, ReverseAdjustment
  PROVE  Lawful(db, db') /\ (~Emptying => Fair(db, db')) /\ Unposted(db, db')
<1>1. PICK j \in OfKind({"adjusted"}), k \in NextDocument(db) :
        LET was == db.doc[j]
            i == was.item
            row == db.item[i]
        IN /\ row.qty - was.qty >= 0
           /\ WholeAverage(row, -was.qty, -was.value)
           /\ LeavesNothing(row, -was.qty, -was.value)
           /\ db' = Noted(Moved(Stored(db, i, Averaged(row, -was.qty, -was.value, row.unit)),
                                i, Today, Today, -was.qty, -was.value),
                          k, "reversal", i, Today, -was.qty, -was.value)
  BY DEF ReverseAdjustment, Locked
<1>2. j \in Documents /\ db.doc[j].kind = "adjusted"
  BY DEF OfKind
<1> DEFINE i == db.doc[j].item
           q == -db.doc[j].qty
           v == -db.doc[j].value
           row == db.item[i]
<1>3. db \in StockDb /\ Papers(db) /\ Today \in Days /\ "reversal" \in Kinds
  BY InventoryAssumption DEF StockTyped, Days, Kinds
<1>4. i \in Goods /\ db.doc[j].qty \in Int /\ db.doc[j].value \in Int /\ row.made
  BY <1>2, <1>3, DbParts, PaperFacts DEF Papers
<1>5. q \in Int /\ v \in Int
  BY <1>4
<1>6. row \in MadeRow /\ row.qty \in Nat /\ row.unit \in Int
  BY <1>4, MadeRows, RowFacts DEF Made
<1>7. row.qty + q >= 0
  BY <1>1, <1>4, <1>6
<1>8. WholeAverage(row, q, v) /\ LeavesNothing(row, q, v)
  BY <1>1
<1>9. db' = Noted(Moved(Stored(db, i, Averaged(row, q, v, row.unit)), i, Today, Today, q, v),
                  k, "reversal", i, Today, q, v)
  BY <1>1
<1> HIDE DEF q, v, i
<1>10. row = db.item[i]
  OBVIOUS
<1> HIDE DEF row
<1> QED BY <1>3, <1>4, <1>5, <1>6, <1>7, <1>8, <1>9, <1>10, AbsorbedWithPaper

LEMMA ReceiveWorks ==
  ASSUME StockTyped, Receive
  PROVE  Lawful(db, db') /\ Fair(db, db') /\ Unposted(db, db')
<1>1. PICK i \in Goods, q \in Quantities, c \in Costs :
        LET row == db.item[i]
        IN /\ Made(i)
           /\ WholeAverage(row, q, q * c)
           /\ db' = Arrived(Moved(Stored(db, i, Averaged(row, q, q * c, row.unit)),
                                  i, Today, Today, q, q * c), i, Today)
  BY DEF Receive, Locked
<1> DEFINE row == db.item[i]
           v == q * c
           now == Averaged(row, q, v, row.unit)
           x == Moved(Stored(db, i, now), i, Today, Today, q, v)
<1>2. q \in Nat \ {0} /\ q \in Int /\ v \in Int
  <2>1. q \in Nat \ {0} /\ c \in Nat
    BY InventoryAssumption
  <2>2. \A a, b \in Nat : a * b \in Int
    OBVIOUS
  <2> QED BY <2>1, <2>2
<1>3. db \in StockDb /\ Papers(db) /\ Today \in Days
  BY InventoryAssumption DEF StockTyped, Days
<1>4. row \in MadeRow /\ row.qty \in Nat /\ row.unit \in Int
  BY <1>1, MadeRows, RowFacts
<1>5. row.qty + q > 0
  BY <1>2, <1>4
<1>6. WholeAverage(row, q, v) /\ db' = Arrived(x, i, Today)
  BY <1>1
<1> HIDE DEF v
<1>7. now \in MadeRow /\ now.qty = row.qty + q /\ Worth(now) = Worth(row) + v
  <2> HIDE DEF row
  <2> QED BY <1>2, <1>4, <1>5, <1>6, Averages
<1>8. row = db.item[i]
  OBVIOUS
<1> HIDE DEF now
<1>9. Lawful(db, x) /\ Trade(db, x, i, now, Today, Today, q, v) /\ Unposted(db, x)
  BY <1>2, <1>3, <1>7, LawfulMove
<1> HIDE DEF x
<1>10. /\ Lawful(db, db') /\ db'.item = x.item /\ db'.moved = x.moved /\ db'.gl = x.gl
       /\ db'.filed = x.filed
  BY <1>3, <1>6, <1>9, LawfulArrival
<1>11. Trade(db, db', i, now, Today, Today, q, v)
  BY <1>9, <1>10, TradeByFields
<1> HIDE DEF row
<1>12. Fair(db, db')
  BY <1>2, <1>3, <1>7, <1>8, <1>11, FairTrade
<1> QED BY <1>9, <1>10, <1>12 DEF Unposted

(* Units that leave at the average.                                         *)
LEMMA OutAtAverage ==
  ASSUME NEW row \in MadeRow, NEW q \in Nat, row.qty >= q
  PROVE  LET now == [row EXCEPT !.qty = @ - q]
         IN /\ now \in MadeRow /\ now.qty = row.qty + (-q)
            /\ Worth(now) = Worth(row) + (-AtAverage(row, q))
            /\ AtAverage(row, q) \in Int
<1> DEFINE to == row.qty - q
           now == [row EXCEPT !.qty = to]
<1>1. row.qty \in Nat /\ row.unit \in Int /\ to \in Nat
  BY DEF MadeRow
<1>2. now \in MadeRow /\ now.qty = to /\ now.unit = row.unit
  BY <1>1 DEF MadeRow
<1>3. to = row.qty + (-q)
  BY <1>1
<1>4. /\ (row.qty - q) * row.unit = row.qty * row.unit - q * row.unit
      /\ q * row.unit \in Int /\ row.qty * row.unit \in Int
  BY <1>1, TwoParts
<1> DEFINE a == row.qty * row.unit
           b == q * row.unit
<1>5. a \in Int /\ b \in Int /\ to * row.unit = a - b
  BY <1>4
<1> HIDE DEF now, a, b, to
<1>6. Worth(now) = a - b
  BY <1>2, <1>5 DEF Worth
<1>7. Worth(row) = a /\ AtAverage(row, q) = b
  BY DEF Worth, AtAverage, a, b
<1>8. Worth(now) = Worth(row) + (-AtAverage(row, q)) /\ AtAverage(row, q) \in Int
  BY <1>5, <1>6, <1>7
<1>9. now = [row EXCEPT !.qty = @ - q]
  BY DEF now, to
<1> QED BY <1>2, <1>3, <1>8, <1>9

LEMMA CorrectReceiptWorks ==
  ASSUME StockTyped, CorrectReceipt
  PROVE  Lawful(db, db') /\ Fair(db, db') /\ Unposted(db, db')
<1>1. PICK i \in Goods, q \in Quantities :
        LET row == db.item[i]
        IN /\ Made(i) /\ row.qty >= q
           /\ db' = Moved(Stored(db, i, [row EXCEPT !.qty = @ - q]),
                          i, Today, Today, -q, -AtAverage(row, q))
  BY DEF CorrectReceipt, Locked
<1> DEFINE row == db.item[i]
           now == [row EXCEPT !.qty = @ - q]
           v == -AtAverage(row, q)
<1>2. q \in Nat /\ -q \in Int
  BY InventoryAssumption
<1>3. db \in StockDb /\ Papers(db) /\ Today \in Days
  BY InventoryAssumption DEF StockTyped, Days
<1>4. row \in MadeRow /\ row.qty >= q
  BY <1>1, MadeRows
<1>5. /\ now \in MadeRow /\ now.qty = row.qty + (-q) /\ Worth(now) = Worth(row) + v
      /\ AtAverage(row, q) \in Int
  <2> HIDE DEF row
  <2> QED BY <1>2, <1>4, OutAtAverage
<1>6. v \in Int
  BY <1>5
<1>7. db' = Moved(Stored(db, i, now), i, Today, Today, -q, v) /\ row = db.item[i]
  BY <1>1
<1> HIDE DEF now, v, row
<1>8. Lawful(db, db') /\ Trade(db, db', i, now, Today, Today, -q, v) /\ Unposted(db, db')
  BY <1>2, <1>3, <1>5, <1>6, <1>7, LawfulMove
<1>9. Fair(db, db')
  BY <1>2, <1>3, <1>5, <1>6, <1>7, <1>8, FairTrade
<1> QED BY <1>8, <1>9

LEMMA ReturnWorks ==
  ASSUME StockTyped, Return
  PROVE  Lawful(db, db') /\ (~Emptying => Fair(db, db')) /\ Unposted(db, db')
<1>1. PICK i \in Goods, q \in Quantities, c \in Costs, day \in Days, k \in NextDocument(db) :
        LET row == db.item[i]
        IN /\ Made(i) /\ row.qty >= q
           /\ WholeAverage(row, -q, -(q * c))
           /\ LeavesNothing(row, -q, -(q * c))
           /\ db' = Noted(Moved(Stored(db, i, Averaged(row, -q, -(q * c), 0)),
                                i, day, day, -q, -(q * c)),
                          k, "returned", i, day, -q, -(q * c))
  BY DEF Return, Locked
<1> DEFINE row == db.item[i]
           out == -q
           v == -(q * c)
<1>2. q \in Nat /\ out \in Int /\ out <= 0 /\ v \in Int
  <2>1. q \in Nat /\ c \in Nat
    BY InventoryAssumption
  <2>2. \A a, b \in Nat : -(a * b) \in Int
    OBVIOUS
  <2> QED BY <2>1, <2>2
<1>3. db \in StockDb /\ Papers(db) /\ "returned" \in Kinds /\ 0 \in Int
  BY DEF StockTyped, Kinds
<1>4. row \in MadeRow /\ row.qty \in Nat
  BY <1>1, MadeRows
<1>5. row.qty + out >= 0
  BY <1>1, <1>2, <1>4
<1>6. /\ WholeAverage(row, out, v) /\ LeavesNothing(row, out, v)
      /\ db' = Noted(Moved(Stored(db, i, Averaged(row, out, v, 0)), i, day, day, out, v),
                     k, "returned", i, day, out, v)
      /\ row = db.item[i]
  BY <1>1
<1> HIDE DEF out, v, row
<1> QED BY <1>2, <1>3, <1>4, <1>5, <1>6, AbsorbedWithPaper

-----------------------------------------------------------------------------
(* The operations that read first: what they write is as they read it, or   *)
(* the row has changed since.                                               *)

Held(d, c) ==
  /\ c.op \in {"edit", "transfer", "count", "sell", "restock"} => c.seen = d.item[c.i]
  /\ c.op = "void" => c.seen = d.item[d.doc[c.k].item]

LEMMA CallShapes ==
  ASSUME NEW c \in StockCalls
  PROVE  /\ c.op = "edit" => c \in EditCall
         /\ c.op = "transfer" => c \in TransferCall
         /\ c.op = "approve" => c \in ApproveCall
         /\ c.op = "count" => c \in CountCall
         /\ c.op = "sell" => c \in SellCall
         /\ c.op = "restock" => c \in RestockCall
         /\ c.op = "void" => c \in VoidCall
<1>1. /\ \A x \in EditCall : x.op = "edit"
      /\ \A x \in TransferCall : x.op = "transfer"
      /\ \A x \in ApproveCall : x.op = "approve"
      /\ \A x \in CountCall : x.op = "count"
      /\ \A x \in SellCall : x.op = "sell"
      /\ \A x \in RestockCall : x.op = "restock"
      /\ \A x \in VoidCall : x.op = "void"
  BY DEF EditCall, TransferCall, ApproveCall, CountCall, SellCall, RestockCall, VoidCall
<1>2. c.op = "idle" \/ c \in EditCall \/ c \in TransferCall \/ c \in ApproveCall \/ c \in CountCall
      \/ c \in SellCall \/ c \in RestockCall \/ c \in VoidCall
  BY DEF StockCalls
<1> QED BY <1>1, <1>2

LEMMA EditWorks ==
  ASSUME StockTyped, NEW r \in Clients, EditItem(r)
  PROVE  Lawful(db, db') /\ (Held(db, req[r]) => Fair(db, db')) /\ Unposted(db, db')
<1> DEFINE c == req[r]
           i == c.i
           seen == c.seen
           unit == c.c
           row == [seen EXCEPT !.unit = unit]
<1>1. /\ c \in StockCalls /\ c.op = "edit" /\ db' = Stored(db, i, row)
      /\ c.c # c.seen.unit => c.seen.qty <= 0
  BY DEF EditItem, Serving, Commit, StockTyped, Found
<1>2. i \in Goods /\ seen \in MadeRow /\ unit \in Int
  BY <1>1, CallShapes, InventoryAssumption DEF EditCall
<1>3. unit # seen.unit => seen.qty <= 0
  BY <1>1
<1>4. Held(db, c) => seen = db.item[i]
  BY <1>1 DEF Held
<1> HIDE DEF c, i, seen, unit
<1>5. row \in MadeRow /\ row.qty = seen.qty /\ row.unit = unit
  BY <1>2 DEF MadeRow
<1>6. Worth(row) = Worth(seen)
  <2>1. CASE unit = seen.unit
    BY <1>5, <2>1 DEF Worth
  <2>2. CASE unit # seen.unit
    <3>1. seen.qty = 0 /\ seen \in StockRow /\ row \in StockRow
      <4>1. seen.qty \in Nat
        BY <1>2 DEF MadeRow
      <4>2. seen \in StockRow /\ row \in StockRow
        BY <1>2, <1>5 DEF StockRow
      <4> QED BY <1>3, <2>2, <4>1, <4>2
    <3> QED BY <1>5, <3>1, EmptyRow
  <2> QED BY <2>1, <2>2
<1>7. db \in StockDb /\ Papers(db) /\ Today \in Days /\ 0 \in Int
  BY InventoryAssumption DEF StockTyped, Days
<1>8. db' = Stored(db, i, row)
  BY <1>1 DEF c, i, seen, unit
<1> HIDE DEF row
<1>9. /\ Lawful(db, db') /\ \A day \in Days : Trade(db, db', i, row, day, day, 0, 0)
      /\ db'.filed = db.filed
  BY <1>2, <1>5, <1>7, <1>8, LawfulStore
<1>10. ASSUME Held(db, c)
       PROVE  Fair(db, db')
  <2>1. Trade(db, db', i, row, Today, Today, 0, 0)
    BY <1>7, <1>9
  <2>2. db.item[i].qty \in Nat /\ Worth(db.item[i]) \in Int
    BY <1>2, MadeRows
  <2>3. row.qty = db.item[i].qty + 0 /\ Worth(row) = Worth(db.item[i]) + 0
    BY <1>4, <1>5, <1>6, <1>10, <2>2
  <2> QED BY <1>2, <1>5, <1>7, <2>1, <2>3, FairTrade
<1> QED BY <1>9, <1>10 DEF c, Unposted

LEMMA TransferWorks ==
  ASSUME StockTyped, NEW r \in Clients, Transfer(r)
  PROVE  Lawful(db, db') /\ (Held(db, req[r]) => Fair(db, db')) /\ Unposted(db, db')
<1> DEFINE c == req[r]
           i == c.i
           day == c.day
           row == c.seen
<1>1. /\ c \in StockCalls /\ c.op = "transfer"
      /\ db' = Moved(Stored(db, i, row), i, day, day, 0, 0)
  BY DEF Transfer, Serving, Commit, StockTyped
<1>2. i \in Goods /\ row \in MadeRow /\ day \in Days
  BY <1>1, CallShapes DEF TransferCall
<1>3. Held(db, c) => row = db.item[i]
  BY <1>1 DEF Held
<1>4. db \in StockDb /\ Papers(db) /\ 0 \in Int
  BY DEF StockTyped
<1>5. db' = Moved(Stored(db, i, row), i, day, day, 0, 0)
  BY <1>1
<1> HIDE DEF c, i, day, row
<1>6. Lawful(db, db') /\ Trade(db, db', i, row, day, day, 0, 0) /\ Unposted(db, db')
  BY <1>2, <1>4, <1>5, LawfulMove
<1>7. ASSUME Held(db, c)
      PROVE  Fair(db, db')
  <2>1. db.item[i].qty \in Nat /\ Worth(db.item[i]) \in Int
    BY <1>2, MadeRows
  <2>2. row.qty = db.item[i].qty + 0 /\ Worth(row) = Worth(db.item[i]) + 0
    BY <1>3, <1>7, <2>1
  <2> QED BY <1>2, <1>4, <1>6, <2>2, FairTrade
<1> QED BY <1>6, <1>7 DEF c

(* An approval reads the item again, under the lock.                        *)
LEMMA ApproveWorks ==
  ASSUME StockTyped, NEW r \in Clients, ApproveFiling(r)
  PROVE  /\ Lawful(db, db') /\ Fair(db, db')
         /\ LET f == req[r].f
                i == db.filed[f].item
            IN /\ req[r].op = "approve" /\ f \in Filings
               /\ i \in Goods /\ db'.item[i].qty = req[r].to /\ db.filed[f].status = "filed"
               /\ \A g \in Filings \ {f} : db'.filed[g] = db.filed[g]
<1> DEFINE c == req[r]
           f == c.f
           to == c.to
           q == db.filed[f]
           i == q.item
<1>1. PICK k \in NextDocument(db) :
        /\ c.op = "approve" /\ q.status = "filed"
        /\ db' = [Adjusted(db, k, i, to, q.day) EXCEPT !.filed[f].status = "posted"]
  BY DEF ApproveFiling, Serving, Commit
<1>2. c \in StockCalls /\ db \in StockDb /\ Papers(db) /\ Today \in Days
  BY InventoryAssumption DEF StockTyped, Days
<1>3. f \in Filings /\ to \in Nat
  BY <1>1, <1>2, CallShapes DEF ApproveCall
<1>4. q \in FilingRow /\ q.status # "none"
  BY <1>1, <1>2, <1>3, DbParts
<1> DEFINE day == q.day
<1>5. i \in Goods /\ Made(i) /\ day \in Days
  BY <1>2, <1>3, <1>4, FilingFacts DEF Papers, Made
<1> DEFINE x == Adjusted(db, k, i, to, day)
           row == [q EXCEPT !.status = "posted"]
<1>6. row \in FilingRow /\ row.status # "none" /\ row.item = i
  <2>1. q \in [status : {"filed", "posted"}, item : Goods, to : Nat, saw : Nat, count : BOOLEAN, day : Days]
    <3>1. q # NoFiling
      BY <1>4 DEF NoFiling
    <3> QED BY <1>4, <3>1 DEF FilingRow
  <2> HIDE DEF q
  <2> QED BY <2>1 DEF FilingRow, i
<1> HIDE DEF c, f, to, i, day
<1>7. /\ Lawful(db, x) /\ Fair(db, x) /\ x.filed = db.filed
      /\ x.item = [db.item EXCEPT ![i] = [db.item[i] EXCEPT !.qty = to]]
  BY <1>2, <1>3, <1>5, AdjustedWorks
<1>8. db' = [x EXCEPT !.filed[f].status = "posted"]
  BY <1>1 DEF f, to, i, c, day
<1> HIDE DEF x
<1>9. x \in StockDb
  BY <1>7 DEF Lawful
<1>10. db' = [x EXCEPT !.filed[f] = row]
  BY <1>3, <1>7, <1>8, <1>9 DEF StockDb
<1> HIDE DEF row
<1>11. x.item[i].made
  <2>1. db.item[i].made /\ Frozen(db, x)
    BY <1>5, <1>7 DEF Made, Lawful
  <2> QED BY <1>5, <2>1 DEF Frozen
<1>12. /\ Lawful(db, db') /\ db'.item = x.item /\ db'.moved = x.moved /\ db'.gl = x.gl
       /\ db'.filed = [x.filed EXCEPT ![f] = row]
  <2>1. x.item[row.item].made /\ Lawful(db, x)
    BY <1>6, <1>7, <1>11
  <2> HIDE DEF q
  <2> QED BY <1>2, <1>3, <1>6, <1>10, <2>1, FilingChanges
<1>13. Fair(db, db')
  BY <1>7, <1>12, TradeByFields DEF Fair
<1>14. db'.item[i].qty = to
  BY <1>2, <1>5, <1>7, <1>12, DbParts, MadeRows DEF MadeRow
<1>15. \A g \in Filings \ {f} : db'.filed[g] = db.filed[g]
  BY <1>2, <1>7, <1>12, DbParts
<1>16. c.op = "approve" /\ db.filed[f].status = "filed"
  BY <1>1
<1> QED BY <1>3, <1>5, <1>12, <1>13, <1>14, <1>15, <1>16 DEF c, f, to, i, q

LEMMA CountWorks ==
  ASSUME StockTyped, NEW r \in Clients, Count(r)
  PROVE  Lawful(db, db') /\ (Held(db, req[r]) => Fair(db, db')) /\ Unposted(db, db')
<1> DEFINE c == req[r]
           i == c.i
           day == c.day
           to == c.q
           seen == c.seen
           by == to - seen.qty
           v == AtAverage(seen, by)
           row == [seen EXCEPT !.qty = to]
<1>1. PICK k \in NextDocument(db) :
        /\ c.op = "count"
        /\ db' = Noted(Moved(Stored(db, i, row), i, day, day, by, v), k, "adjusted", i, day, by, v)
  BY DEF Count, Serving, Commit
<1>2. c \in StockCalls /\ db \in StockDb /\ Papers(db) /\ "adjusted" \in Kinds
  BY DEF StockTyped, Kinds
<1>3. i \in Goods /\ seen \in MadeRow /\ day \in Days /\ to \in Nat
  BY <1>1, <1>2, CallShapes DEF CountCall
<1>4. Held(db, c) => seen = db.item[i]
  BY <1>1 DEF Held
<1> HIDE DEF c, i, day, to, seen
<1>5. row \in MadeRow /\ row.qty = to /\ Worth(row) = Worth(seen) + v
  BY <1>3, ByAverage
<1>6. seen.qty \in Nat /\ seen \in StockRow
  BY <1>3 DEF MadeRow, StockRow
<1>7. by \in Int
  BY <1>3, <1>6
<1>8. v \in Int
  BY <1>6, <1>7, RowFacts
<1>9. row.qty = seen.qty + by
  BY <1>3, <1>5, <1>6
<1> DEFINE x == Noted(Moved(Stored(db, i, row), i, day, day, by, v), k, "adjusted", i, day, by, v)
<1>10. db' = x
  BY <1>1 DEF c, i, day, to, seen
<1> HIDE DEF by, v, row
<1>11. Lawful(db, x) /\ Trade(db, x, i, row, day, day, by, v) /\ Unposted(db, x)
  BY <1>2, <1>3, <1>5, <1>7, <1>8, LawfulPaper
<1> HIDE DEF x
<1>12. Held(db, c) => Fair(db, x)
  BY <1>2, <1>3, <1>4, <1>5, <1>7, <1>8, <1>9, <1>11, FairTrade
<1> QED BY <1>10, <1>11, <1>12 DEF c

LEMMA SellWorks ==
  ASSUME StockTyped, NEW r \in Clients, SellItem(r)
  PROVE  Lawful(db, db') /\ (Held(db, req[r]) => Fair(db, db')) /\ Unposted(db, db')
<1> DEFINE c == req[r]
           i == c.i
           day == c.day
           q == c.q
           seen == c.seen
           out == -q
           v == -AtAverage(seen, q)
           row == [seen EXCEPT !.qty = @ - q]
<1>1. PICK k \in NextDocument(db) :
        /\ c.op = "sell"
        /\ db' = Noted(Moved(Stored(db, i, row), i, day, day, out, v), k, "sold", i, day, out, v)
  BY DEF SellItem, Serving, Commit
<1>2. c \in StockCalls /\ db \in StockDb /\ Papers(db) /\ "sold" \in Kinds /\ Found(db, c)
  BY DEF StockTyped, Kinds
<1>3. i \in Goods /\ seen \in MadeRow /\ day \in Days /\ q \in Nat
  BY <1>1, <1>2, CallShapes, InventoryAssumption DEF SellCall
<1>4. (Held(db, c) => seen = db.item[i]) /\ q <= seen.qty
  BY <1>1, <1>2 DEF Held, Found
<1> HIDE DEF c, i, day, q, seen
<1>5. seen.qty \in Nat
  BY <1>3 DEF MadeRow
<1>6. seen.qty >= q
  BY <1>3, <1>4, <1>5
<1>7. /\ row \in MadeRow /\ row.qty = seen.qty + (-q)
      /\ Worth(row) = Worth(seen) + (-AtAverage(seen, q)) /\ AtAverage(seen, q) \in Int
  BY <1>3, <1>6, OutAtAverage
<1>8. out \in Int /\ v \in Int /\ row.qty = seen.qty + out /\ Worth(row) = Worth(seen) + v
  BY <1>3, <1>7
<1> DEFINE x == Noted(Moved(Stored(db, i, row), i, day, day, out, v), k, "sold", i, day, out, v)
<1>9. db' = x
  BY <1>1 DEF c, i, day, q, seen
<1> HIDE DEF out, v, row
<1>10. Lawful(db, x) /\ Trade(db, x, i, row, day, day, out, v) /\ Unposted(db, x)
  BY <1>2, <1>3, <1>7, <1>8, LawfulPaper
<1> HIDE DEF x
<1>11. Held(db, c) => Fair(db, x)
  BY <1>2, <1>3, <1>4, <1>7, <1>8, <1>10, FairTrade
<1> QED BY <1>9, <1>10, <1>11 DEF c

LEMMA RestockWorks ==
  ASSUME StockTyped, NEW r \in Clients, Restock(r)
  PROVE  /\ Lawful(db, db') /\ (~Emptying /\ Held(db, req[r]) => Fair(db, db'))
         /\ Unposted(db, db')
<1> DEFINE c == req[r]
           i == c.i
           day == c.day
           q == c.q
           seen == c.seen
           v == c.q * c.c
           u == seen.unit
<1>1. PICK k \in NextDocument(db) :
        /\ c.op = "restock"
        /\ db' = Noted(Moved(Stored(db, i, Averaged(seen, q, v, u)), i, day, day, q, v),
                       k, "restocked", i, day, q, v)
  BY DEF Restock, Serving, Commit
<1>2. c \in StockCalls /\ db \in StockDb /\ Papers(db) /\ "restocked" \in Kinds /\ Found(db, c)
  BY DEF StockTyped, Kinds
<1>3. i \in Goods /\ seen \in MadeRow /\ day \in Days /\ q \in Nat \ {0} /\ c.c \in Nat
  BY <1>1, <1>2, CallShapes, InventoryAssumption DEF RestockCall
<1>4. v \in Int
  <2>1. \A a, b \in Nat : a * b \in Int
    OBVIOUS
  <2> QED BY <1>3, <2>1
<1>5. (Held(db, c) => seen = db.item[i]) /\ WholeAverage(seen, q, v)
  BY <1>1, <1>2 DEF Held, Found
<1> DEFINE x == Noted(Moved(Stored(db, i, Averaged(seen, q, v, u)), i, day, day, q, v),
                      k, "restocked", i, day, q, v)
<1>6. db' = x
  BY <1>1
<1> HIDE DEF c, i, day, q, v, seen
<1>7. seen.qty \in Nat /\ seen.unit \in Int
  BY <1>3 DEF MadeRow
<1>8. seen.qty + q > 0 /\ q \in Int /\ u \in Int
  BY <1>3, <1>7
<1>9. LeavesNothing(seen, q, v) /\ seen.qty + q >= 0
  BY <1>3, <1>7, <1>8 DEF LeavesNothing
<1> HIDE DEF u
<1>10. Lawful(db, x) /\ Unposted(db, x) /\ (~Emptying /\ seen = db.item[i] => Fair(db, x))
  BY <1>2, <1>3, <1>4, <1>5, <1>8, <1>9, AbsorbedWithPaper
<1> HIDE DEF x
<1> QED BY <1>5, <1>6, <1>10 DEF c

LEMMA VoidWorks ==
  ASSUME StockTyped, NEW r \in Clients, Void(r)
  PROVE  /\ Lawful(db, db') /\ (~Emptying /\ Held(db, req[r]) => Fair(db, db'))
         /\ Unposted(db, db')
<1> DEFINE c == req[r]
           k == c.k
           was == db.doc[k]
           i == was.item
           seen == c.seen
           row == IF was.kind = "returned" THEN db.item[i] ELSE seen
           day == was.day
           q == -was.qty
           v == -was.value
           now == Averaged(row, q, v, 0)
           x == Moved(Stored(db, i, now), i, day, Today, q, v)
<1>1. c.op = "void" /\ WholeAverage(row, q, v) /\ db' = [x EXCEPT !.doc[k].live = FALSE]
  BY DEF Void, Serving, Commit, ValueOnVoid
<1>2. c \in StockCalls /\ db \in StockDb /\ Papers(db) /\ Today \in Days /\ Found(db, c)
  BY InventoryAssumption DEF StockTyped, Days
<1>3. k \in Documents /\ seen \in MadeRow
  BY <1>1, <1>2, CallShapes DEF VoidCall
<1>4. was \in PaperRow /\ was.kind # "none"
  BY <1>1, <1>2, <1>3, DbParts DEF Found
<1>5. i \in Goods /\ day \in Days /\ was.qty \in Int /\ was.value \in Int /\ was.kind \in Kinds
  BY <1>4, PaperFacts
<1>6. db.item[i].made /\ (was.kind = "returned" => was.qty <= 0)
  BY <1>2, <1>3, <1>4 DEF Papers
<1>7. seen.qty - was.qty >= 0 /\ LeavesNothing(seen, q, v)
  BY <1>1, <1>2 DEF Found
<1>8. Held(db, c) => seen = db.item[i]
  BY <1>1 DEF Held
<1>9. db.item[i] \in MadeRow
  BY <1>5, <1>6, MadeRows DEF Made
<1>10. row \in MadeRow
  BY <1>3, <1>9
<1>11. q \in Int /\ v \in Int
  BY <1>5
<1>12. row.qty + q >= 0
  <2>1. seen.qty \in Nat /\ db.item[i].qty \in Nat
    BY <1>3, <1>9 DEF MadeRow
  <2>2. CASE was.kind = "returned"
    BY <1>5, <1>6, <2>1, <2>2, SMTT(30)
  <2>3. CASE was.kind # "returned"
    BY <1>5, <1>7, <2>1, <2>3
  <2> QED BY <2>2, <2>3
<1>13. was \in [kind : Kinds, item : Goods, day : Days, qty : Int, value : Int, live : BOOLEAN]
  <2>1. was # NoDocument
    BY <1>4 DEF NoDocument
  <2> HIDE DEF was
  <2> QED BY <1>4, <2>1 DEF PaperRow
<1> DEFINE paper == [was EXCEPT !.live = FALSE]
<1>14. /\ paper \in PaperRow /\ paper.kind = was.kind /\ paper.item = was.item
       /\ paper.qty = was.qty /\ paper.value = was.value
  <2> HIDE DEF was
  <2> QED BY <1>13 DEF PaperRow
<1>15. now \in MadeRow
  <2> HIDE DEF row, q, v
  <2> QED BY <1>10, <1>11, <1>12, AveragedIsRow
<1>16. /\ Lawful(db, x) /\ Trade(db, x, i, now, day, Today, q, v) /\ Unposted(db, x)
       /\ x.item = [db.item EXCEPT ![i] = now] /\ x.doc = db.doc /\ x.filed = db.filed
  <2> HIDE DEF now, q, v, i, day
  <2> QED BY <1>2, <1>5, <1>11, <1>15, LawfulMove
<1> HIDE DEF x
<1>17. x \in StockDb
  BY <1>16 DEF Lawful
<1>18. db' = [x EXCEPT !.doc = [x.doc EXCEPT ![k] = paper]]
  BY <1>1, <1>3, <1>16, <1>17 DEF StockDb
<1> DEFINE docs == [x.doc EXCEPT ![k] = paper]
<1>19. docs \in [Documents -> PaperRow] /\ db' = [x EXCEPT !.doc = docs]
  <2> HIDE DEF paper
  <2> QED BY <1>14, <1>17, <1>18, DbParts
<1>20. docs[k] = paper /\ \A j \in Documents \ {k} : docs[j] = db.doc[j]
  <2> HIDE DEF paper
  <2> QED BY <1>2, <1>3, <1>16, DbParts, ZenonT(40)
<1> HIDE DEF docs
<1>21. /\ db' \in StockDb /\ db'.item = x.item /\ db'.moved = x.moved /\ db'.gl = x.gl
       /\ db'.doc = docs /\ db'.filed = x.filed
  BY <1>17, <1>19 DEF StockDb
<1>22. /\ \A j \in Documents : /\ docs[j].kind = db.doc[j].kind
                               /\ db.doc[j].kind # "none" => /\ docs[j].item = db.doc[j].item
                                                             /\ docs[j].qty = db.doc[j].qty
                                                             /\ docs[j].value = db.doc[j].value
  BY <1>14, <1>20
<1>23. Papers(db') /\ Frozen(db, db')
  <2>1. Papers(x) /\ Frozen(db, x) /\ x.doc = db.doc
    BY <1>16 DEF Lawful
  <2> HIDE DEF c, k, was, i, seen, row, day, q, v, now, paper
  <2>2. Papers(db')
    BY <1>21, <1>22, <2>1 DEF Papers
  <2>3. Frozen(db, db')
    BY <1>21, <1>22, <2>1 DEF Frozen
  <2> QED BY <2>2, <2>3
<1>24. Lawful(db, db')
  BY <1>21, <1>23 DEF Lawful
<1>25. ASSUME ~Emptying, Held(db, c)
       PROVE  Fair(db, db')
  <2>1. row = seen /\ row = db.item[i]
    BY <1>8, <1>25
  <2>2. row.qty + q = 0 => Worth(row) + v = 0
    BY <1>7, <1>25, <2>1 DEF LeavesNothing
  <2>3. WholeAverage(row, q, v)
    BY <1>1
  <2> HIDE DEF row, q, v
  <2>4. now.qty = row.qty + q /\ Worth(now) = Worth(row) + v
    BY <1>10, <1>11, <1>12, <2>2, <2>3, Averages
  <2> HIDE DEF now, i, day
  <2>5. Trade(db, db', i, now, day, Today, q, v)
    BY <1>16, <1>21, TradeByFields
  <2> QED BY <1>2, <1>5, <1>11, <1>15, <2>1, <2>4, <2>5, FairTrade
<1> QED BY <1>16, <1>21, <1>24, <1>25 DEF c, Unposted

-----------------------------------------------------------------------------
(* Steps                                                                    *)

Unlocked == {"edit", "transfer", "count", "sell", "restock", "void"}

(* What an approval will post is what was meant, given the shelf as it is.  *)
Meant(d, c) ==
  c.op = "approve" =>
    LET q == d.filed[c.f]
    IN q.status = "filed" /\ MayApprove(d.item[q.item], q) /\ c.to = Rebased(d.item[q.item], q)

LEMMA AskWorks ==
  ASSUME StockTyped, NEW r \in Clients, AskStep(r)
  PROVE  \E call \in StockCalls :
           /\ Ask(r, call) /\ call.op \in Unlocked \cup {"approve"}
           /\ Found(db, call) /\ Held(db, call) /\ Meant(db, call)
<1>0. db \in StockDb /\ Papers(db)
  BY DEF StockTyped
<1>1. CASE AskEdit(r)
  <2>1. PICK i \in Goods, c \in Costs :
          /\ Made(i) /\ (c # db.item[i].unit => MayReprice(db.item[i]))
          /\ Ask(r, [op |-> "edit", i |-> i, c |-> c, seen |-> db.item[i]])
    BY <1>1 DEF AskEdit
  <2> DEFINE call == [op |-> "edit", i |-> i, c |-> c, seen |-> db.item[i]]
  <2>2. db.item[i] \in MadeRow
    BY <2>1, MadeRows
  <2>3. call \in EditCall /\ call.op = "edit" /\ call.i = i /\ call.c = c /\ call.seen = db.item[i]
    BY <2>2 DEF EditCall
  <2>4. Ask(r, call)
    BY <2>1
  <2> HIDE DEF call
  <2>5. call \in StockCalls
    BY <2>3 DEF StockCalls
  <2>6. Found(db, call) /\ Held(db, call) /\ Meant(db, call)
    BY <2>1, <2>3 DEF Found, Held, Meant, MayReprice
  <2> QED BY <2>3, <2>4, <2>5, <2>6 DEF Unlocked
<1>2. CASE AskTransfer(r)
  <2>1. PICK i \in Goods, day \in Days :
          Made(i) /\ Ask(r, [op |-> "transfer", i |-> i, day |-> day, seen |-> db.item[i]])
    BY <1>2 DEF AskTransfer
  <2> DEFINE call == [op |-> "transfer", i |-> i, day |-> day, seen |-> db.item[i]]
  <2>2. db.item[i] \in MadeRow
    BY <2>1, MadeRows
  <2>3. call \in TransferCall /\ call.op = "transfer" /\ call.i = i /\ call.seen = db.item[i]
    BY <2>2 DEF TransferCall
  <2>4. Ask(r, call)
    BY <2>1
  <2> HIDE DEF call
  <2>5. call \in StockCalls
    BY <2>3 DEF StockCalls
  <2>6. Found(db, call) /\ Held(db, call) /\ Meant(db, call)
    BY <2>3 DEF Found, Held, Meant
  <2> QED BY <2>3, <2>4, <2>5, <2>6 DEF Unlocked
<1>3. CASE AskApprove(r)
  <2>1. PICK f \in Filings :
          LET q == db.filed[f]
          IN /\ q.status = "filed"
             /\ MayApprove(db.item[q.item], q)
             /\ Ask(r, [op |-> "approve", f |-> f, to |-> Rebased(db.item[q.item], q)])
    BY <1>3 DEF AskApprove
  <2> DEFINE q == db.filed[f]
             to == Rebased(db.item[q.item], q)
             call == [op |-> "approve", f |-> f, to |-> to]
  <2>2. q.item \in Goods /\ q.to \in Nat /\ q.saw \in Nat /\ q.count \in BOOLEAN
    BY <1>0, <2>1, DbParts, FilingFacts
  <2>3. db.item[q.item].qty \in Nat
    BY <2>2, MadeRows
  <2>4. to \in Nat
    BY <2>1, <2>2, <2>3, SMTT(30) DEF MayApprove, Rebased
  <2>5. Ask(r, call) /\ MayApprove(db.item[q.item], q) /\ to = Rebased(db.item[q.item], q)
        /\ q.status = "filed"
    BY <2>1
  <2> HIDE DEF to
  <2>6. call \in ApproveCall /\ call.op = "approve" /\ call.f = f /\ call.to = to
    BY <2>4 DEF ApproveCall
  <2> HIDE DEF call
  <2>7. call \in StockCalls
    BY <2>6 DEF StockCalls
  <2>8. Found(db, call) /\ Held(db, call)
    BY <2>5, <2>6 DEF Found, Held
  <2>9. Meant(db, call)
    BY <2>5, <2>6 DEF Meant
  <2> QED BY <2>5, <2>6, <2>7, <2>8, <2>9
<1>4. CASE AskCount(r)
  <2>1. PICK i \in Goods, q \in Quantities \cup {0}, day \in Days :
          Made(i) /\ Ask(r, [op |-> "count", i |-> i, q |-> q, day |-> day, seen |-> db.item[i]])
    BY <1>4 DEF AskCount
  <2> DEFINE call == [op |-> "count", i |-> i, q |-> q, day |-> day, seen |-> db.item[i]]
  <2>2. db.item[i] \in MadeRow
    BY <2>1, MadeRows
  <2>3. q \in Nat
    BY InventoryAssumption
  <2>4. call \in CountCall /\ call.op = "count" /\ call.i = i /\ call.seen = db.item[i]
    BY <2>2, <2>3 DEF CountCall
  <2>5. Ask(r, call)
    BY <2>1
  <2> HIDE DEF call
  <2>6. call \in StockCalls
    BY <2>4 DEF StockCalls
  <2>7. Found(db, call) /\ Held(db, call) /\ Meant(db, call)
    BY <2>4 DEF Found, Held, Meant
  <2> QED BY <2>4, <2>5, <2>6, <2>7 DEF Unlocked
<1>5. CASE AskSell(r)
  <2>1. PICK i \in Goods, q \in Quantities, day \in Days :
          /\ Made(i) /\ db.item[i].qty >= q
          /\ Ask(r, [op |-> "sell", i |-> i, q |-> q, day |-> day, seen |-> db.item[i]])
    BY <1>5 DEF AskSell
  <2> DEFINE call == [op |-> "sell", i |-> i, q |-> q, day |-> day, seen |-> db.item[i]]
  <2>2. db.item[i] \in MadeRow /\ db.item[i].qty \in Nat
    BY <2>1, MadeRows
  <2>3. q \in Nat
    BY InventoryAssumption
  <2>4. /\ call \in SellCall /\ call.op = "sell" /\ call.i = i /\ call.seen = db.item[i]
        /\ call.q = q
    BY <2>2 DEF SellCall
  <2>5. Ask(r, call)
    BY <2>1
  <2> HIDE DEF call
  <2>6. call \in StockCalls
    BY <2>4 DEF StockCalls
  <2>7. Found(db, call) /\ Held(db, call) /\ Meant(db, call)
    BY <2>1, <2>2, <2>3, <2>4 DEF Found, Held, Meant
  <2> QED BY <2>4, <2>5, <2>6, <2>7 DEF Unlocked
<1>6. CASE AskRestock(r)
  <2>1. PICK i \in Goods, q \in Quantities, day \in Days : \E c \in Costs \cup {db.item[i].unit} :
          /\ Made(i) /\ c > 0 /\ WholeAverage(db.item[i], q, q * c)
          /\ Ask(r, [op |-> "restock", i |-> i, q |-> q, c |-> c, day |-> day, seen |-> db.item[i]])
    BY <1>6 DEF AskRestock
  <2>2. PICK c \in Costs \cup {db.item[i].unit} :
          /\ Made(i) /\ c > 0 /\ WholeAverage(db.item[i], q, q * c)
          /\ Ask(r, [op |-> "restock", i |-> i, q |-> q, c |-> c, day |-> day, seen |-> db.item[i]])
    BY <2>1
  <2> DEFINE call == [op |-> "restock", i |-> i, q |-> q, c |-> c, day |-> day, seen |-> db.item[i]]
  <2>3. db.item[i] \in MadeRow
    BY <2>2, MadeRows
  <2>4. c \in Nat
    <3>1. c \in Int
      BY <2>3, InventoryAssumption DEF MadeRow
    <3> QED BY <2>2, <3>1
  <2>5. /\ call \in RestockCall /\ call.op = "restock" /\ call.i = i /\ call.seen = db.item[i]
        /\ call.q = q /\ call.c = c
    BY <2>3, <2>4 DEF RestockCall
  <2>6. Ask(r, call)
    BY <2>2
  <2> HIDE DEF call
  <2>7. call \in StockCalls
    BY <2>5 DEF StockCalls
  <2>8. Found(db, call) /\ Held(db, call) /\ Meant(db, call)
    BY <2>2, <2>5 DEF Found, Held, Meant
  <2> QED BY <2>5, <2>6, <2>7, <2>8 DEF Unlocked
<1>7. CASE AskVoid(r)
  <2>1. PICK k \in OfKind({"sold", "returned", "restocked"}) :
          LET was == db.doc[k]
              row == db.item[was.item]
          IN /\ row.qty - was.qty >= 0
             /\ LeavesNothing(row, -was.qty, -was.value)
             /\ Ask(r, [op |-> "void", k |-> k, seen |-> row])
    BY <1>7 DEF AskVoid
  <2> DEFINE was == db.doc[k]
             row == db.item[was.item]
             call == [op |-> "void", k |-> k, seen |-> row]
  <2>2. k \in Documents /\ was.kind \in {"sold", "returned", "restocked"}
    BY DEF OfKind
  <2>3. was.item \in Goods /\ row.made
    BY <1>0, <2>2, DbParts, PaperFacts DEF Papers
  <2>4. row \in MadeRow
    BY <2>3, MadeRows DEF Made
  <2>5. /\ call \in VoidCall /\ call.op = "void" /\ call.k = k /\ call.seen = row
    BY <2>2, <2>4 DEF VoidCall
  <2>6. Ask(r, call)
    BY <2>1
  <2> HIDE DEF call
  <2>7. call \in StockCalls
    BY <2>5 DEF StockCalls
  <2>8. Found(db, call) /\ Held(db, call) /\ Meant(db, call)
    BY <2>1, <2>2, <2>5 DEF Found, Held, Meant
  <2> QED BY <2>5, <2>6, <2>7, <2>8 DEF Unlocked
<1> QED BY <1>1, <1>2, <1>3, <1>4, <1>5, <1>6, <1>7 DEF AskStep

LEMMA ServeWorks ==
  ASSUME StockTyped, NEW r \in Clients, ServeStep(r)
  PROVE  /\ Lawful(db, db') /\ (~Emptying /\ Held(db, req[r]) => Fair(db, db'))
         /\ req' = [req EXCEPT ![r] = [op |-> "idle"]] /\ req[r].op \in Unlocked \cup {"approve"}
         /\ writes' = writes + 1 /\ apart' = apart
         /\ req[r].op \in Unlocked => Unposted(db, db')
<1>1. CASE EditItem(r)
  BY <1>1, EditWorks DEF EditItem, Serving, Commit, Unlocked
<1>2. CASE Transfer(r)
  BY <1>2, TransferWorks DEF Transfer, Serving, Commit, Unlocked
<1>3. CASE ApproveFiling(r)
  <2>1. Lawful(db, db') /\ Fair(db, db') /\ req[r].op = "approve"
    BY <1>3, ApproveWorks
  <2> QED BY <1>3, <2>1 DEF ApproveFiling, Commit, Unlocked
<1>4. CASE Count(r)
  BY <1>4, CountWorks DEF Count, Serving, Commit, Unlocked
<1>5. CASE SellItem(r)
  BY <1>5, SellWorks DEF SellItem, Serving, Commit, Unlocked
<1>6. CASE Restock(r)
  BY <1>6, RestockWorks DEF Restock, Serving, Commit, Unlocked
<1>7. CASE Void(r)
  BY <1>7, VoidWorks DEF Void, Serving, Commit, Unlocked
<1> QED BY <1>1, <1>2, <1>3, <1>4, <1>5, <1>6, <1>7 DEF ServeStep

LEMMA LockedWorks ==
  ASSUME StockTyped, LockedStep
  PROVE  /\ Lawful(db, db') /\ (~Emptying => Fair(db, db')) /\ Unposted(db, db')
         /\ req' = req /\ writes' = writes + 1 /\ apart' = (apart /\ Alone)
         /\ \A q \in Clients : Quiet(q) \/ req[q].op \in Overlapping
<1>1. \E d : Locked(d)
  <2>1. CreateItem \/ SetOpeningStock \/ Import \/ Adjust \/ File => \E d : Locked(d)
    BY DEF CreateItem, SetOpeningStock, Import, Adjust, File
  <2>2. ReverseAdjustment => \E d : Locked(d)
    BY DEF ReverseAdjustment
  <2>3. Receive \/ CorrectReceipt => \E d : Locked(d)
    BY DEF Receive, CorrectReceipt
  <2>4. Return => \E d : Locked(d)
    BY DEF Return
  <2> QED BY <2>1, <2>2, <2>3, <2>4 DEF LockedStep
<1>2. /\ req' = req /\ writes' = writes + 1 /\ apart' = (apart /\ Alone)
      /\ \A q \in Clients : Quiet(q) \/ req[q].op \in Overlapping
  BY <1>1 DEF Locked
<1>3. Lawful(db, db') /\ (~Emptying => Fair(db, db')) /\ Unposted(db, db')
  BY CreateItemWorks, SetOpeningStockWorks, ImportWorks, AdjustWorks, FileWorks,
     ReverseAdjustmentWorks, ReceiveWorks, CorrectReceiptWorks, ReturnWorks DEF LockedStep
<1> QED BY <1>2, <1>3

(* The four kinds of step.                                                  *)
LEMMA StepKinds ==
  ASSUME [StockNext]_stockVars
  PROVE  \/ \E r \in Clients : AskStep(r) \/ ServeStep(r) \/ Drop(r)
         \/ LockedStep
         \/ UNCHANGED stockVars
  BY DEF StockNext

LEMMA FoundStays ==
  ASSUME NEW d \in StockDb, NEW x, Lawful(d, x), NEW c \in StockCalls, Found(d, c)
  PROVE  Found(x, c)
<1>1. Frozen(d, x)
  BY DEF Lawful
<1>2. CASE c.op = "approve"
  <2>1. c.f \in Filings
    BY <1>2, CallShapes DEF ApproveCall
  <2> QED BY <1>1, <1>2, <2>1 DEF Found, Frozen
<1>3. CASE c.op = "void"
  <2>1. c.k \in Documents
    BY <1>3, CallShapes DEF VoidCall
  <2>2. d.doc[c.k].kind # "none"
    BY <1>3 DEF Found
  <2>3. /\ x.doc[c.k].kind = d.doc[c.k].kind
        /\ x.doc[c.k].qty = d.doc[c.k].qty /\ x.doc[c.k].value = d.doc[c.k].value
    BY <1>1, <2>1, <2>2 DEF Frozen
  <2> QED BY <1>3, <2>3 DEF Found
<1>4. CASE c.op \notin {"approve", "void"}
  BY <1>4 DEF Found
<1> QED BY <1>2, <1>3, <1>4

LEMMA IdleCall ==
  LET c == [op |-> "idle"]
  IN c \in StockCalls /\ c.op = "idle" /\ \A d : Found(d, c) /\ Held(d, c) /\ Meant(d, c)
<1> DEFINE c == [op |-> "idle"]
<1>1. c \in StockCalls /\ c.op = "idle"
  BY DEF StockCalls
<1> HIDE DEF c
<1>2. \A d : Found(d, c) /\ Held(d, c) /\ Meant(d, c)
  BY <1>1 DEF Found, Held, Meant
<1> QED BY <1>1, <1>2 DEF c

LEMMA StockTypedInit == StockInit => StockTyped
<1>1. SUFFICES ASSUME StockInit PROVE StockTyped
  OBVIOUS
<1>2. NoItem \in StockRow /\ NothingMoved \in DayRow /\ NoDocument \in PaperRow /\ NoFiling \in FilingRow
  BY DEF StockRow, NothingMoved, DayRow, PaperRow, FilingRow
<1>3. db \in StockDb
  BY <1>1, <1>2 DEF StockInit, StockDb
<1>4. /\ \A k \in Documents : db.doc[k].kind = "none"
      /\ \A f \in Filings : db.filed[f].status = "none"
  BY <1>1 DEF StockInit, NoDocument, NoFiling
<1>5. Papers(db)
  BY <1>4 DEF Papers
<1>6. req \in [Clients -> StockCalls] /\ \A r \in Clients : Found(db, req[r])
  BY <1>1, IdleCall DEF StockInit
<1> QED BY <1>1, <1>3, <1>5, <1>6 DEF StockTyped, StockInit

(* Requests other than the one that was served are found as they were.      *)
LEMMA StockTypedStep == StockTyped /\ [StockNext]_stockVars => StockTyped'
<1> SUFFICES ASSUME StockTyped, [StockNext]_stockVars
             PROVE  StockTyped'
  OBVIOUS
<1>0. /\ db \in StockDb /\ Papers(db) /\ req \in [Clients -> StockCalls]
      /\ \A r \in Clients : req[r] \in StockCalls /\ Found(db, req[r])
      /\ writes \in Nat /\ apart \in BOOLEAN
  BY DEF StockTyped
<1>1. ASSUME NEW r \in Clients, AskStep(r)
      PROVE  StockTyped'
  <2>1. PICK call \in StockCalls :
          /\ Ask(r, call) /\ call.op \in Unlocked \cup {"approve"}
          /\ Found(db, call) /\ Held(db, call) /\ Meant(db, call)
    BY <1>1, AskWorks
  <2>2. /\ req' = [req EXCEPT ![r] = call] /\ db' = db /\ writes' = writes
        /\ apart' = (apart /\ Alone)
    BY <2>1 DEF Ask
  <2>3. req' \in [Clients -> StockCalls] /\ \A q \in Clients : Found(db, req'[q])
    BY <1>0, <2>1, <2>2
  <2>4. apart' \in BOOLEAN
    BY <2>2
  <2> QED BY <1>0, <2>2, <2>3, <2>4 DEF StockTyped
<1>2. ASSUME NEW r \in Clients, ServeStep(r)
      PROVE  StockTyped'
  <2>1. /\ Lawful(db, db') /\ req' = [req EXCEPT ![r] = [op |-> "idle"]]
        /\ writes' = writes + 1 /\ apart' = apart
    BY <1>2, ServeWorks
  <2>2. req' \in [Clients -> StockCalls] /\ \A q \in Clients : Found(db, req'[q])
    BY <1>0, <2>1, IdleCall
  <2>3. \A q \in Clients : Found(db', req'[q])
    BY <1>0, <2>1, <2>2, FoundStays
  <2> QED BY <1>0, <2>1, <2>2, <2>3 DEF StockTyped, Lawful
<1>3. ASSUME NEW r \in Clients, Drop(r)
      PROVE  StockTyped'
  <2>1. /\ req' = [req EXCEPT ![r] = [op |-> "idle"]] /\ db' = db /\ writes' = writes
        /\ apart' = apart
    BY <1>3 DEF Drop
  <2>2. req' \in [Clients -> StockCalls] /\ \A q \in Clients : Found(db, req'[q])
    BY <1>0, <2>1, IdleCall
  <2> QED BY <1>0, <2>1, <2>2 DEF StockTyped
<1>4. ASSUME LockedStep
      PROVE  StockTyped'
  <2>1. /\ Lawful(db, db') /\ req' = req /\ writes' = writes + 1 /\ apart' = (apart /\ Alone)
    BY <1>4, LockedWorks
  <2>2. \A q \in Clients : Found(db', req[q])
    BY <1>0, <2>1, FoundStays
  <2>3. apart' \in BOOLEAN
    BY <2>1
  <2> QED BY <1>0, <2>1, <2>2, <2>3 DEF StockTyped, Lawful
<1>5. ASSUME UNCHANGED stockVars
      PROVE  StockTyped'
  BY <1>0, <1>5 DEF stockVars, StockTyped
<1> QED BY <1>1, <1>2, <1>3, <1>4, <1>5, StepKinds

-----------------------------------------------------------------------------
(* Theorems                                                                 *)

(* Type correctness, and with it that no stock is negative, that documents  *)
(* and filings are about items there are, and that what a request checked   *)
(* when it was asked is still true of what it read.                         *)
THEOREM StockStaysTyped == StockSpec => []StockTyped
  BY StockTypedInit, StockTypedStep, PTL DEF StockSpec

(* Who reads and then writes is served alone, and what it read still holds. *)
Sole == \A r, q \in Clients : req[r].op \in Unlocked /\ ~Quiet(q) => q = r
WorthKept ==
  /\ StockKept(db)
  /\ Sole
  /\ \A r \in Clients : Held(db, req[r])

LEMMA StockKeptInit == StockInit => WorthKept
<1> SUFFICES ASSUME StockInit PROVE WorthKept
  OBVIOUS
<1>1. /\ \A i \in Goods : db.item[i] = NoItem
      /\ \A i \in Goods, t \in Days : db.moved[i][t] = NothingMoved
      /\ \A t \in Days : db.gl[t] = 0
      /\ \A r \in Clients : req[r] = [op |-> "idle"]
  BY DEF StockInit
<1>2. \A i \in Goods : db.item[i].qty = 0 /\ Worth(db.item[i]) = 0
  BY <1>1 DEF NoItem, Worth
<1>3. \A i \in Goods, t \in Days : db.moved[i][t].qty = 0 /\ db.moved[i][t].value = 0
  BY <1>1 DEF NothingMoved
<1>4. \A i \in Goods : Units(db, i) = 0 /\ Value(db, i) = 0
  <2> TAKE i \in Goods
  <2> DEFINE qs == [t \in Days |-> db.moved[i][t].qty]
             vs == [t \in Days |-> db.moved[i][t].value]
  <2>1. \A t \in Days : qs[t] = 0 /\ vs[t] = 0
    BY <1>3
  <2> HIDE DEF qs, vs
  <2>2. Sum(qs, Days) = 0 /\ Sum(vs, Days) = 0
    BY <2>1, DaysFinite, SumZero
  <2> QED BY <2>2 DEF Units, Value, qs, vs
<1>5. Booked(db) = 0
  BY <1>1, DaysFinite, SumZero DEF Booked
<1>6. Snapshot(db) = 0
  <2> DEFINE w == [i \in Goods |-> Worth(db.item[i])]
  <2>1. \A i \in Goods : w[i] = 0
    BY <1>2
  <2> HIDE DEF w
  <2>2. Sum(w, Goods) = 0
    BY <2>1, InventoryAssumption, SumZero
  <2> QED BY <2>2 DEF Snapshot, w
<1>7. StockKept(db)
  BY <1>2, <1>4, <1>5, <1>6 DEF StockKept
<1>8. Sole /\ \A r \in Clients : Held(db, req[r])
  BY <1>1, IdleCall DEF Sole, Unlocked
<1> QED BY <1>7, <1>8 DEF WorthKept

(* Clients other than r are left as they are.                               *)
LEMMA SoleServed ==
  ASSUME req \in [Clients -> StockCalls], Sole, NEW r \in Clients,
         req' = [req EXCEPT ![r] = [op |-> "idle"]]
  PROVE  Sole'
<1>1. \A q \in Clients : req'[q] = req[q] \/ req'[q].op = "idle"
  OBVIOUS
<1> QED BY <1>1 DEF Sole, Unlocked, Quiet

LEMMA StockKeptStep ==
  ASSUME ~Emptying, Unlocked \cap Overlapping = {}
  PROVE  StockTyped /\ WorthKept /\ [StockNext]_stockVars => WorthKept'
<1> SUFFICES ASSUME StockTyped, WorthKept, [StockNext]_stockVars
             PROVE  WorthKept'
  OBVIOUS
<1>0. /\ db \in StockDb /\ req \in [Clients -> StockCalls] /\ StockKept(db) /\ Sole
      /\ \A r \in Clients : Held(db, req[r])
  BY DEF StockTyped, WorthKept
<1>1. ASSUME NEW r \in Clients, AskStep(r)
      PROVE  WorthKept'
  <2>1. PICK call \in StockCalls :
          /\ Ask(r, call) /\ call.op \in Unlocked \cup {"approve"}
          /\ Found(db, call) /\ Held(db, call) /\ Meant(db, call)
    BY <1>1, AskWorks
  <2>2. /\ req' = [req EXCEPT ![r] = call] /\ db' = db /\ Quiet(r)
        /\ \A q \in Clients : Quiet(q) \/ {call.op, req[q].op} \subseteq Overlapping
    BY <2>1 DEF Ask
  <2>3. req'[r] = call /\ \A q \in Clients \ {r} : req'[q] = req[q]
    BY <1>0, <2>2
  <2>4. \A q \in Clients : Held(db, req'[q])
    BY <1>0, <2>1, <2>3
  <2>5. Sole'
    <3>1. SUFFICES ASSUME NEW p \in Clients, NEW q \in Clients,
                          req'[p].op \in Unlocked, req'[q].op # "idle"
                   PROVE  q = p
      BY DEF Sole, Quiet
    <3>2. CASE p = r
      BY <2>2, <2>3, <3>1, <3>2 DEF Quiet
    <3>3. CASE p # r
      <4>1. req[p].op \in Unlocked /\ ~Quiet(p)
        BY <2>3, <3>1, <3>3 DEF Unlocked, Quiet
      <4> QED BY <2>2, <4>1
    <3> QED BY <3>2, <3>3
  <2> QED BY <1>0, <2>2, <2>4, <2>5 DEF WorthKept
<1>2. ASSUME NEW r \in Clients, ServeStep(r)
      PROVE  WorthKept'
  <2>1. /\ Lawful(db, db') /\ (~Emptying /\ Held(db, req[r]) => Fair(db, db'))
        /\ req' = [req EXCEPT ![r] = [op |-> "idle"]] /\ req[r].op \in Unlocked \cup {"approve"}
    BY <1>2, ServeWorks
  <2>2. db' \in StockDb /\ Fair(db, db')
    BY <1>0, <2>1 DEF Lawful
  <2>3. StockKept(db')
    BY <1>0, <2>2, FairKeeps
  <2>4. Sole'
    BY <1>0, <2>1, SoleServed
  <2>5. ASSUME NEW q \in Clients
        PROVE  Held(db', req'[q])
    <3>1. CASE q = r
      BY <1>0, <2>1, <3>1, IdleCall
    <3>2. CASE q # r
      <4>1. req'[q] = req[q] /\ ~Quiet(r)
        BY <1>0, <2>1, <3>2 DEF Quiet, Unlocked
      <4>2. req[q].op \notin Unlocked
        BY <1>0, <3>2, <4>1 DEF Sole
      <4> QED BY <4>1, <4>2 DEF Held, Unlocked
    <3> QED BY <3>1, <3>2
  <2> QED BY <2>3, <2>4, <2>5 DEF WorthKept
<1>3. ASSUME NEW r \in Clients, Drop(r)
      PROVE  WorthKept'
  <2>1. req' = [req EXCEPT ![r] = [op |-> "idle"]] /\ db' = db
    BY <1>3 DEF Drop
  <2>2. \A q \in Clients : Held(db, req'[q])
    BY <1>0, <2>1, IdleCall
  <2>3. Sole'
    BY <1>0, <2>1, SoleServed
  <2> QED BY <1>0, <2>1, <2>2, <2>3 DEF WorthKept
<1>4. ASSUME LockedStep
      PROVE  WorthKept'
  <2>1. /\ Lawful(db, db') /\ (~Emptying => Fair(db, db')) /\ req' = req
        /\ \A q \in Clients : Quiet(q) \/ req[q].op \in Overlapping
    BY <1>4, LockedWorks
  <2>2. db' \in StockDb /\ Fair(db, db')
    BY <2>1 DEF Lawful
  <2>3. StockKept(db')
    BY <1>0, <2>2, FairKeeps
  <2>4. \A q \in Clients : req[q].op \notin Unlocked
    BY <2>1 DEF Quiet, Unlocked
  <2>5. \A q \in Clients : Held(db', req'[q])
    BY <2>1, <2>4 DEF Held, Unlocked
  <2>6. Sole'
    BY <1>0, <2>1 DEF Sole, Quiet
  <2> QED BY <2>3, <2>5, <2>6 DEF WorthKept
<1>5. ASSUME UNCHANGED stockVars
      PROVE  WorthKept'
  BY <1>5 DEF stockVars, WorthKept, Sole, Quiet
<1> QED BY <1>1, <1>2, <1>3, <1>4, <1>5, StepKinds

(* Qa invariants I13 and I23: the valuation table, the movements and        *)
(* account 1200 give one figure after any number of receipts, sales,        *)
(* returns, counts, corrections and voids, in any order, and the history of *)
(* an item finds on each earlier day what the movements up to it add to: if *)
(* the item rows an operation writes from an unlocked read are not written  *)
(* by another meanwhile, and the last units leave at what they are worth.   *)
THEOREM ValuationsAlwaysAgree ==
  ASSUME ~Emptying,
         {"edit", "transfer", "count", "sell", "restock", "void"} \cap Overlapping = {}
  PROVE  StockSpec => []ValuationsAgree
<1>1. StockInit => StockTyped /\ WorthKept
  BY StockTypedInit, StockKeptInit
<1>2. (StockTyped /\ WorthKept) /\ [StockNext]_stockVars => (StockTyped /\ WorthKept)'
  <2>1. Unlocked \cap Overlapping = {}
    BY DEF Unlocked
  <2>2. StockTyped /\ WorthKept /\ [StockNext]_stockVars => WorthKept'
    BY <2>1, StockKeptStep
  <2> QED BY <2>2, StockTypedStep
<1>3. StockTyped /\ WorthKept => ValuationsAgree
  BY KeptAgrees DEF StockTyped, WorthKept
<1> QED BY <1>1, <1>2, <1>3, PTL DEF StockSpec

-----------------------------------------------------------------------------
(* Approvals, whatever overlaps: while no two requests were ever served at  *)
(* once, what is about to be posted is what was meant.                      *)

MeaningKept ==
  apart => /\ \A r, q \in Clients : ~Quiet(r) /\ ~Quiet(q) => q = r
           /\ \A r \in Clients : Meant(db, req[r])

LEMMA MeaningKeptInit == StockInit => MeaningKept
<1> SUFFICES ASSUME StockInit PROVE MeaningKept
  OBVIOUS
<1>1. \A r \in Clients : req[r] = [op |-> "idle"]
  BY DEF StockInit
<1> QED BY <1>1, IdleCall DEF MeaningKept, Quiet

LEMMA MeaningKeptStep == StockTyped /\ MeaningKept /\ [StockNext]_stockVars => MeaningKept'
<1> SUFFICES ASSUME StockTyped, MeaningKept, [StockNext]_stockVars, apart'
             PROVE  /\ \A p, q \in Clients : req'[p].op # "idle" /\ req'[q].op # "idle" => q = p
                    /\ \A q \in Clients : Meant(db', req'[q])
  BY DEF MeaningKept, Quiet
<1>0. req \in [Clients -> StockCalls]
  BY DEF StockTyped
<1>1. ASSUME NEW r \in Clients, AskStep(r)
      PROVE  /\ \A p, q \in Clients : req'[p].op # "idle" /\ req'[q].op # "idle" => q = p
             /\ \A q \in Clients : Meant(db', req'[q])
  <2>1. PICK call \in StockCalls :
          /\ Ask(r, call) /\ Found(db, call) /\ Held(db, call) /\ Meant(db, call)
    BY <1>1, AskWorks
  <2>2. req' = [req EXCEPT ![r] = call] /\ db' = db /\ apart' = (apart /\ Alone)
    BY <2>1 DEF Ask
  <2>3. \A q \in Clients : req[q].op = "idle" /\ Meant(db, req[q])
    BY <2>2 DEF Alone, Quiet, MeaningKept
  <2>4. req'[r] = call /\ \A q \in Clients \ {r} : req'[q] = req[q]
    BY <1>0, <2>2
  <2> QED BY <2>1, <2>2, <2>3, <2>4
<1>2. ASSUME NEW r \in Clients, ServeStep(r) \/ Drop(r)
      PROVE  /\ \A p, q \in Clients : req'[p].op # "idle" /\ req'[q].op # "idle" => q = p
             /\ \A q \in Clients : Meant(db', req'[q])
  <2>1. req' = [req EXCEPT ![r] = [op |-> "idle"]] /\ ~Quiet(r) /\ apart' = apart
    <3>1. CASE ServeStep(r)
      BY <3>1, ServeWorks DEF Quiet, Unlocked
    <3>2. CASE Drop(r)
      BY <3>2 DEF Drop
    <3> QED BY <1>2, <3>1, <3>2
  <2>2. req'[r].op = "idle" /\ \A q \in Clients \ {r} : req'[q] = req[q] /\ req[q].op = "idle"
    BY <1>0, <2>1 DEF MeaningKept, Quiet
  <2> QED BY <2>2 DEF Meant
<1>3. ASSUME LockedStep
      PROVE  /\ \A p, q \in Clients : req'[p].op # "idle" /\ req'[q].op # "idle" => q = p
             /\ \A q \in Clients : Meant(db', req'[q])
  <2>1. req' = req /\ apart' = (apart /\ Alone)
    BY <1>3, LockedWorks
  <2>2. \A q \in Clients : req'[q].op = "idle"
    BY <2>1 DEF Alone, Quiet
  <2> QED BY <2>2 DEF Meant
<1>4. CASE UNCHANGED stockVars
  BY <1>4 DEF stockVars, MeaningKept, Quiet
<1> QED BY <1>1, <1>2, <1>3, <1>4, StepKinds

(* What an approval posted alone does to the item it is about.              *)
LEMMA ApprovalMeant ==
  ASSUME StockTyped, MeaningKept, apart, NEW r \in Clients, ApproveFiling(r),
         NEW f \in Filings, db.filed[f].status = "filed", db'.filed[f].status = "posted"
  PROVE  LET q == db.filed[f]
         IN /\ db'.item[q.item].qty - db.item[q.item].qty = q.to - q.saw
            /\ q.count => db.item[q.item].qty = q.saw
<1> DEFINE q == db.filed[f]
           i == q.item
<1>0. db \in StockDb
  BY DEF StockTyped
<1>1. /\ req[r].op = "approve" /\ db'.item[db.filed[req[r].f].item].qty = req[r].to
      /\ \A g \in Filings \ {req[r].f} : db'.filed[g] = db.filed[g]
  BY ApproveWorks
<1>2. req[r].f = f
  BY <1>1
<1>3. MayApprove(db.item[i], q) /\ req[r].to = Rebased(db.item[i], q)
  BY <1>1, <1>2 DEF MeaningKept, Meant
<1>4. i \in Goods /\ q.to \in Nat /\ q.saw \in Nat /\ q.count \in BOOLEAN
  BY <1>0, DbParts, FilingFacts
<1>5. db.item[i].qty \in Nat
  BY <1>0, <1>4, DbParts, RowFacts
<1>6. db'.item[i].qty = req[r].to
  BY <1>1, <1>2
<1> QED BY <1>3, <1>4, <1>5, <1>6 DEF MayApprove, Rebased

(* However much stock moved between filing and approval, an approval that   *)
(* is served alone moves the shelf by what was asked for, and a count is    *)
(* posted only on the stock that was counted: for any requests that may     *)
(* overlap at any other time.                                               *)
THEOREM ApprovalsKeepMeaning == StockSpec => ApprovalKeepsMeaning
<1> DEFINE AsMeant ==
             apart' =>
               \A f \in Filings :
                 (db.filed[f].status = "filed" /\ db'.filed[f].status = "posted") =>
                   LET q == db.filed[f]
                   IN /\ db'.item[q.item].qty - db.item[q.item].qty = q.to - q.saw
                      /\ q.count => db.item[q.item].qty = q.saw
<1>1. StockInit => StockTyped /\ MeaningKept
  BY StockTypedInit, MeaningKeptInit
<1>2. (StockTyped /\ MeaningKept) /\ [StockNext]_stockVars => (StockTyped /\ MeaningKept)'
  BY StockTypedStep, MeaningKeptStep
<1>3. (StockTyped /\ MeaningKept) /\ [StockNext]_stockVars => [AsMeant]_stockVars
  <2> SUFFICES ASSUME StockTyped, MeaningKept, [StockNext]_stockVars, apart',
                      NEW f \in Filings, db.filed[f].status = "filed", db'.filed[f].status = "posted"
               PROVE  LET q == db.filed[f]
                      IN /\ db'.item[q.item].qty - db.item[q.item].qty = q.to - q.saw
                         /\ q.count => db.item[q.item].qty = q.saw
    OBVIOUS
  <2>1. "filed" # "posted"
    OBVIOUS
  <2>2. db' # db /\ ~Unposted(db, db')
    BY <2>1 DEF Unposted
  <2>3. ASSUME NEW r \in Clients, AskStep(r) \/ Drop(r)
        PROVE  FALSE
    BY <2>2, <2>3, AskWorks DEF Ask, Drop
  <2>4. ~LockedStep /\ ~UNCHANGED stockVars
    BY <2>2, LockedWorks DEF stockVars
  <2>5. PICK r \in Clients : ServeStep(r)
    BY <2>3, <2>4, StepKinds
  <2>6. req[r].op = "approve" /\ apart
    BY <2>2, <2>5, ServeWorks
  <2>7. ApproveFiling(r)
    BY <2>5, <2>6 DEF ServeStep, EditItem, Transfer, Count, SellItem, Restock, Void, Serving
  <2> QED BY <2>6, <2>7, ApprovalMeant
<1> QED BY <1>1, <1>2, <1>3, PTL DEF StockSpec, ApprovalKeepsMeaning

-----------------------------------------------------------------------------
(* The stock reports: what an item sold. *)

Gains(d) == [k \in Documents |-> (-d.doc[k].qty) * SellingPrice + d.doc[k].value]

LEMMA LineFacts ==
  ASSUME NEW d \in StockDb, NEW i \in Goods
  PROVE  LET lines == Invoiced(d, i) \cup Credited(d, i)
         IN /\ IsFiniteSet(lines) /\ lines \subseteq Documents
            /\ Invoiced(d, i) \cap Credited(d, i) = {}
            /\ \A k \in lines : /\ d.doc[k].day \in Days /\ d.doc[k].qty \in Int
                                /\ d.doc[k].value \in Int /\ Gains(d)[k] \in Int
<1> DEFINE lines == Invoiced(d, i) \cup Credited(d, i)
<1>1. lines \subseteq Documents /\ Invoiced(d, i) \cap Credited(d, i) = {}
  BY DEF Invoiced, Credited
<1>2. IsFiniteSet(lines)
  BY <1>1, InventoryAssumption, FS_Subset
<1>3. ASSUME NEW k \in lines
      PROVE  /\ d.doc[k].day \in Days /\ d.doc[k].qty \in Int
             /\ d.doc[k].value \in Int /\ Gains(d)[k] \in Int
  <2>1. d.doc[k] \in PaperRow /\ d.doc[k].kind # "none" /\ k \in Documents
    BY <1>1 DEF StockDb, Invoiced, Credited
  <2>2. d.doc[k].day \in Days /\ d.doc[k].qty \in Int /\ d.doc[k].value \in Int
    BY <2>1, PaperFacts
  <2>3. SellingPrice \in Int
    BY InventoryReportsAssumption
  <2>4. \A a, b, c \in Int : (-a) * b + c \in Int
    OBVIOUS
  <2>5. (-d.doc[k].qty) * SellingPrice + d.doc[k].value \in Int
    BY <2>2, <2>3, <2>4
  <2> QED BY <2>1, <2>2, <2>5 DEF Gains
<1> QED BY <1>1, <1>2, <1>3

(* The profit of some lines is what each of them gains.                     *)
LEMMA ProfitAddsUp ==
  ASSUME NEW d \in StockDb, NEW i \in Goods, NEW T \in SUBSET (Invoiced(d, i) \cup Credited(d, i))
  PROVE  Figures(d, T).profit = Sum(Gains(d), T) /\ Figures(d, T).units \in Int
<1> DEFINE units == [k \in Documents |-> -d.doc[k].qty]
           spent == [k \in Documents |-> -d.doc[k].value]
           priced == [k \in Documents |-> SellingPrice * units[k]]
           costs == [k \in Documents |-> (-1) * spent[k]]
<1>1. /\ IsFiniteSet(T) /\ SellingPrice \in Int
      /\ \A k \in T : /\ d.doc[k].qty \in Int /\ d.doc[k].value \in Int
                      /\ k \in Documents /\ Gains(d)[k] \in Int
  <2> DEFINE lines == Invoiced(d, i) \cup Credited(d, i)
  <2>1. /\ IsFiniteSet(lines) /\ lines \subseteq Documents
        /\ \A k \in lines : /\ d.doc[k].qty \in Int /\ d.doc[k].value \in Int
                            /\ Gains(d)[k] \in Int
    BY LineFacts
  <2>2. T \in SUBSET lines /\ SellingPrice \in Int
    BY InventoryReportsAssumption
  <2> HIDE DEF lines
  <2> QED BY <2>1, <2>2, FS_Subset
<1>2. \A k \in T : /\ units[k] \in Int /\ spent[k] \in Int
                   /\ priced[k] = SellingPrice * units[k] /\ costs[k] = (-1) * spent[k]
  BY <1>1
<1>3. \A k \in T : /\ priced[k] \in Int /\ costs[k] \in Int
                   /\ Gains(d)[k] = priced[k] + costs[k]
  <2>1. \A p, q, v \in Int : /\ (-q) * p = p * (-q) /\ p * (-q) \in Int
                             /\ v = (-1) * (-v) /\ (-1) * (-v) \in Int
    OBVIOUS
  <2> QED BY <1>1, <2>1 DEF Gains
<1>4. Figures(d, T).profit = Sum(units, T) * SellingPrice - Sum(spent, T)
      /\ Figures(d, T).units = Sum(units, T)
  BY DEF Figures
<1> HIDE DEF units, spent, priced, costs
<1>5. Sum(priced, T) = SellingPrice * Sum(units, T)
  BY <1>1, <1>2, SumTimes
<1>6. Sum(costs, T) = (-1) * Sum(spent, T)
  <2>1. -1 \in Int
    OBVIOUS
  <2> QED BY <1>1, <1>2, <2>1, SumTimes
<1>7. Sum(Gains(d), T) = Sum(priced, T) + Sum(costs, T)
  BY <1>1, <1>3, SumPlus
<1>8. Sum(units, T) \in Int /\ Sum(spent, T) \in Int
  BY <1>1, <1>2, SumInt
<1>9. \A p, u, c \in Int : u * p - c = p * u + (-1) * c
  OBVIOUS
<1> QED BY <1>1, <1>4, <1>5, <1>6, <1>7, <1>8, <1>9

(* A chart's points add up to what its channels sold.                       *)
LEMMA ChartAddsUp ==
  ASSUME NEW d \in StockDb, NEW i \in Goods, NEW s \in Days, NEW e \in Days
  PROVE  LET points == Points(d, i, s, e)
             lines == SalesLines(d, i, WindowStart(s, e), e)
             chart == Whole([m \in DOMAIN points |-> points[m].profit])
         IN /\ chart = Sum(Gains(d), lines)
            /\ Sold(d, i, s, e).profit + Returns(d, i, s, e).profit = Sum(Gains(d), lines)
<1> DEFINE w == WindowStart(s, e)
           all == Invoiced(d, i) \cup Credited(d, i)
           sold == InRange(d, Invoiced(d, i), w, e)
           back == InRange(d, Credited(d, i), w, e)
           lines == SalesLines(d, i, w, e)
           window == PointsWindow(s, e)
           day == [k \in lines |-> d.doc[k].day]
           profits == [m \in window |-> Points(d, i, s, e)[m].profit]
           sums == [m \in window |-> Sum(Gains(d), {k \in lines : day[k] = m})]
<1>1. /\ IsFiniteSet(all) /\ Invoiced(d, i) \cap Credited(d, i) = {}
      /\ \A k \in all : d.doc[k].day \in Days /\ Gains(d)[k] \in Int
  BY LineFacts
<1>2. /\ lines \subseteq all /\ IsFiniteSet(lines)
      /\ \A k \in lines : w <= d.doc[k].day /\ d.doc[k].day <= e
  <2>1. lines \subseteq all /\ \A k \in lines : w <= d.doc[k].day /\ d.doc[k].day <= e
    BY DEF SalesLines, InRange
  <2> QED BY <1>1, <2>1, FS_Subset
<1>3. window = w .. e /\ w \in Int /\ e \in Int /\ s \in Int
  BY InventoryReportsAssumption DEF PointsWindow, WindowStart, Greatest, Days
<1>4. IsFiniteSet(window)
  BY <1>3, FS_Interval
<1>5. \A k \in lines : day[k] \in window /\ Gains(d)[k] \in Int /\ day[k] = d.doc[k].day
  BY <1>1, <1>2, <1>3 DEF Days
<1>6. \A m \in window : profits[m] = sums[m]
  <2> SUFFICES ASSUME NEW m \in window PROVE profits[m] = sums[m]
    OBVIOUS
  <2> DEFINE T == SalesLines(d, i, m, m)
  <2>1. T = {k \in lines : day[k] = m}
    <3>1. \A k \in all : (m <= d.doc[k].day /\ d.doc[k].day <= m)
                           <=> (w <= d.doc[k].day /\ d.doc[k].day <= e /\ d.doc[k].day = m)
      BY <1>1, <1>3 DEF Days
    <3> QED BY <3>1 DEF SalesLines, InRange
  <2>2. T \in SUBSET all
    BY DEF SalesLines, InRange
  <2>3. Figures(d, T).profit = Sum(Gains(d), T)
    BY <2>2, ProfitAddsUp
  <2> QED BY <2>1, <2>3 DEF Points
<1>7. Points(d, i, s, e) = [m \in window |-> Points(d, i, s, e)[m]]
  BY DEF Points
<1> HIDE DEF day, window, lines, all
<1>8. Sum(Gains(d), lines) = Sum(sums, window)
  <2>1. Sum(Gains(d), lines)
          = Sum([m \in window |-> Sum(Gains(d), {k \in lines : day[k] = m})], window)
    BY ONLY <1>2, <1>4, <1>5, SumByGroup, SMTT(30)
  <2> QED BY <2>1
<1> HIDE DEF sums, profits
<1>9. Sum(profits, window) = Sum(sums, window)
  BY <1>4, <1>6, SumSame
<1>10. Whole(profits) = Sum(profits, window)
  BY DEF Whole, profits
<1>11. /\ sold \cup back = lines /\ sold \cap back = {}
       /\ sold \in SUBSET all /\ back \in SUBSET all
  BY <1>1 DEF SalesLines, InRange, lines, all
<1>12. IsFiniteSet(sold) /\ IsFiniteSet(back) /\ \A k \in sold \cup back : Gains(d)[k] \in Int
  BY <1>1, <1>11, FS_Subset
<1>13. /\ Figures(d, sold).profit = Sum(Gains(d), sold)
       /\ Figures(d, back).profit = Sum(Gains(d), back)
  BY <1>11, ProfitAddsUp DEF all
<1>14. Sum(Gains(d), lines) = Sum(Gains(d), sold) + Sum(Gains(d), back)
  <2> HIDE DEF sold, back
  <2> QED BY <1>11, <1>12, SumDisjoint
<1>15. [m \in DOMAIN Points(d, i, s, e) |-> Points(d, i, s, e)[m].profit] = profits
  BY <1>7 DEF profits
<1> QED BY <1>8, <1>9, <1>10, <1>13, <1>14, <1>15 DEF Sold, Returns, lines

(* A page holds lines of the range, and each line is on one page.           *)
LEMMA Quotient ==
  \A a, b \in Nat, c \in Nat \ {0} : a <= b => a \div c \in 0 .. (b \div c) /\ b \div c \in Nat
<1>1. ASSUME NEW a \in Nat, NEW c \in Nat \ {0}
      PROVE  /\ a \div c \in Nat
             /\ c * (a \div c) <= a /\ a < c * (a \div c) + c
  OBVIOUS
<1>2. ASSUME NEW p \in Nat, NEW q \in Nat, NEW c \in Nat \ {0}, p > q
      PROVE  c * p >= c * q + c
  <2>1. c * (q + 1) = c * q + c
    OBVIOUS
  <2>2. c * p >= c * (q + 1)
    BY <1>2
  <2> QED BY <2>1, <2>2
<1>3. ASSUME NEW a \in Nat, NEW b \in Nat, NEW c \in Nat \ {0}, a <= b
      PROVE  a \div c <= b \div c
  <2> DEFINE p == a \div c
             q == b \div c
  <2>1. p \in Nat /\ q \in Nat /\ c * p <= a /\ b < c * q + c /\ c * p \in Nat /\ c * q \in Nat
    BY <1>1
  <2> HIDE DEF p, q
  <2>2. ~(p > q)
    BY <1>2, <1>3, <2>1
  <2>3. p <= q
    BY <2>1, <2>2
  <2> QED BY <2>3 DEF p, q
<1> QED BY <1>1, <1>3

LEMMA PagesAddUp ==
  ASSUME NEW d \in StockDb, NEW i \in Goods, NEW s \in Days, NEW e \in Days
  PROVE  LET lines == SalesLines(d, i, s, e)
             pages == 0 .. (Cardinality(lines) \div PageSize)
         IN /\ Whole([n \in pages |-> Figures(d, Entries(d, i, s, e, n)).profit])
                 = Sum(Gains(d), lines)
            /\ Whole([n \in pages |-> Cardinality(Entries(d, i, s, e, n))]) = Cardinality(lines)
<1> DEFINE all == Invoiced(d, i) \cup Credited(d, i)
           lines == SalesLines(d, i, s, e)
           pages == 0 .. (Cardinality(lines) \div PageSize)
           newer(j, k) == d.doc[j].day > d.doc[k].day \/ (d.doc[j].day = d.doc[k].day /\ j > k)
           page == [k \in lines |-> Cardinality({j \in lines : newer(j, k)}) \div PageSize]
           profits == [n \in pages |-> Figures(d, Entries(d, i, s, e, n)).profit]
           sums == [n \in pages |-> Sum(Gains(d), {k \in lines : page[k] = n})]
           sizes == [n \in pages |-> Cardinality(Entries(d, i, s, e, n))]
           counts == [n \in pages |-> Cardinality({k \in lines : page[k] = n})]
<1>1. /\ IsFiniteSet(all) /\ \A k \in all : Gains(d)[k] \in Int
      /\ lines \in SUBSET all
  BY LineFacts DEF SalesLines, InRange
<1>2. IsFiniteSet(lines) /\ \A k \in lines : Gains(d)[k] \in Int
  BY <1>1, FS_Subset
<1>3. Cardinality(lines) \in Nat /\ PageSize \in Nat \ {0}
  BY <1>2, FS_CardinalityType, InventoryReportsAssumption
<1>4. IsFiniteSet(pages)
  <2>1. Cardinality(lines) \div PageSize \in Nat
    BY <1>3, Quotient
  <2> QED BY <2>1, FS_Interval
<1>5. \A k \in lines : page[k] \in pages
  <2> SUFFICES ASSUME NEW k \in lines PROVE page[k] \in pages
    OBVIOUS
  <2> DEFINE before == {j \in lines : newer(j, k)}
  <2>1. before \in SUBSET lines
    OBVIOUS
  <2>2. page[k] = Cardinality(before) \div PageSize
    OBVIOUS
  <2> HIDE DEF before
  <2>3. /\ Cardinality(before) \in Nat /\ Cardinality(before) <= Cardinality(lines)
    BY <1>2, <2>1, FS_Subset, FS_CardinalityType
  <2> QED BY <1>3, <2>2, <2>3, Quotient
<1>6. \A n : Entries(d, i, s, e, n) = {k \in lines : page[k] = n}
  BY DEF Entries
<1>7. \A n \in pages : profits[n] = sums[n] /\ sizes[n] = counts[n]
  <2> SUFFICES ASSUME NEW n \in pages PROVE profits[n] = sums[n] /\ sizes[n] = counts[n]
    OBVIOUS
  <2>1. Entries(d, i, s, e, n) \in SUBSET all
    BY <1>1, <1>6
  <2>2. Figures(d, Entries(d, i, s, e, n)).profit = Sum(Gains(d), Entries(d, i, s, e, n))
    BY <2>1, ProfitAddsUp
  <2> QED BY <1>6, <2>2
<1>8. Whole(profits) = Sum(profits, pages) /\ Whole(sizes) = Sum(sizes, pages)
  BY DEF Whole
<1> HIDE DEF lines, pages, page
<1>9. Sum(Gains(d), lines) = Sum(sums, pages)
  <2>1. Sum(Gains(d), lines)
          = Sum([n \in pages |-> Sum(Gains(d), {k \in lines : page[k] = n})], pages)
    BY ONLY <1>2, <1>4, <1>5, SumByGroup, SMTT(30)
  <2> QED BY <2>1
<1>10. Cardinality(lines) = Sum(counts, pages)
  <2>1. Sum([n \in pages |-> Cardinality({k \in lines : page[k] = n})], pages) = Cardinality(lines)
    BY ONLY <1>2, <1>4, <1>5, CountByGroup, SMTT(30)
  <2> QED BY <2>1
<1> HIDE DEF profits, sums, sizes, counts
<1>11. Sum(profits, pages) = Sum(sums, pages) /\ Sum(sizes, pages) = Sum(counts, pages)
  BY <1>4, <1>7, SumSame
<1>12. Whole(profits) = Sum(Gains(d), lines) /\ Whole(sizes) = Cardinality(lines)
  BY <1>8, <1>9, <1>10, <1>11
<1> QED BY <1>12 DEF profits, sizes, pages, lines

(* The stock lasts no longer than what is left at the rate it went.         *)
LEMMA CoverLasts ==
  ASSUME NEW qty \in Nat, NEW units \in Int, NEW s \in Days, NEW e \in Days
  PROVE  LET cover == Cover(qty, units, s, e)
         IN cover # Nothing => cover * units <= qty * (e - s + 1)
<1>1. Today \in Nat /\ s \in Nat /\ e \in Nat /\ e <= Today
  BY InventoryAssumption DEF Days
<1> DEFINE days == (IF e > Today THEN Today ELSE e) - s + 1
           cover == Cover(qty, units, s, e)
<1>2. days = e - s + 1 /\ days \in Int
  BY <1>1
<1>7. cover = IF qty <= 0 THEN IF units > 0 THEN 0 ELSE Nothing
              ELSE IF days <= 0 \/ units <= 0 THEN Nothing ELSE (qty * days) \div units
  BY DEF Cover
<1>8. units \in Int /\ qty \in Nat
  OBVIOUS
<1> HIDE DEF days, cover
<1>3. CASE qty = 0
  <2>1. cover = IF units > 0 THEN 0 ELSE Nothing
    BY <1>7, <1>3
  <2>2. 0 * units = 0 /\ 0 * (e - s + 1) = 0
    BY <1>1
  <2> QED BY <1>3, <2>1, <2>2 DEF cover
<1>4. CASE qty > 0 /\ days > 0 /\ units > 0
  <2>1. cover = (qty * days) \div units
    BY <1>7, <1>2, <1>4
  <2>2. \A a \in Int, u \in Nat \ {0} : (a \div u) * u <= a
    OBVIOUS
  <2>3. qty * days \in Int /\ units \in Nat \ {0}
    BY <1>2, <1>4
  <2>4. ((qty * days) \div units) * units <= qty * days
    BY <2>2, <2>3
  <2> QED BY <1>2, <2>1, <2>4 DEF cover
<1>5. CASE qty > 0 /\ ~(days > 0 /\ units > 0)
  <2>1. cover = Nothing
    BY <1>2, <1>5, <1>7, <1>8
  <2> QED BY <2>1 DEF cover
<1>6. qty = 0 \/ qty > 0
  OBVIOUS
<1> QED BY <1>3, <1>4, <1>5, <1>6 DEF cover

LEMMA SalesAlwaysTie ==
  ASSUME NEW d \in StockDb, NEW i \in Goods, NEW s \in Days, NEW e \in Days
  PROVE  SalesTie(d, i, s, e)
<1> DEFINE lines == SalesLines(d, i, s, e)
           points == Points(d, i, s, e)
           chart == Whole([m \in DOMAIN points |-> points[m].profit])
           pages == 0 .. (Cardinality(lines) \div PageSize)
           listed == Whole([n \in pages |-> Figures(d, Entries(d, i, s, e, n)).profit])
           cover == Cover(d.item[i].qty, Figures(d, lines).units, s, e)
<1>1. /\ chart = Sum(Gains(d), SalesLines(d, i, WindowStart(s, e), e))
      /\ chart = Sold(d, i, s, e).profit + Returns(d, i, s, e).profit
  BY ChartAddsUp
<1>2. /\ listed = Sum(Gains(d), lines)
      /\ Whole([n \in pages |-> Cardinality(Entries(d, i, s, e, n))]) = Cardinality(lines)
  BY PagesAddUp
<1>3. lines \in SUBSET (Invoiced(d, i) \cup Credited(d, i))
  BY DEF SalesLines, InRange
<1>4. Figures(d, lines).profit = Sum(Gains(d), lines) /\ Figures(d, lines).units \in Int
  BY <1>3, ProfitAddsUp
<1>5. Performance(d, s, e)[i].sold = Figures(d, lines)
  BY DEF Performance
<1>6. listed = Performance(d, s, e)[i].sold.profit
  BY <1>2, <1>4, <1>5
<1>7. e - s < MostMonths => WindowStart(s, e) = s
  BY InventoryReportsAssumption DEF WindowStart, Greatest, Days
<1>8. e - s < MostMonths => chart = listed
  BY <1>1, <1>2, <1>7
<1>9. d.item[i].qty \in Nat
  BY RowFacts DEF StockDb
<1>10. cover # Nothing => cover * Figures(d, lines).units <= d.item[i].qty * (e - s + 1)
  BY <1>4, <1>9, CoverLasts
<1> QED BY <1>1, <1>2, <1>6, <1>8, <1>10 DEF SalesTie

-----------------------------------------------------------------------------
(* The stock reports: closings, age and what to reorder. *)

LEMMA ClosingsTie ==
  ASSUME NEW d \in StockDb, NEW asOf \in Days, NEW count \in 1 .. Today
  PROVE  Closings(d, asOf, count)[asOf] = ClosingOf1200(d, asOf)
<1> DEFINE first == asOf - count + 1
           early == {t \in Days : t < first}
           late == {t \in Days : first <= t /\ t <= asOf}
<1>1. /\ asOf \in first .. asOf /\ early \cup late = 1 .. asOf /\ early \cap late = {}
      /\ early \cup late \subseteq Days
  BY InventoryAssumption DEF Days
<1>2. /\ IsFiniteSet(early) /\ IsFiniteSet(late)
      /\ \A t \in early \cup late : d.gl[t] \in Int
  BY <1>1, DaysFinite, FS_Subset DEF StockDb
<1>3. Closings(d, asOf, count)[asOf] = Sum(d.gl, early) + Sum(d.gl, late)
  BY <1>1 DEF Closings
<1> HIDE DEF early, late
<1>4. Sum(d.gl, early \cup late) = Sum(d.gl, early) + Sum(d.gl, late)
  BY <1>1, <1>2, SumDisjoint
<1> QED BY <1>1, <1>3, <1>4 DEF ClosingOf1200

(* The bucket of an age: the last one holds what is older than the limits.  *)
LEMMA BucketFound ==
  ASSUME NEW age \in Int
  PROVE  /\ BucketOfAge(age) \in 1 .. (Len(AgeLimits) + 1)
         /\ BucketOfAge(age) = Len(AgeLimits) + 1 <=> age > DeadStockDays
<1> DEFINE n == Len(AgeLimits)
           Holds(b) == /\ b \in DOMAIN AgeLimits => age <= AgeLimits[b]
                       /\ \A c \in 1 .. (b - 1) : age > AgeLimits[c]
           C == {k \in Nat : k \in 1 .. n /\ age <= AgeLimits[k]}
<1>1. /\ n \in Nat \ {0} /\ DOMAIN AgeLimits = 1 .. n
      /\ \A k \in 1 .. n : AgeLimits[k] \in Nat
      /\ DeadStockDays = AgeLimits[n]
      /\ \A k, m \in 1 .. n : k < m => AgeLimits[k] < AgeLimits[m]
  BY InventoryReportsAssumption
<1>2. \E b \in 1 .. (n + 1) : Holds(b)
  <2>1. CASE C = {}
    <3>1. \A c \in 1 .. n : ~(age <= AgeLimits[c]) /\ AgeLimits[c] \in Int
      BY <1>1, <2>1
    <3>2. n + 1 \in 1 .. (n + 1) /\ n + 1 \notin 1 .. n /\ (n + 1) - 1 = n
      BY <1>1
    <3>3. Holds(n + 1)
      BY <1>1, <3>1, <3>2
    <3> QED BY <3>2, <3>3
  <2>2. CASE C # {}
    <3>1. PICK b \in C : \A m \in C : b <= m
      <4> HIDE DEF C
      <4>1. C \in SUBSET Nat
        BY DEF C
      <4> QED BY <2>2, <4>1, Earliest
    <3>2. b \in 1 .. n /\ age <= AgeLimits[b] /\ b \in 1 .. (n + 1)
      BY <1>1, <3>1
    <3>3. ASSUME NEW c \in 1 .. (b - 1) PROVE age > AgeLimits[c]
      <4>1. c \in 1 .. n /\ c \notin C /\ c \in Nat
        BY <1>1, <3>1, <3>2
      <4>2. ~(age <= AgeLimits[c]) /\ AgeLimits[c] \in Int
        BY <1>1, <4>1
      <4> QED BY <4>2
    <3> QED BY <3>2, <3>3
  <2> QED BY <2>1, <2>2
<1> DEFINE b == BucketOfAge(age)
<1>3. b \in 1 .. (n + 1) /\ Holds(b)
  <2>1. b = CHOOSE x \in 1 .. (n + 1) : Holds(x)
    BY DEF BucketOfAge
  <2> HIDE DEF b, Holds
  <2> QED BY <1>2, <2>1
<1> HIDE DEF b
<1>4. ASSUME b = n + 1 PROVE age > AgeLimits[n]
  <2>1. n \in 1 .. (b - 1)
    BY <1>1, <1>4
  <2> QED BY <1>3, <2>1
<1>5. ASSUME b # n + 1 PROVE ~(age > AgeLimits[n])
  <2>1. b \in 1 .. n /\ n \in 1 .. n
    BY <1>1, <1>3, <1>5
  <2>2. age <= AgeLimits[b]
    BY <1>1, <1>3, <2>1
  <2>3. b = n \/ AgeLimits[b] < AgeLimits[n]
    <3>1. b \in Int /\ n \in Int /\ b <= n
      BY <1>1, <2>1
    <3>2. b = n \/ b < n
      BY <3>1
    <3> QED BY <1>1, <2>1, <3>2
  <2>4. AgeLimits[b] \in Int /\ AgeLimits[n] \in Int
    BY <1>1, <2>1
  <2> QED BY <2>2, <2>3, <2>4
<1> QED BY <1>1, <1>3, <1>4, <1>5 DEF b

(* The last day of some days, if any.                                       *)
LEMMA LatestIs ==
  ASSUME NEW S \in SUBSET Days
  PROVE  LatestOf(S) \in Int /\ (LatestOf(S) = Nothing <=> S = {})
<1>1. CASE S = {}
  BY <1>1 DEF LatestOf, Nothing
<1>2. CASE S # {}
  <2>1. S \in SUBSET (1 .. Today) /\ Today \in Nat
    BY InventoryAssumption DEF Days
  <2>2. Max(S) \in S
    BY <1>2, <2>1, LastMember
  <2>3. Max(S) \in 1 .. Today
    BY <2>1, <2>2
  <2>4. Max(S) \in Int /\ Max(S) # -1
    BY <2>1, <2>3
  <2> QED BY <1>2, <2>4 DEF LatestOf, Nothing
<1> QED BY <1>1, <1>2

LEMMA MovesAreDated ==
  ASSUME NEW d \in StockDb, NEW i \in Goods, NEW asOf \in Days
  PROVE  LastOut(d, i, asOf) \in Int /\ LastIn(d, i, asOf) \in Int
<1> DEFINE out == {k \in Documents :
             /\ d.doc[k].kind \in {"sold", "returned"} \/ (d.doc[k].kind = "restocked" /\ ~d.doc[k].live)
             /\ d.doc[k].item = i /\ d.doc[k].day <= asOf}
           in == {k \in Documents :
             /\ \/ d.doc[k].kind = "restocked"
                \/ d.doc[k].kind \in {"sold", "returned"} /\ ~d.doc[k].live
             /\ d.doc[k].item = i /\ d.doc[k].day <= asOf}
<1>1. \A k \in Documents : d.doc[k].kind # "none" => d.doc[k].day \in Days
  BY PaperFacts DEF StockDb
<1>2. {d.doc[k].day : k \in out} \in SUBSET Days
  BY <1>1
<1>3. {d.doc[k].day : k \in in} \in SUBSET Days /\ {t \in d.arrived[i] : t <= asOf} \in SUBSET Days
  BY <1>1 DEF StockDb
<1>4. LastOut(d, i, asOf) = LatestOf({d.doc[k].day : k \in out})
  BY DEF LastOut
<1>5. LastIn(d, i, asOf) = LatestOf({t \in d.arrived[i] : t <= asOf} \cup {d.doc[k].day : k \in in})
  BY DEF LastIn
<1> HIDE DEF out, in
<1>6. LastOut(d, i, asOf) \in Int
  BY <1>2, <1>4, LatestIs
<1>7. {t \in d.arrived[i] : t <= asOf} \cup {d.doc[k].day : k \in in} \in SUBSET Days
  BY <1>3
<1>8. LastIn(d, i, asOf) \in Int
  BY <1>5, <1>7, LatestIs
<1> QED BY <1>6, <1>8

(* The value of an item on hand.                                            *)
LEMMA OnHandIs ==
  ASSUME NEW d \in StockDb, NEW i \in Goods, NEW asOf \in Days
  PROVE  OnHand(d, i, asOf).value \in Int
<1>1. d.item[i] \in StockRow /\ \A t \in Days : d.moved[i][t].value \in Int
  BY DEF StockDb, DayRow
<1>2. Worth(d.item[i]) \in Int
  BY <1>1, RowFacts
<1> DEFINE vs == [t \in Days |-> d.moved[i][t].value]
<1>3. IsFiniteSet(1 .. asOf) /\ \A t \in 1 .. asOf : vs[t] \in Int
  <2>1. Today \in Nat /\ asOf \in 1 .. Today
    BY InventoryAssumption DEF Days
  <2>2. \A t \in 1 .. asOf : t \in Days
    BY <2>1 DEF Days
  <2>3. IsFiniteSet(1 .. asOf)
    BY <2>1, FS_Interval
  <2> QED BY <1>1, <2>2, <2>3
<1> HIDE DEF vs
<1>4. Sum(vs, 1 .. asOf) \in Int
  BY <1>3, SumInt
<1>5. UpTo(d, i, asOf).value \in Int
  BY <1>4 DEF UpTo, vs
<1> QED BY <1>2, <1>5 DEF OnHand

(* Either ageing puts each item on hand into one bucket.                    *)
LEMMA AgedAddsUp ==
  ASSUME NEW d \in StockDb, NEW asOf \in Days, NEW last, \A i \in Goods : last[i] \in Int
  PROVE  LET aged == Aged(d, asOf, last)
             all == Stocked(d, asOf)
         IN /\ Whole([b \in DOMAIN aged |-> Cardinality(aged[b])]) = Cardinality(all)
            /\ Whole([b \in DOMAIN aged |-> ValueOf(d, aged[b], asOf)]) = ValueOf(d, all, asOf)
<1> DEFINE aged == Aged(d, asOf, last)
           all == Stocked(d, asOf)
           B == 0 .. (Len(AgeLimits) + 1)
           in == [i \in all |-> Bucket(last[i], asOf)]
           worth == [i \in Goods |-> OnHand(d, i, asOf).value]
           counts == [b \in B |-> Cardinality({i \in all : in[i] = b})]
           values == [b \in B |-> Sum(worth, {i \in all : in[i] = b})]
<1>1. DOMAIN aged = B /\ \A b \in B : aged[b] = {i \in all : in[i] = b}
  BY DEF Aged
<1>2. Len(AgeLimits) \in Nat /\ IsFiniteSet(B)
  <2>1. Len(AgeLimits) \in Nat
    BY InventoryReportsAssumption
  <2> QED BY <2>1, FS_Interval
<1>3. IsFiniteSet(all) /\ all \in SUBSET Goods
  BY InventoryAssumption, FS_Subset DEF Stocked
<1>4. \A i \in all : in[i] \in B
  <2> SUFFICES ASSUME NEW i \in all PROVE Bucket(last[i], asOf) \in B
    OBVIOUS
  <2>1. last[i] \in Int /\ asOf - last[i] \in Int
    BY <1>3 DEF Days
  <2>2. BucketOfAge(asOf - last[i]) \in 1 .. (Len(AgeLimits) + 1)
    BY <2>1, BucketFound
  <2>3. BucketOfAge(asOf - last[i]) \in B /\ 0 \in B
    BY <1>2, <2>2
  <2> QED BY <2>3 DEF Bucket
<1>5. \A i \in all : worth[i] \in Int
  BY <1>3, OnHandIs
<1>6. \A S : ValueOf(d, S, asOf) = Sum(worth, S)
  BY DEF ValueOf
<1> HIDE DEF in, worth, all, aged, B
<1>7. Sum([b \in B |-> Cardinality({i \in all : in[i] = b})], B) = Cardinality(all)
  BY ONLY <1>2, <1>3, <1>4, CountByGroup, SMTT(30)
<1>8. Sum(worth, all) = Sum([b \in B |-> Sum(worth, {i \in all : in[i] = b})], B)
  BY ONLY <1>2, <1>3, <1>4, <1>5, SumByGroup, SMTT(30)
<1>9. /\ [b \in DOMAIN aged |-> Cardinality(aged[b])] = counts
      /\ [b \in DOMAIN aged |-> ValueOf(d, aged[b], asOf)] = values
  BY <1>1, <1>6
<1>10. Whole(counts) = Cardinality(all) /\ Whole(values) = Sum(worth, all)
  BY <1>7, <1>8 DEF Whole
<1> QED BY <1>6, <1>9, <1>10 DEF aged, all

(* Dead stock is what no limit holds, or what never moved.                  *)
LEMMA DeadIsOld ==
  ASSUME NEW d \in StockDb, NEW asOf \in Days
  PROVE  LET out == Aged(d, asOf, [i \in Goods |-> LastOut(d, i, asOf)])
         IN DeadItems(d, asOf) = out[0] \cup out[Len(AgeLimits) + 1]
<1> DEFINE last == [i \in Goods |-> LastOut(d, i, asOf)]
           out == Aged(d, asOf, last)
           all == Stocked(d, asOf)
           n == Len(AgeLimits) + 1
<1>1. \A i \in Goods : last[i] \in Int /\ last[i] = LastOut(d, i, asOf)
  BY MovesAreDated
<1>2. n \in Nat /\ n # 0 /\ 0 \in 0 .. n /\ n \in 0 .. n /\ n = Len(AgeLimits) + 1
  BY InventoryReportsAssumption
<1> HIDE DEF last
<1>3. /\ out[0] = {i \in all : Bucket(last[i], asOf) = 0}
      /\ out[n] = {i \in all : Bucket(last[i], asOf) = n}
  <2> DEFINE of == [i \in all |-> Bucket(last[i], asOf)]
  <2>1. out = [b \in 0 .. n |-> {i \in DOMAIN of : of[i] = b}]
    BY DEF Aged
  <2>2. \A b \in 0 .. n : out[b] = {i \in all : of[i] = b}
    BY <2>1
  <2> HIDE DEF out, all
  <2> QED BY <1>2, <2>2
<1>4. ASSUME NEW i \in Goods
      PROVE  (Bucket(last[i], asOf) = 0 \/ Bucket(last[i], asOf) = n)
               <=> (last[i] = Nothing \/ asOf - last[i] > DeadStockDays)
  <2>1. last[i] \in Int /\ asOf - last[i] \in Int
    BY <1>1 DEF Days
  <2>2. /\ BucketOfAge(asOf - last[i]) \in 1 .. n
        /\ BucketOfAge(asOf - last[i]) = n <=> asOf - last[i] > DeadStockDays
    BY <2>1, BucketFound
  <2>3. BucketOfAge(asOf - last[i]) # 0
    BY <1>2, <2>2
  <2> HIDE DEF n
  <2> QED BY <2>2, <2>3 DEF Bucket
<1>5. \A i : i \in DeadItems(d, asOf) <=>
               i \in all /\ (last[i] = Nothing \/ asOf - last[i] > DeadStockDays)
  <2>1. \A i \in Goods : IsDead(OnHand(d, i, asOf).qty, LastOut(d, i, asOf), asOf)
          <=> i \in all /\ (last[i] = Nothing \/ asOf - last[i] > DeadStockDays)
    BY <1>1 DEF IsDead, Stocked
  <2> QED BY <2>1 DEF DeadItems, Stocked
<1>6. all \subseteq Goods
  BY DEF Stocked
<1> HIDE DEF all, n
<1>7. DeadItems(d, asOf) = out[0] \cup out[n]
  BY <1>3, <1>4, <1>5, <1>6
<1> QED BY <1>7 DEF last, n

(* What is on hand today is worth what account 1200 says.                   *)
LEMMA WorthToday ==
  ASSUME NEW d \in StockDb, StockKept(d)
  PROVE  ValueOf(d, Stocked(d, Today), Today) = ClosingOf1200(d, Today)
<1> DEFINE worth == [i \in Goods |-> OnHand(d, i, Today).value]
           rows == [i \in Goods |-> Worth(d.item[i])]
           all == Stocked(d, Today)
<1>1. Today \in Nat /\ Days = 1 .. Today
  BY InventoryAssumption DEF Days
<1>2. \A i \in Goods : OnHand(d, i, Today) = [qty |-> d.item[i].qty, value |-> Worth(d.item[i])]
  BY <1>1 DEF OnHand
<1>3. \A i \in Goods : worth[i] = rows[i] /\ rows[i] = Worth(d.item[i])
  BY <1>2
<1>4. \A i \in Goods : rows[i] \in Int /\ (d.item[i].qty > 0 \/ rows[i] = 0)
  <2> SUFFICES ASSUME NEW i \in Goods
               PROVE  rows[i] \in Int /\ (d.item[i].qty > 0 \/ rows[i] = 0)
    OBVIOUS
  <2>1. d.item[i] \in StockRow
    BY DEF StockDb
  <2>2. d.item[i].qty \in Nat /\ d.item[i].unit \in Int /\ Worth(d.item[i]) \in Int
    BY <2>1, RowFacts
  <2>3. \A u \in Int : 0 * u = 0
    OBVIOUS
  <2>4. d.item[i].qty = 0 => Worth(d.item[i]) = 0
    BY <2>2, <2>3 DEF Worth
  <2> QED BY <2>2, <2>4
<1>5. all \in SUBSET Goods /\ \A i \in Goods \ all : ~(d.item[i].qty > 0)
  BY <1>2 DEF Stocked
<1> HIDE DEF worth, rows, all
<1>6. IsFiniteSet(Goods) /\ IsFiniteSet(all)
  BY <1>5, InventoryAssumption, FS_Subset
<1>7. Sum(rows, Goods) = Sum(rows, all)
  BY <1>4, <1>5, <1>6, SumWithin
<1>8. Sum(worth, all) = Sum(rows, all)
  BY <1>3, <1>5, <1>6, SumSame
<1>9. ValueOf(d, all, Today) = Sum(worth, all)
  BY DEF ValueOf, worth
<1>10. Snapshot(d) = Sum(rows, Goods)
  BY DEF Snapshot, rows
<1>11. Snapshot(d) = ClosingOf1200(d, Today)
  BY <1>1 DEF StockKept, Booked, ClosingOf1200
<1> QED BY <1>7, <1>8, <1>9, <1>10, <1>11 DEF all

LEMMA HealthAlwaysTies ==
  ASSUME NEW d \in StockDb, StockKept(d), NEW asOf \in Days
  PROVE  HealthTies(d, asOf)
<1> DEFINE lastOut == [i \in Goods |-> LastOut(d, i, asOf)]
           lastIn == [i \in Goods |-> LastIn(d, i, asOf)]
           out == Aged(d, asOf, lastOut)
           in == Aged(d, asOf, lastIn)
           all == Stocked(d, asOf)
<1>1. \A i \in Goods : lastOut[i] \in Int /\ lastIn[i] \in Int
  BY MovesAreDated
<1>2. DeadItems(d, asOf) = out[0] \cup out[Len(AgeLimits) + 1]
  BY DeadIsOld
<1> HIDE DEF lastOut, lastIn
<1>3. /\ Whole([b \in DOMAIN out |-> Cardinality(out[b])]) = Cardinality(all)
      /\ Whole([b \in DOMAIN out |-> ValueOf(d, out[b], asOf)]) = ValueOf(d, all, asOf)
  BY <1>1, AgedAddsUp
<1>4. /\ Whole([b \in DOMAIN in |-> Cardinality(in[b])]) = Cardinality(all)
      /\ Whole([b \in DOMAIN in |-> ValueOf(d, in[b], asOf)]) = ValueOf(d, all, asOf)
  BY <1>1, AgedAddsUp
<1>5. asOf = Today => ValueOf(d, all, asOf) = ClosingOf1200(d, asOf)
  BY WorthToday
<1> QED BY <1>2, <1>3, <1>4, <1>5 DEF HealthTies, lastOut, lastIn

LEMMA ReportsTieNow ==
  ASSUME db \in StockDb, StockKept(db)
  PROVE  StockReportsTie
<1>1. \A i \in Goods, s, e \in Days : SalesTie(db, i, s, e)
  BY SalesAlwaysTie
<1>2. \A asOf \in Days, count \in 1 .. Today :
        Closings(db, asOf, count)[asOf] = ClosingOf1200(db, asOf)
  BY ClosingsTie
<1>3. \A asOf \in Days : HealthTies(db, asOf)
  BY HealthAlwaysTies
<1>4. ASSUME NEW i \in Goods
      PROVE  LET qty == db.item[i].qty
             IN /\ (Suggestion(qty) # Nothing) = (ReorderPoint > 0 /\ StockStatus(qty) # "ok")
                /\ Suggestion(qty) # Nothing => qty + Suggestion(qty) >= ReorderPoint
  <2>1. db.item[i].qty \in Nat
    BY RowFacts DEF StockDb
  <2>2. ReorderPoint \in Nat /\ ReorderQuantity \in Nat
    BY InventoryReportsAssumption
  <2> QED BY <2>1, <2>2 DEF Suggestion, StockStatus, Nothing, Greatest
<1> QED BY <1>1, <1>2, <1>3, <1>4 DEF StockReportsTie

(* On any day and in any range an item's chart, its channels, the pages of  *)
(* its lines and its row in the table are one figure and no line is on two  *)
(* pages; the last closing is the balance of account 1200; either ageing    *)
(* puts each item on hand into one bucket and adds up to the stock, what it *)
(* shows beyond the last limit or never to have moved being the dead stock; *)
(* and what is short is what a reorder is suggested for, of enough: under   *)
(* the assumptions ValuationsAlwaysAgree needs for account 1200.            *)
THEOREM StockReportsAlwaysTie ==
  ASSUME ~Emptying,
         {"edit", "transfer", "count", "sell", "restock", "void"} \cap Overlapping = {}
  PROVE  StockSpec => []StockReportsTie
<1>1. StockInit => StockTyped /\ WorthKept
  BY StockTypedInit, StockKeptInit
<1>2. (StockTyped /\ WorthKept) /\ [StockNext]_stockVars => (StockTyped /\ WorthKept)'
  <2>1. Unlocked \cap Overlapping = {}
    BY DEF Unlocked
  <2>2. StockTyped /\ WorthKept /\ [StockNext]_stockVars => WorthKept'
    BY <2>1, StockKeptStep
  <2> QED BY <2>2, StockTypedStep
<1>3. StockTyped /\ WorthKept => StockReportsTie
  BY ReportsTieNow DEF StockTyped, WorthKept
<1> QED BY <1>1, <1>2, <1>3, PTL DEF StockSpec

-----------------------------------------------------------------------------
(* What a row makes of an item. *)

LEMMA ItemFields ==
  ASSUME NEW item \in Item
  PROVE  /\ item.copies \in Nat /\ item.name \in Names \cup {Blank} /\ item.cost \in Nat
         /\ item.min \in Nat /\ item.max \in Nat /\ item.active \in BOOLEAN /\ item.qty \in Nat
         /\ item.moved \in BOOLEAN /\ (item.qty # 0 => item.moved)
         /\ (item.copies = 0 => item = Absent)
         /\ DOMAIN item = {"copies", "name", "cost", "min", "max", "active", "qty", "moved"}
         /\ item = [copies |-> item.copies, name |-> item.name, cost |-> item.cost,
                    min |-> item.min, max |-> item.max, active |-> item.active,
                    qty |-> item.qty, moved |-> item.moved]
  BY DEF Item

LEMMA NewItemIsItem ==
  /\ NewItem \in Item /\ Absent \in Item /\ NewItem.qty = 0 /\ Absent.qty = 0
  /\ NewItem.copies = 1 /\ NewItem.active = TRUE /\ Absent.active = TRUE /\ ~Absent.moved
  BY DEF Item, Absent, NewItem

BaseOf(item) == IF OnFile(item) THEN item ELSE NewItem
Active(row, old, role) == IF role = "admin" THEN Cell(row.active, old) ELSE old
LEMMA PatchedIs ==
  ASSUME NEW item \in Item, NEW row \in FileRow, NEW role \in Roles
  PROVE  LET base == BaseOf(item)
         IN /\ base \in Item /\ base.copies > 0 /\ base.qty = item.qty /\ base.moved = item.moved
            /\ Patched(item, row, role) =
                 [copies |-> base.copies, name |-> Cell(row.name, base.name),
                  cost |-> Cell(row.cost, base.cost), min |-> Cell(row.min, base.min),
                  max |-> Cell(row.max, base.max), active |-> Active(row, base.active, role),
                  qty |-> base.qty, moved |-> base.moved]
<1> DEFINE base == BaseOf(item)
           allowed == IF role = "admin" THEN Fields ELSE Fields \ {"active"}
           all == {"copies", "name", "cost", "min", "max", "active", "qty", "moved"}
           next == [copies |-> base.copies, name |-> Cell(row.name, base.name),
                    cost |-> Cell(row.cost, base.cost), min |-> Cell(row.min, base.min),
                    max |-> Cell(row.max, base.max), active |-> Active(row, base.active, role),
                    qty |-> base.qty, moved |-> base.moved]
<1>1. base \in Item /\ base.copies > 0 /\ base.qty = item.qty /\ base.moved = item.moved
  <2>1. CASE OnFile(item)
    BY <2>1 DEF BaseOf, OnFile
  <2>2. CASE ~OnFile(item)
    <3>1. item.copies \in Nat /\ (item.copies = 0 => item = Absent)
      BY ItemFields
    <3>2. item = Absent
      BY <2>2, <3>1 DEF OnFile
    <3> QED BY <2>2, <3>2, NewItemIsItem DEF BaseOf, NewItem, Absent
  <2> QED BY <2>1, <2>2
<1>2. DOMAIN item = all
  BY ItemFields
<1>3. Patched(item, row, role) =
        [f \in all |-> IF f \in allowed THEN Cell(row[f], base[f]) ELSE base[f]]
  BY <1>2 DEF Patched, BaseOf
<1>4. \A f \in all : (IF f \in allowed THEN Cell(row[f], base[f]) ELSE base[f]) = next[f]
  BY DEF Fields, Active, Roles
<1>5. [f \in all |-> IF f \in allowed THEN Cell(row[f], base[f]) ELSE base[f]] =
        [f \in all |-> next[f]]
  <2> HIDE DEF next, allowed, all
  <2> QED BY <1>4
<1>6. next = [f \in all |-> next[f]]
  OBVIOUS
<1> HIDE DEF next, allowed, all
<1> QED BY <1>1, <1>3, <1>5, <1>6 DEF next

(* Once a row has been applied, applying it again changes nothing.          *)
WithOpening(item, opening) == IF opening = 0 THEN item ELSE [item EXCEPT !.qty = opening, !.moved = TRUE]
Done(item, row, role, opening, next, after) ==
  /\ next \in Item /\ OnFile(next) /\ after \in Item /\ OnFile(after)
  /\ Patched(after, row, role) = after
  /\ next.copies = (IF OnFile(item) THEN item.copies ELSE 1)
  /\ next.qty = item.qty /\ next.moved = item.moved
  /\ after.cost = next.cost /\ after.min = next.min /\ after.max = next.max
  /\ after.active = next.active /\ after.name = next.name /\ after.copies = next.copies
  /\ after.qty = (IF opening = 0 THEN item.qty ELSE opening)
  /\ after.moved = (IF opening = 0 THEN item.moved ELSE TRUE)
  /\ next.active = Active(row, BaseOf(item).active, role)
LEMMA PatchedAgain ==
  ASSUME NEW item \in Item, NEW row \in FileRow, NEW role \in Roles, NEW opening \in Nat
  PROVE  Done(item, row, role, opening, Patched(item, row, role),
              WithOpening(Patched(item, row, role), opening))
<1> DEFINE base == BaseOf(item)
           next == Patched(item, row, role)
           after == WithOpening(next, opening)
<1>1. /\ base \in Item /\ base.copies > 0 /\ base.qty = item.qty /\ base.moved = item.moved
      /\ next = [copies |-> base.copies, name |-> Cell(row.name, base.name),
                 cost |-> Cell(row.cost, base.cost), min |-> Cell(row.min, base.min),
                 max |-> Cell(row.max, base.max), active |-> Active(row, base.active, role),
                 qty |-> base.qty, moved |-> base.moved]
  BY PatchedIs
<1>2. base.copies = (IF OnFile(item) THEN item.copies ELSE 1)
  BY NewItemIsItem DEF BaseOf
<1> HIDE DEF base, next
<1>3. /\ base.copies \in Nat /\ base.name \in Names \cup {Blank} /\ base.cost \in Nat
      /\ base.min \in Nat /\ base.max \in Nat /\ base.active \in BOOLEAN /\ base.qty \in Nat
      /\ base.moved \in BOOLEAN /\ (base.qty # 0 => base.moved)
  BY <1>1, ItemFields
<1>4. /\ Cell(row.name, base.name) \in Names \cup {Blank} /\ Cell(row.cost, base.cost) \in Nat
      /\ Cell(row.min, base.min) \in Nat /\ Cell(row.max, base.max) \in Nat
      /\ Active(row, base.active, role) \in BOOLEAN
  BY <1>3 DEF Cell, Active, FileRow
<1>5. next \in Item /\ next.copies > 0
  BY <1>1, <1>3, <1>4 DEF Item
<1>6. /\ after \in Item /\ after.copies = next.copies /\ after.name = next.name
      /\ after.cost = next.cost /\ after.min = next.min /\ after.max = next.max
      /\ after.active = next.active
      /\ after.qty = (IF opening = 0 THEN next.qty ELSE opening)
      /\ after.moved = (IF opening = 0 THEN next.moved ELSE TRUE)
  <2>1. CASE opening = 0
    BY <1>5, <2>1 DEF WithOpening
  <2>2. CASE opening # 0
    <3>1. /\ next.copies \in Nat /\ next.name \in Names \cup {Blank} /\ next.cost \in Nat
          /\ next.min \in Nat /\ next.max \in Nat /\ next.active \in BOOLEAN
          /\ next = [copies |-> next.copies, name |-> next.name, cost |-> next.cost,
                     min |-> next.min, max |-> next.max, active |-> next.active,
                     qty |-> next.qty, moved |-> next.moved]
      BY <1>5, ItemFields
    <3>2. after = [copies |-> next.copies, name |-> next.name, cost |-> next.cost,
                   min |-> next.min, max |-> next.max, active |-> next.active,
                   qty |-> opening, moved |-> TRUE]
      BY <2>2, <3>1 DEF WithOpening
    <3> HIDE DEF after
    <3>3. after \in Item
      BY <1>5, <3>1, <3>2 DEF Item
    <3> QED BY <2>2, <3>2, <3>3
  <2> QED BY <2>1, <2>2
<1> HIDE DEF after
<1>7. OnFile(next) /\ OnFile(after)
  BY <1>5, <1>6 DEF OnFile
<1>8. BaseOf(after) = after
  BY <1>7 DEF BaseOf
<1>9. Patched(after, row, role) =
        [copies |-> after.copies, name |-> Cell(row.name, after.name),
         cost |-> Cell(row.cost, after.cost), min |-> Cell(row.min, after.min),
         max |-> Cell(row.max, after.max), active |-> Active(row, after.active, role),
         qty |-> after.qty, moved |-> after.moved]
  <2>1. Patched(after, row, role) =
          [copies |-> BaseOf(after).copies, name |-> Cell(row.name, BaseOf(after).name),
           cost |-> Cell(row.cost, BaseOf(after).cost), min |-> Cell(row.min, BaseOf(after).min),
           max |-> Cell(row.max, BaseOf(after).max),
           active |-> Active(row, BaseOf(after).active, role),
           qty |-> BaseOf(after).qty, moved |-> BaseOf(after).moved]
    BY <1>6, PatchedIs
  <2> QED BY <1>8, <2>1
<1>10. /\ next.name = Cell(row.name, base.name) /\ next.cost = Cell(row.cost, base.cost)
       /\ next.min = Cell(row.min, base.min) /\ next.max = Cell(row.max, base.max)
       /\ next.active = Active(row, base.active, role) /\ next.qty = base.qty
       /\ next.moved = base.moved /\ next.copies = base.copies
  BY <1>1
<1>11. /\ Cell(row.name, after.name) = after.name /\ Cell(row.cost, after.cost) = after.cost
       /\ Cell(row.min, after.min) = after.min /\ Cell(row.max, after.max) = after.max
       /\ Active(row, after.active, role) = after.active
  BY <1>6, <1>10 DEF Cell, Active
<1>12. Patched(after, row, role) = after
  BY <1>6, <1>9, <1>11, ItemFields
<1>13. Done(item, row, role, opening, next, after)
  BY <1>1, <1>2, <1>5, <1>6, <1>7, <1>10, <1>12 DEF Done, base
<1> QED BY <1>13 DEF next, after

-----------------------------------------------------------------------------
(* What the plan makes of a file. *)

LEMMA PlanLooksAt ==
  ASSUME NEW items, NEW other, NEW file, NEW n, NEW role,
         other[file[n].sku] = items[file[n].sku]
  PROVE  /\ Errors(other, file, n, role) = Errors(items, file, n, role)
         /\ PlanRow(other, file, n, role) = PlanRow(items, file, n, role)
<1>1. Errors(other, file, n, role) = Errors(items, file, n, role)
  BY DEF Errors
<1>2. Opens(other[file[n].sku], file[n], role) = Opens(items[file[n].sku], file[n], role)
  OBVIOUS
<1> QED BY <1>1, <1>2 DEF PlanRow

LEMMA FileRows ==
  ASSUME NEW file \in Files
  PROVE  /\ DOMAIN file = 1..Len(file) /\ Len(file) \in Nat /\ IsFiniteSet(DOMAIN file)
         /\ \A n \in DOMAIN file : file[n] \in FileRow /\ n \in Nat
<1>1. file \in Seq(FileRow)
  BY ItemImportAssumption
<1>2. DOMAIN file = 1..Len(file) /\ Len(file) \in Nat
  BY <1>1
<1>3. IsFiniteSet(1..Len(file))
  BY <1>2, FS_Interval
<1> QED BY <1>1, <1>2, <1>3

(* A row without an error is the first of its item, and what it sets is fit.*)
Twice(file, n) == \E k \in 1 .. (n - 1) : file[k].sku = file[n].sku
LEMMA NoError ==
  ASSUME NEW items \in Shelves, NEW file \in Files, NEW role \in Roles, NEW n \in DOMAIN file,
         Errors(items, file, n, role) = {}
  PROVE  LET row == file[n]
             item == items[row.sku]
             next == Patched(item, row, role)
         IN /\ row.sku \in Goods /\ ~Twice(file, n) /\ ~(item.copies > 1) /\ ~row.unreadable
            /\ OnFile(item) \/ row.name # Blank
            /\ OnFile(item) /\ next.cost # item.cost => MayReprice(item)
            /\ ~(next.max > 0 /\ next.max < next.min)
            /\ Opens(item, row, role) => next.cost > 0
            /\ item \in Item /\ row \in FileRow /\ next \in Item
<1> DEFINE row == file[n]
           item == items[row.sku]
           next == Patched(item, row, role)
           wrong == {e \in {"cell", "name", "cost", "limits", "opening"} :
                       \/ e = "cell" /\ row.unreadable
                       \/ e = "name" /\ ~OnFile(item) /\ row.name = Blank
                       \/ e = "cost" /\ OnFile(item) /\ next.cost # item.cost /\ ~MayReprice(item)
                       \/ e = "limits" /\ next.max > 0 /\ next.max < next.min
                       \/ e = "opening" /\ Opens(item, row, role) /\ next.cost <= 0}
<1>1. Errors(items, file, n, role) =
        (IF row.sku = Blank THEN {"sku"} ELSE IF Twice(file, n) THEN {"twice"}
         ELSE IF item.copies > 1 THEN {"several"} ELSE wrong)
  BY DEF Errors, Twice
<1>2. row \in FileRow
  BY FileRows
<1> HIDE DEF wrong
<1>3. row.sku # Blank /\ ~Twice(file, n) /\ ~(item.copies > 1) /\ wrong = {}
  BY <1>1
<1>4. row.sku \in Goods
  BY <1>2, <1>3 DEF FileRow
<1>5. item \in Item
  BY <1>4, ItemImportAssumption
<1>6. next \in Item
  <2>1. \A opening \in Nat : Patched(item, row, role) \in Item
    BY <1>2, <1>5, PatchedAgain DEF Done
  <2>2. 0 \in Nat
    OBVIOUS
  <2> QED BY <2>1, <2>2
<1> HIDE DEF next, item, row
<1>7. next.cost \in Nat
  BY <1>6, ItemFields
<1>8. /\ ~row.unreadable /\ (OnFile(item) \/ row.name # Blank)
      /\ (OnFile(item) /\ next.cost # item.cost => MayReprice(item))
      /\ ~(next.max > 0 /\ next.max < next.min)
      /\ ~(Opens(item, row, role) /\ next.cost <= 0)
  <2>1. "cell" \notin wrong /\ "name" \notin wrong /\ "cost" \notin wrong
        /\ "limits" \notin wrong /\ "opening" \notin wrong
    BY <1>3
  <2> QED BY <2>1 DEF wrong
<1> QED BY <1>2, <1>3, <1>4, <1>5, <1>6, <1>7, <1>8 DEF next, item, row

LEMMA PlanRowIs ==
  ASSUME NEW items \in Shelves, NEW file \in Files, NEW role \in Roles, NEW n \in DOMAIN file
  PROVE  LET row == file[n]
             item == items[row.sku]
             next == Patched(item, row, role)
             p == PlanRow(items, file, n, role)
         IN /\ p.opening \in Nat /\ p.value \in Nat
            /\ p.action = "error" <=> Errors(items, file, n, role) # {}
            /\ p.action \in {"error", "create", "update", "unchanged"}
            /\ p.action = "error" => p.opening = 0 /\ p.value = 0
            /\ p.action # "error" =>
                 /\ p.value = p.opening * next.cost
                 /\ p.opening = IF Opens(item, row, role) THEN row.opening ELSE 0
            /\ p.action = "unchanged" => next = item /\ p.opening = 0
            /\ p.opening # 0 => Opens(item, row, role)
<1> DEFINE row == file[n]
           item == items[row.sku]
           next == Patched(item, row, role)
           opening == IF Opens(item, row, role) THEN row.opening ELSE 0
           action == IF ~OnFile(item) THEN "create"
                     ELSE IF next # item \/ opening > 0 THEN "update" ELSE "unchanged"
           p == PlanRow(items, file, n, role)
<1>1. p = IF Errors(items, file, n, role) # {} THEN [action |-> "error", opening |-> 0, value |-> 0]
          ELSE [action |-> action, opening |-> opening, value |-> opening * next.cost]
  BY DEF PlanRow
<1>2. CASE Errors(items, file, n, role) # {}
  <2> HIDE DEF action, opening, next
  <2>1. p = [action |-> "error", opening |-> 0, value |-> 0]
    BY <1>1, <1>2
  <2> HIDE DEF p
  <2>2. p.action = "error" /\ p.opening = 0 /\ p.value = 0
    BY <2>1
  <2> QED BY <1>2, <2>2 DEF p
<1>3. CASE Errors(items, file, n, role) = {}
  <2>1. row \in FileRow /\ next \in Item
    BY <1>3, NoError
  <2>2. next.cost \in Nat
    BY <2>1, ItemFields
  <2>3. opening \in Nat /\ (opening # 0 => Opens(item, row, role))
    BY <2>1 DEF FileRow, Opens
  <2>4. action \in {"create", "update", "unchanged"}
        /\ (action = "unchanged" => next = item /\ ~(opening > 0))
    OBVIOUS
  <2> HIDE DEF action, next
  <2>5. p.action = action /\ p.opening = opening /\ p.value = opening * next.cost
    BY <1>1, <1>3
  <2>6. opening * next.cost \in Nat
    <3> HIDE DEF opening
    <3> QED BY <2>2, <2>3
  <2>7. action = "unchanged" => opening = 0
    <3> HIDE DEF opening
    <3> QED BY <2>3, <2>4
  <2> HIDE DEF p
  <2> QED BY <1>3, <2>3, <2>4, <2>5, <2>6, <2>7 DEF p, next
<1> QED BY <1>2, <1>3

(* What is applied to an item is the row without an error that names it.    *)
LEMMA AppliedIs ==
  ASSUME NEW items \in Shelves, NEW file \in Files, NEW role \in Roles
  PROVE  LET after == Applied(items, file, role)
         IN /\ \A n \in DOMAIN file : Errors(items, file, n, role) = {} =>
                 after[file[n].sku] = WithOpening(Patched(items[file[n].sku], file[n], role),
                                             PlanRow(items, file, n, role).opening)
            /\ \A i \in Goods : (\A n \in DOMAIN file :
                                   file[n].sku = i => Errors(items, file, n, role) # {})
                                  => after[i] = items[i]
<1> DEFINE plan == Plan(items, file, role)
           work == Rows(plan, "create") \cup Rows(plan, "update")
           row(i) == {n \in work : file[n].sku = i}
           after == Applied(items, file, role)
<1>1. DOMAIN plan = DOMAIN file
      /\ \A n \in DOMAIN file : plan[n] = PlanRow(items, file, n, role)
  BY DEF Plan
<1>2. \A n : n \in work <=> n \in DOMAIN file /\ plan[n].action \in {"create", "update"}
  BY <1>1 DEF Rows
<1>3. ASSUME NEW i \in Goods
      PROVE  after[i] =
               IF row(i) = {} THEN items[i]
               ELSE LET n == CHOOSE n \in row(i) : TRUE
                    IN  WithOpening(Patched(items[i], file[n], role), plan[n].opening)
  BY DEF Applied, WithOpening
<1> HIDE DEF plan, work, after
<1>4. ASSUME NEW i \in Goods,
             \A n \in DOMAIN file : file[n].sku = i => Errors(items, file, n, role) # {}
      PROVE  after[i] = items[i]
  <2>1. row(i) = {}
    <3>1. \A n \in DOMAIN file : file[n].sku = i => plan[n].action = "error"
      BY <1>1, <1>4, PlanRowIs
    <3> QED BY <1>2, <3>1
  <2> QED BY <1>3, <2>1
<1>5. ASSUME NEW n \in DOMAIN file, Errors(items, file, n, role) = {}
      PROVE  after[file[n].sku] = WithOpening(Patched(items[file[n].sku], file[n], role), plan[n].opening)
  <2> DEFINE i == file[n].sku
             next == Patched(items[i], file[n], role)
  <2>1. i \in Goods /\ ~Twice(file, n)
    BY <1>5, NoError
  <2>2. row(i) \subseteq {n}
    <3> SUFFICES ASSUME NEW m \in row(i), m # n PROVE FALSE
      OBVIOUS
    <3>1. m \in DOMAIN file /\ plan[m].action # "error" /\ file[m].sku = i
      BY <1>2
    <3>2. Errors(items, file, m, role) = {}
      BY <1>1, <3>1, PlanRowIs
    <3>3. ~Twice(file, m)
      BY <3>1, <3>2, NoError
    <3>4. m \in 1..Len(file) /\ n \in 1..Len(file) /\ Len(file) \in Nat
      BY <3>1, FileRows
    <3>5. CASE m < n
      BY <2>1, <3>1, <3>4, <3>5 DEF Twice
    <3>6. CASE n < m
      BY <3>1, <3>3, <3>4, <3>6 DEF Twice
    <3> QED BY <3>4, <3>5, <3>6
  <2>3. CASE row(i) = {}
    <3>1. n \notin work
      BY <2>3
    <3>2. plan[n].action = "unchanged"
      BY <1>1, <1>2, <1>5, <3>1, PlanRowIs
    <3>3. next = items[i] /\ plan[n].opening = 0
      BY <1>1, <3>2, PlanRowIs
    <3>4. after[i] = items[i]
      BY <1>3, <2>1, <2>3
    <3> QED BY <3>3, <3>4 DEF WithOpening
  <2>4. CASE row(i) # {}
    <3>1. row(i) = {n}
      BY <2>2, <2>4
    <3> DEFINE c == CHOOSE k \in row(i) : TRUE
    <3>2. c = n
      BY <3>1
    <3>3. after[i] = WithOpening(Patched(items[i], file[c], role), plan[c].opening)
      BY <1>3, <2>1, <2>4
    <3> QED BY <3>2, <3>3
  <2> QED BY <2>3, <2>4
<1> QED BY <1>1, <1>4, <1>5 DEF after

LEMMA AppliedItems ==
  ASSUME NEW items \in Shelves, NEW file \in Files, NEW role \in Roles, NEW i \in Goods
  PROVE  LET after == Applied(items, file, role)
         IN /\ items[i] \in Item /\ after[i] \in Item
            /\ \/ after[i] = items[i]
                    /\ \A n \in DOMAIN file : file[n].sku = i => Errors(items, file, n, role) # {}
               \/ \E n \in DOMAIN file :
                    /\ file[n].sku = i /\ Errors(items, file, n, role) = {}
                    /\ after[i] = WithOpening(Patched(items[i], file[n], role),
                                         PlanRow(items, file, n, role).opening)
<1> DEFINE after == Applied(items, file, role)
<1>1. items[i] \in Item
  BY ItemImportAssumption
<1>2. CASE \A n \in DOMAIN file : file[n].sku = i => Errors(items, file, n, role) # {}
  <2>1. after[i] = items[i]
    BY <1>2, AppliedIs
  <2> QED BY <1>1, <1>2, <2>1
<1>3. CASE ~ \A n \in DOMAIN file : file[n].sku = i => Errors(items, file, n, role) # {}
  <2>1. PICK n \in DOMAIN file : file[n].sku = i /\ Errors(items, file, n, role) = {}
    BY <1>3
  <2> DEFINE opening == PlanRow(items, file, n, role).opening
  <2>2. after[i] = WithOpening(Patched(items[i], file[n], role), opening)
    BY <2>1, AppliedIs
  <2>3. opening \in Nat /\ file[n] \in FileRow
    BY PlanRowIs, FileRows
  <2> HIDE DEF after, opening
  <2>4. WithOpening(Patched(items[i], file[n], role), opening) \in Item
    BY <1>1, <2>3, PatchedAgain DEF Done
  <2> QED BY <1>1, <2>1, <2>2, <2>4 DEF after, opening
<1> QED BY <1>2, <1>3

(* The same file again: what was wrong is wrong, and nothing else to do.    *)
LEMMA NothingAgain ==
  ASSUME NEW items \in Shelves, NEW file \in Files, NEW role \in Roles, NEW n \in DOMAIN file
  PROVE  LET again == PlanRow(Applied(items, file, role), file, n, role)
         IN /\ again.action \in {"error", "unchanged"}
            /\ again.action = "error" <=> Errors(items, file, n, role) # {}
            /\ again.opening = 0 /\ again.value = 0
<1> DEFINE after == Applied(items, file, role)
           row == file[n]
           i == row.sku
           again == PlanRow(after, file, n, role)
<1>1. CASE Errors(items, file, n, role) # {}
  <2>1. Errors(after, file, n, role) # {}
    <3>1. CASE row.sku = Blank \/ Twice(file, n)
      BY <3>1 DEF Errors, Twice
    <3>2. CASE row.sku # Blank /\ ~Twice(file, n)
      <4>1. i \in Goods
        BY <3>2, FileRows DEF FileRow
      <4>2. ASSUME NEW m \in DOMAIN file, file[m].sku = i, Errors(items, file, m, role) = {}
            PROVE  FALSE
        <5>1. ~Twice(file, m)
          BY <4>2, NoError
        <5>2. m \in 1..Len(file) /\ n \in 1..Len(file) /\ Len(file) \in Nat
          BY FileRows
        <5>3. CASE m < n
          BY <3>2, <4>2, <5>2, <5>3 DEF Twice
        <5>4. CASE n < m
          BY <4>2, <5>1, <5>2, <5>4 DEF Twice
        <5>5. CASE m = n
          BY <1>1, <4>2, <5>5
        <5> QED BY <5>2, <5>3, <5>4, <5>5
      <4>3. after[i] = items[i]
        BY <4>1, <4>2, AppliedIs
      <4> HIDE DEF after
      <4>4. Errors(after, file, n, role) = Errors(items, file, n, role)
        BY <4>3, PlanLooksAt
      <4> QED BY <1>1, <4>4
    <3> QED BY <3>1, <3>2
  <2>2. again = [action |-> "error", opening |-> 0, value |-> 0]
    BY <2>1 DEF PlanRow
  <2> HIDE DEF again
  <2>3. again.action = "error" /\ again.opening = 0 /\ again.value = 0
    BY <2>2
  <2> QED BY <1>1, <2>3 DEF again
<1>2. CASE Errors(items, file, n, role) = {}
  <2> DEFINE item == items[i]
             next == Patched(item, row, role)
             opening == PlanRow(items, file, n, role).opening
             got == WithOpening(next, opening)
  <2>1. /\ row.sku \in Goods /\ ~Twice(file, n) /\ ~(item.copies > 1) /\ ~row.unreadable
        /\ ~(next.max > 0 /\ next.max < next.min)
        /\ item \in Item /\ row \in FileRow /\ next \in Item
    BY <1>2, NoError
  <2>2. /\ opening \in Nat /\ (opening # 0 => Opens(item, row, role))
        /\ opening = IF Opens(item, row, role) THEN row.opening ELSE 0
    BY <1>2, PlanRowIs
  <2>3. after[i] = got
    BY <1>2, AppliedIs
  <2> HIDE DEF after, next, opening, item
  <2>4. /\ got \in Item /\ OnFile(got) /\ Patched(got, row, role) = got
        /\ next.copies = (IF OnFile(item) THEN item.copies ELSE 1) /\ got.copies = next.copies
        /\ got.max = next.max /\ got.min = next.min
        /\ got.qty = (IF opening = 0 THEN item.qty ELSE opening)
        /\ got.moved = (IF opening = 0 THEN item.moved ELSE TRUE)
    <3>1. Done(item, row, role, opening, next, got)
      BY <2>1, <2>2, PatchedAgain DEF next
    <3> HIDE DEF got
    <3> QED BY <3>1 DEF Done
  <2> HIDE DEF got
  <2>5. ~Opens(got, row, role)
    <3>1. CASE opening = 0
      <4>1. ~Opens(item, row, role)
        BY <2>2, <3>1 DEF Opens
      <4> QED BY <2>4, <3>1, <4>1 DEF Opens
    <3>2. CASE opening # 0
      BY <2>4, <3>2 DEF Opens
    <3> QED BY <3>1, <3>2
  <2>6. ~(got.copies > 1)
    BY <2>1, <2>4
  <2>7. Errors(after, file, n, role) = {}
    <3>1. row.sku # Blank
      BY <2>1, ItemImportAssumption
    <3>2. ~(\E k \in 1 .. (n - 1) : file[k].sku = row.sku)
      BY <2>1 DEF Twice
    <3>3. after[row.sku] = got
      BY <2>3
    <3> QED BY <2>1, <2>3, <2>4, <2>5, <2>6, <3>1, <3>2, <3>3 DEF Errors
  <2>8. again = [action |-> "unchanged", opening |-> 0, value |-> 0 * got.cost]
    BY <2>3, <2>4, <2>5, <2>7 DEF PlanRow
  <2>9. got.cost \in Nat
    BY <2>4, ItemFields
  <2> HIDE DEF again
  <2>10. again.action = "unchanged" /\ again.opening = 0 /\ again.value = 0
    BY <2>8, <2>9
  <2> QED BY <1>2, <2>10 DEF again, after
<1> QED BY <1>1, <1>2

(* Nor is there when what was opened has been sold.                         *)
LEMMA NothingOpenedAgain ==
  ASSUME NEW items \in Shelves, NEW file \in Files, NEW role \in Roles, NEW n \in DOMAIN file,
         NEW sold, sold = [i \in Goods |-> [Applied(items, file, role)[i] EXCEPT !.qty = 0]]
  PROVE  PlanRow(sold, file, n, role).value = 0
<1> DEFINE after == Applied(items, file, role)
           row == file[n]
           i == row.sku
           p == PlanRow(sold, file, n, role)
<1>1. row \in FileRow
  BY FileRows
<1>2. CASE i = Blank
  <2>1. p = [action |-> "error", opening |-> 0, value |-> 0]
    BY <1>2 DEF PlanRow, Errors
  <2> QED BY <2>1
<1>3. CASE i \in Goods
  <2>1. after[i] \in Item
    BY <1>3, AppliedItems
  <2>2. PlanRow(after, file, n, role).value = 0
    BY NothingAgain
  <2>3. sold[i] = [after[i] EXCEPT !.qty = 0]
    BY <1>3
  <2> HIDE DEF after
  <2>4. CASE after[i].qty = 0
    <3>1. sold[i] = after[i]
      BY <2>1, <2>3, <2>4 DEF Item
    <3>2. p = PlanRow(after, file, n, role)
      BY <3>1, PlanLooksAt
    <3> QED BY <2>2, <3>2
  <2>5. CASE after[i].qty # 0
    <3>1. sold[i].moved /\ sold[i] \in Item
      <4>1. sold[i].moved
        BY <2>1, <2>3, <2>5 DEF Item
      <4>2. sold[i] \in Item
        <5>1. after[i].copies # 0
          BY <2>1, <2>5, ItemFields, NewItemIsItem
        <5> QED BY <2>1, <2>3, <4>1, <5>1 DEF Item
      <4> QED BY <4>1, <4>2
    <3>2. ~Opens(sold[i], row, role)
      BY <3>1 DEF Opens
    <3>3. Patched(sold[i], row, role).cost \in Nat
      <4>1. \A opening \in Nat : Patched(sold[i], row, role) \in Item
        BY <1>1, <3>1, PatchedAgain DEF Done
      <4> QED BY <4>1, ItemFields
    <3>4. \/ p = [action |-> "error", opening |-> 0, value |-> 0]
          \/ p.value = 0 * Patched(sold[i], row, role).cost
      BY <3>2 DEF PlanRow
    <3> QED BY <3>3, <3>4
  <2> QED BY <2>4, <2>5
<1> QED BY <1>1, <1>2, <1>3 DEF FileRow

(* The value of what is opened, item by item and row by row.                *)
LEMMA OpeningIsWorth ==
  ASSUME NEW items \in Shelves, NEW file \in Files, NEW role \in Roles
  PROVE  /\ StockWorth(Applied(items, file, role)) =
              StockWorth(items) + OpeningValue(Plan(items, file, role))
         /\ StockWorth(items) \in Int
         /\ OpeningValue(Plan(items, file, role)) \in Int
<1> DEFINE after == Applied(items, file, role)
           plan == Plan(items, file, role)
           before == [i \in Goods |-> items[i].qty * items[i].cost]
           then == [i \in Goods |-> after[i].qty * after[i].cost]
           more == [i \in Goods |-> then[i] - before[i]]
           value == [n \in DOMAIN file |-> PlanRow(items, file, n, role).value]
           A == {n \in DOMAIN file : PlanRow(items, file, n, role).opening # 0}
           sku == [n \in A |-> file[n].sku]
           named == {sku[n] : n \in A}
<1>1. OpeningValue(plan) = Sum(value, DOMAIN file)
  BY DEF OpeningValue, Plan
<1>2. StockWorth(items) = Sum(before, Goods) /\ StockWorth(after) = Sum(then, Goods)
  BY DEF StockWorth
<1>3. /\ IsFiniteSet(DOMAIN file) /\ IsFiniteSet(Goods) /\ A \in SUBSET DOMAIN file
      /\ IsFiniteSet(A)
  BY FileRows, InventoryAssumption, FS_Subset
<1>4. /\ \A n \in DOMAIN file : value[n] \in Int
      /\ \A n \in DOMAIN file \ A : value[n] = 0
  <2> SUFFICES ASSUME NEW n \in DOMAIN file
               PROVE  value[n] \in Int /\ (n \notin A => value[n] = 0)
    OBVIOUS
  <2> DEFINE p == PlanRow(items, file, n, role)
             next == Patched(items[file[n].sku], file[n], role)
  <2>1. /\ p.value \in Nat /\ (p.action = "error" => p.value = 0)
        /\ (p.action # "error" => p.value = p.opening * next.cost)
        /\ (p.action # "error" <=> Errors(items, file, n, role) = {})
    BY PlanRowIs
  <2>2. p.action # "error" => next.cost \in Nat
    BY <2>1, NoError, ItemFields
  <2>3. value[n] = p.value /\ (n \notin A <=> p.opening = 0)
    OBVIOUS
  <2> HIDE DEF p, next, value, A
  <2>4. p.opening = 0 => p.value = 0
    BY <2>1, <2>2
  <2> QED BY <2>1, <2>3, <2>4
<1>5. \A i \in Goods : items[i] \in Item /\ after[i] \in Item
  BY AppliedItems
<1>6. \A i \in Goods : /\ before[i] \in Int /\ then[i] \in Int /\ more[i] \in Int
                       /\ then[i] = before[i] + more[i]
  <2> SUFFICES ASSUME NEW i \in Goods
               PROVE  /\ before[i] \in Int /\ then[i] \in Int /\ more[i] \in Int
                      /\ then[i] = before[i] + more[i]
    OBVIOUS
  <2>1. /\ items[i].qty \in Nat /\ items[i].cost \in Nat
        /\ after[i].qty \in Nat /\ after[i].cost \in Nat
    BY <1>5, ItemFields
  <2>2. before[i] \in Int /\ then[i] \in Int
    <3> HIDE DEF after
    <3> QED BY <2>1
  <2> HIDE DEF before, then
  <2> QED BY <2>2
<1>7. ASSUME NEW n \in A
      PROVE  sku[n] \in Goods /\ more[sku[n]] = value[n] /\ ~Twice(file, n)
  <2> DEFINE i == file[n].sku
             item == items[i]
             next == Patched(item, file[n], role)
             p == PlanRow(items, file, n, role)
             got == WithOpening(next, p.opening)
  <2>1. /\ p.opening \in Nat /\ p.opening # 0 /\ p.action # "error"
        /\ Errors(items, file, n, role) = {}
        /\ p.value = p.opening * next.cost /\ Opens(item, file[n], role)
    BY PlanRowIs
  <2>2. i \in Goods /\ ~Twice(file, n) /\ item \in Item /\ file[n] \in FileRow
    BY <2>1, NoError
  <2>3. after[i] = got
    BY <2>1, AppliedIs
  <2>4. Done(item, file[n], role, p.opening, next, got)
    BY <2>1, <2>2, PatchedAgain
  <2>5. item.qty = 0 /\ item.cost \in Nat
    BY <2>1, <2>2, ItemFields DEF Opens
  <2>6. next.cost \in Nat
    BY <2>4, ItemFields DEF Done
  <2>7. sku[n] = i /\ value[n] = p.value
    OBVIOUS
  <2>8. before[i] = item.qty * item.cost /\ then[i] = after[i].qty * after[i].cost
        /\ more[i] = then[i] - before[i]
    BY <2>2
  <2> HIDE DEF after, got, next, item, p, i, sku, value, before, then, more
  <2>9. after[i].qty = p.opening /\ after[i].cost = next.cost
    BY <2>1, <2>3, <2>4 DEF Done
  <2>10. before[i] = 0 /\ then[i] = p.value /\ p.value \in Int
    <3>1. before[i] = 0
      BY <2>5, <2>8
    <3>2. then[i] = p.value
      BY <2>1, <2>8, <2>9
    <3>3. p.value \in Int
      BY <2>1, <2>6
    <3> QED BY <3>1, <3>2, <3>3
  <2> QED BY <2>2, <2>7, <2>8, <2>10
<1>8. \A m, n \in A : sku[m] = sku[n] => m = n
  <2> SUFFICES ASSUME NEW m \in A, NEW n \in A, file[m].sku = file[n].sku, m # n PROVE FALSE
    OBVIOUS
  <2>1. m \in 1..Len(file) /\ n \in 1..Len(file) /\ Len(file) \in Nat
    BY FileRows
  <2>2. ~Twice(file, m) /\ ~Twice(file, n)
    BY <1>7
  <2>3. m < n \/ n < m
    BY <2>1
  <2> QED BY <2>1, <2>2, <2>3 DEF Twice
<1>9. ASSUME NEW i \in Goods, i \notin named
      PROVE  more[i] = 0
  <2>1. /\ items[i] \in Item
        /\ \/ after[i] = items[i]
           \/ \E n \in DOMAIN file :
                /\ file[n].sku = i /\ Errors(items, file, n, role) = {}
                /\ after[i] = WithOpening(Patched(items[i], file[n], role),
                                     PlanRow(items, file, n, role).opening)
    BY AppliedItems
  <2>2. CASE after[i] = items[i]
    <3>1. then[i] = before[i]
      BY <2>2
    <3> QED BY <1>6, <3>1
  <2>3. ASSUME NEW n \in DOMAIN file, file[n].sku = i, Errors(items, file, n, role) = {},
               after[i] = WithOpening(Patched(items[i], file[n], role),
                                 PlanRow(items, file, n, role).opening)
        PROVE  more[i] = 0
    <3> DEFINE next == Patched(items[i], file[n], role)
    <3>1. PlanRow(items, file, n, role).opening = 0
      <4>1. n \in A => sku[n] = i /\ i \in named
        BY <2>3
      <4> QED BY <1>9, <4>1
    <3>2. file[n] \in FileRow /\ after[i] = next /\ 0 \in Nat
      BY <2>3, <3>1, FileRows DEF WithOpening
    <3>3. Done(items[i], file[n], role, 0, next, WithOpening(next, 0))
      BY <2>1, <3>2, PatchedAgain
    <3>4. next.qty = items[i].qty /\ next \in Item
      BY <3>3 DEF Done
    <3>5. next.cost = items[i].cost \/ items[i].qty = 0
      <4>1. CASE OnFile(items[i])
        <5>1. next.cost # items[i].cost => MayReprice(items[i])
          BY <2>3, <4>1, NoError
        <5>2. items[i].qty \in Nat
          BY <2>1, ItemFields
        <5> QED BY <5>1, <5>2 DEF MayReprice
      <4>2. CASE ~OnFile(items[i])
        <5>1. items[i].copies = 0
          BY <2>1, <4>2, ItemFields DEF OnFile
        <5> QED BY <2>1, <5>1, ItemFields, NewItemIsItem
      <4> QED BY <4>1, <4>2
    <3>6. next.cost \in Nat /\ items[i].cost \in Nat /\ items[i].qty \in Nat
      BY <2>1, <3>4, ItemFields
    <3>7. then[i] = after[i].qty * after[i].cost /\ before[i] = items[i].qty * items[i].cost
      OBVIOUS
    <3> HIDE DEF next, then, before, more, after
    <3>8. then[i] = before[i]
      <4>1. CASE next.cost = items[i].cost
        BY <3>2, <3>4, <3>7, <4>1
      <4>2. CASE items[i].qty = 0
        BY <3>2, <3>4, <3>6, <3>7, <4>2
      <4> QED BY <3>5, <4>1, <4>2
    <3> QED BY <1>6, <3>8
  <2> HIDE DEF after, more
  <2> QED BY <2>1, <2>2, <2>3
<1>10. /\ named \in SUBSET Goods /\ \A i \in Goods \ named : more[i] = 0
       /\ \A n \in A : value[n] \in Int /\ more[sku[n]] = value[n]
  BY <1>3, <1>4, <1>7, <1>9
<1>11. named = {sku[n] : n \in A}
  OBVIOUS
<1> HIDE DEF after, plan, before, then, more, value, A, sku, named
<1>12. Sum(then, Goods) = Sum(before, Goods) + Sum(more, Goods)
  BY <1>3, <1>6, SumPlus
<1>13. Sum(more, Goods) = Sum(more, named)
  BY <1>3, <1>6, <1>10, SumWithin
<1>14. Sum(more, named) = Sum(value, A)
  BY <1>3, <1>8, <1>10, <1>11, SumRenamed
<1>15. Sum(value, DOMAIN file) = Sum(value, A)
  BY <1>3, <1>4, SumWithin
<1>16. Sum(before, Goods) \in Int /\ Sum(value, DOMAIN file) \in Int
  BY <1>3, <1>4, <1>6, SumInt
<1> QED BY <1>1, <1>2, <1>12, <1>13, <1>14, <1>15, <1>16 DEF after, plan

(* What a row leaves of the limits and of who may switch an item off.       *)
LEMMA RowsHarmless ==
  ASSUME NEW items \in Shelves, NEW file \in Files, NEW role \in Roles, NEW i \in Goods
  PROVE  LET after == Applied(items, file, role)
         IN /\ Sensible(items[i]) => Sensible(after[i])
            /\ role = "staff" => after[i].active = (OnFile(items[i]) => items[i].active)
<1> DEFINE after == Applied(items, file, role)
<1>1. /\ items[i] \in Item
      /\ \/ after[i] = items[i]
         \/ \E n \in DOMAIN file :
              /\ file[n].sku = i /\ Errors(items, file, n, role) = {}
              /\ after[i] = WithOpening(Patched(items[i], file[n], role),
                                   PlanRow(items, file, n, role).opening)
  BY AppliedItems
<1>2. /\ ~OnFile(items[i]) => items[i].active = TRUE
      /\ items[i].active \in BOOLEAN
  <2>1. ~OnFile(items[i]) => items[i] = Absent
    BY <1>1, ItemFields DEF OnFile
  <2> QED BY <1>1, <2>1, ItemFields, NewItemIsItem
<1>3. CASE after[i] = items[i]
  BY <1>2, <1>3
<1>4. ASSUME NEW n \in DOMAIN file, file[n].sku = i, Errors(items, file, n, role) = {},
             after[i] = WithOpening(Patched(items[i], file[n], role),
                               PlanRow(items, file, n, role).opening)
      PROVE  /\ Sensible(after[i])
             /\ role = "staff" => after[i].active = (OnFile(items[i]) => items[i].active)
  <2> DEFINE next == Patched(items[i], file[n], role)
             opening == PlanRow(items, file, n, role).opening
             got == WithOpening(next, opening)
  <2>1. opening \in Nat /\ file[n] \in FileRow
    BY PlanRowIs, FileRows
  <2>2. Done(items[i], file[n], role, opening, next, got)
    BY <1>1, <2>1, PatchedAgain
  <2>3. ~(next.max > 0 /\ next.max < next.min)
    BY <1>4, NoError
  <2>4. after[i] = got
    BY <1>4
  <2> HIDE DEF next, opening, got, after
  <2>5. /\ after[i].max = next.max /\ after[i].min = next.min /\ after[i].active = next.active
        /\ next.max \in Nat /\ next.min \in Nat
        /\ next.active = Active(file[n], BaseOf(items[i]).active, role)
    BY <2>2, <2>4, ItemFields DEF Done
  <2>6. Sensible(after[i])
    BY <2>3, <2>5 DEF Sensible
  <2>7. ASSUME role = "staff"
        PROVE  after[i].active = (OnFile(items[i]) => items[i].active)
    <3>1. after[i].active = BaseOf(items[i]).active
      BY <2>5, <2>7 DEF Active
    <3>2. CASE OnFile(items[i])
      BY <1>2, <3>1, <3>2 DEF BaseOf
    <3>3. CASE ~OnFile(items[i])
      BY <3>1, <3>3, NewItemIsItem DEF BaseOf
    <3> QED BY <3>2, <3>3
  <2> QED BY <2>6, <2>7
<1> DEFINE harmless == /\ Sensible(items[i]) => Sensible(after[i])
                       /\ role = "staff" => after[i].active = (OnFile(items[i]) => items[i].active)
<1>5. after[i] = items[i] => harmless
  BY <1>3
<1>6. \A n \in DOMAIN file :
        /\ file[n].sku = i /\ Errors(items, file, n, role) = {}
        /\ after[i] = WithOpening(Patched(items[i], file[n], role),
                             PlanRow(items, file, n, role).opening)
        => harmless
  BY <1>4
<1> HIDE DEF after, harmless
<1>7. harmless
  BY <1>1, <1>5, <1>6
<1> QED BY <1>7 DEF after, harmless

(* Whatever file is sent, by whom, onto whatever items: sent again it does  *)
(* nothing, what was wrong is still wrong, and no opening stock is recorded *)
(* twice, not even when it has been sold; the stock is worth more by the    *)
(* opening value the owner confirmed; and what staff may not switch, and    *)
(* limits that made sense, stay as they were.                               *)
THEOREM ImportsStayHarmless == StockSpec => []ImportHarmless
<1>1. ASSUME NEW items \in Shelves, NEW file \in Files, NEW role \in Roles
      PROVE  LET plan == Plan(items, file, role)
                 after == Applied(items, file, role)
                 again == Plan(after, file, role)
                 sold == [i \in Goods |-> [after[i] EXCEPT !.qty = 0]]
             IN /\ Rows(again, "create") \cup Rows(again, "update") = {}
                /\ Rows(again, "error") = Rows(plan, "error")
                /\ OpeningValue(Plan(sold, file, role)) = 0
                /\ StockWorth(after) = StockWorth(items) + OpeningValue(plan)
                /\ Confirms(plan, Blank) => StockWorth(after) = StockWorth(items)
                /\ role = "staff" =>
                     /\ OpeningValue(plan) = 0
                     /\ \A i \in Goods : after[i].active = (OnFile(items[i]) => items[i].active)
                /\ \A i \in Goods : Sensible(items[i]) => Sensible(after[i])
  <2> DEFINE plan == Plan(items, file, role)
             after == Applied(items, file, role)
             again == Plan(after, file, role)
             sold == [i \in Goods |-> [after[i] EXCEPT !.qty = 0]]
             value(p) == [n \in DOMAIN p |-> p[n].value]
  <2>1. /\ DOMAIN plan = DOMAIN file /\ DOMAIN again = DOMAIN file
        /\ DOMAIN Plan(sold, file, role) = DOMAIN file /\ IsFiniteSet(DOMAIN file)
        /\ \A n \in DOMAIN file :
             /\ plan[n] = PlanRow(items, file, n, role)
             /\ again[n] = PlanRow(after, file, n, role)
             /\ Plan(sold, file, role)[n] = PlanRow(sold, file, n, role)
    <3>1. IsFiniteSet(DOMAIN file)
      BY FileRows
    <3> HIDE DEF after, sold
    <3> QED BY <3>1 DEF Plan
  <2>2. \A n \in DOMAIN file : /\ again[n].action \in {"error", "unchanged"}
                               /\ again[n].action = "error" <=> plan[n].action = "error"
    <3> SUFFICES ASSUME NEW n \in DOMAIN file
                 PROVE  /\ again[n].action \in {"error", "unchanged"}
                        /\ again[n].action = "error" <=> plan[n].action = "error"
      OBVIOUS
    <3>1. /\ PlanRow(after, file, n, role).action \in {"error", "unchanged"}
          /\ PlanRow(after, file, n, role).action = "error" <=> Errors(items, file, n, role) # {}
      BY NothingAgain
    <3>2. PlanRow(items, file, n, role).action = "error" <=> Errors(items, file, n, role) # {}
      BY PlanRowIs
    <3> HIDE DEF plan, after, again
    <3> QED BY <2>1, <3>1, <3>2
  <2>3. /\ StockWorth(after) = StockWorth(items) + OpeningValue(plan)
        /\ StockWorth(items) \in Int /\ OpeningValue(plan) \in Int
    BY OpeningIsWorth
  <2>4. \A i \in Goods : /\ Sensible(items[i]) => Sensible(after[i])
                         /\ role = "staff" => after[i].active = (OnFile(items[i]) => items[i].active)
    BY RowsHarmless
  <2>5. \A n \in DOMAIN file : PlanRow(sold, file, n, role).value = 0
    <3> SUFFICES ASSUME NEW n \in DOMAIN file PROVE PlanRow(sold, file, n, role).value = 0
      OBVIOUS
    <3>1. sold = [i \in Goods |-> [Applied(items, file, role)[i] EXCEPT !.qty = 0]]
      OBVIOUS
    <3> HIDE DEF sold
    <3> QED BY <3>1, NothingOpenedAgain
  <2>6. \A n \in DOMAIN file : /\ plan[n].opening \in Nat
                               /\ plan[n].opening = 0 => plan[n].value = 0
                               /\ role = "staff" => plan[n].opening = 0
    <3> SUFFICES ASSUME NEW n \in DOMAIN file
                 PROVE  /\ plan[n].opening \in Nat
                        /\ plan[n].opening = 0 => plan[n].value = 0
                        /\ role = "staff" => plan[n].opening = 0
      OBVIOUS
    <3> DEFINE p == PlanRow(items, file, n, role)
               next == Patched(items[file[n].sku], file[n], role)
    <3>1. /\ p.opening \in Nat /\ (p.action = "error" => p.value = 0)
          /\ (p.action # "error" => p.value = p.opening * next.cost)
          /\ (p.action # "error" <=> Errors(items, file, n, role) = {})
          /\ (p.opening # 0 => Opens(items[file[n].sku], file[n], role))
      BY PlanRowIs
    <3>2. p.action # "error" => next.cost \in Nat
      BY <3>1, NoError, ItemFields
    <3>3. role = "staff" => p.opening = 0
      BY <3>1 DEF Opens
    <3>4. plan[n] = p
      BY <2>1
    <3> HIDE DEF p, next, plan
    <3>5. p.opening = 0 => p.value = 0
      BY <3>1, <3>2
    <3> QED BY <3>1, <3>3, <3>4, <3>5
  <2> HIDE DEF plan, after, again, sold
  <2>7. OpeningValue(Plan(sold, file, role)) = 0
    <3> DEFINE v == [n \in DOMAIN Plan(sold, file, role) |-> Plan(sold, file, role)[n].value]
    <3>1. \A n \in DOMAIN file : v[n] = 0
      BY <2>1, <2>5
    <3>2. OpeningValue(Plan(sold, file, role)) = Sum(v, DOMAIN file)
      BY <2>1 DEF OpeningValue
    <3> HIDE DEF v
    <3> QED BY <2>1, <3>1, <3>2, SumZero
  <2>8. (\A n \in DOMAIN file : plan[n].opening = 0) => OpeningValue(plan) = 0
    <3> SUFFICES ASSUME \A n \in DOMAIN file : plan[n].opening = 0
                 PROVE  OpeningValue(plan) = 0
      OBVIOUS
    <3> DEFINE v == [n \in DOMAIN plan |-> plan[n].value]
    <3>1. \A n \in DOMAIN file : v[n] = 0
      BY <2>1, <2>6
    <3>2. OpeningValue(plan) = Sum(v, DOMAIN file)
      BY <2>1 DEF OpeningValue
    <3> HIDE DEF v
    <3> QED BY <2>1, <3>1, <3>2, SumZero
  <2>9. Confirms(plan, Blank) => OpeningValue(plan) = 0
    <3>1. Blank # OpeningValue(plan)
      BY <2>3, ItemImportAssumption
    <3>2. Confirms(plan, Blank) => \A n \in DOMAIN file : ~(plan[n].opening > 0)
      BY <2>1, <3>1 DEF Confirms
    <3> QED BY <2>6, <2>8, <3>2
  <2>10. Rows(again, "create") \cup Rows(again, "update") = {}
    BY <2>1, <2>2 DEF Rows
  <2>11. Rows(again, "error") = Rows(plan, "error")
    BY <2>1, <2>2 DEF Rows
  <2>12. Confirms(plan, Blank) => StockWorth(after) = StockWorth(items)
    BY <2>3, <2>9
  <2>13. role = "staff" => OpeningValue(plan) = 0
    BY <2>6, <2>8
  <2> QED BY <2>3, <2>4, <2>7, <2>10, <2>11, <2>12, <2>13 DEF plan, after, again, sold
<1>2. ImportHarmless
  BY <1>1 DEF ImportHarmless
<1> QED BY <1>2, PTL

=============================================================================
