------------------------ MODULE GeneralLedgerProofs ------------------------
(***************************************************************************)
(* Theorems about GeneralLedger, for every chart of accounts, any entries, *)
(* any number of requests, and whatever overlaps unless a theorem says so. *)
(***************************************************************************)
EXTENDS GeneralLedger, FiniteSumTheorems

-----------------------------------------------------------------------------
(* Types *)

Texts == Sources \cup {"journal_entry", "opening_balance"}
Entry == [day : Days, src : Texts, lines : [Accounts -> Int],
          status : {"draft", "posted", "void"}, of : Nat, own : BOOLEAN, ref : Nat]
LedgerRow == [id : Nat, ref : Nat, entry : Nat, day : Days, src : Texts, acct : Accounts,
              amt : Int, own : BOOLEAN, rec : Nat, run : Int]
Account == [status : {"absent", "active", "inactive"}, kind : Kinds, balance : Int]
Rec == [id : Nat, acct : Accounts, day : Days, from : Int, to : Int]
Database == [entries : Seq(Entry), rows : SUBSET LedgerRow, lock : Nat, recs : SUBSET Rec,
             acct : [Accounts -> Account]]

KindMap == [Accounts -> Kinds]
CreateCall == [op : {"create"}, ref : Nat, kind : KindMap, opens : SUBSET Accounts, e : Entry]
PostCall == [op : {"post"}, n : Nat, e : Entry, kind : KindMap]
VoidCall == [op : {"reverse", "discard"}, n : Nat, e : Entry, ref : Nat, kind : KindMap]
CloseCall == [op : {"close"}, lock : Nat]
NamedCall == [op : {"open"}, a : Accounts] \cup [op : {"remove"}, a : Accounts \ System]
ToggleCall == [op : {"toggle"}, a : Accounts, row : Account]
UpdateCall == [op : {"update"}, a : Accounts, kind : Kinds, status : {"active", "inactive"}]
ReconcileCall ==
  [op : {"reconcile"}, a : Accounts, S : SUBSET LedgerRow, day : Days, from : Int]
UndoCall == [op : {"undo"}, id : Nat]
Calls ==
  UNION {{Idle}, CreateCall, PostCall, VoidCall, CloseCall, NamedCall, ToggleCall, UpdateCall,
         ReconcileCall, UndoCall}

TypeOK ==
  /\ db \in Database /\ IsFiniteSet(db.rows) /\ IsFiniteSet(db.recs)
  /\ \A a \in System : db.acct[a].status # "absent"
  /\ req \in [Requests -> Calls]
  /\ \A r \in Requests : req[r].op = "reconcile" => IsFiniteSet(req[r].S)
  /\ holder \in Requests \cup {Nobody}
  /\ writes \in Nat
  /\ apart \in BOOLEAN

LEMMA DbFields ==
  ASSUME NEW d \in Database
  PROVE  /\ d.entries \in Seq(Entry) /\ d.rows \in SUBSET LedgerRow /\ d.lock \in Nat
         /\ d.recs \in SUBSET Rec /\ d.acct \in [Accounts -> Account]
  BY DEF Database

(* The shape of a call by what it asks for.                                 *)
LEMMA CallShapes ==
  ASSUME NEW c \in Calls
  PROVE  /\ c.op \in {"idle", "create", "post", "reverse", "discard", "close", "open", "remove",
                      "toggle", "update", "reconcile", "undo"}
         /\ c.op = "idle" <=> c = Idle
         /\ c.op = "create" => c \in CreateCall
         /\ c.op = "post" => c \in PostCall
         /\ c.op \in {"reverse", "discard"} => c \in VoidCall
         /\ c.op = "close" => c \in CloseCall
         /\ c.op \in {"open", "remove"} => c \in NamedCall
         /\ c.op = "toggle" => c \in ToggleCall
         /\ c.op = "update" => c \in UpdateCall
         /\ c.op = "reconcile" => c \in ReconcileCall
         /\ c.op = "undo" => c \in UndoCall
<1>1. CASE c = Idle
  BY <1>1 DEF Idle
<1>2. CASE c \in CreateCall
  BY <1>2 DEF Idle, CreateCall
<1>3. CASE c \in PostCall
  BY <1>3 DEF Idle, PostCall
<1>4. CASE c \in VoidCall
  BY <1>4 DEF Idle, VoidCall
<1>5. CASE c \in CloseCall
  BY <1>5 DEF Idle, CloseCall
<1>6. CASE c \in NamedCall
  BY <1>6 DEF Idle, NamedCall
<1>7. CASE c \in ToggleCall
  BY <1>7 DEF Idle, ToggleCall
<1>8. CASE c \in UpdateCall
  BY <1>8 DEF Idle, UpdateCall
<1>9. CASE c \in ReconcileCall
  BY <1>9 DEF Idle, ReconcileCall
<1>10. CASE c \in UndoCall
  BY <1>10 DEF Idle, UndoCall
<1> QED
  BY <1>1, <1>2, <1>3, <1>4, <1>5, <1>6, <1>7, <1>8, <1>9, <1>10 DEF Calls

LEMMA TodayIsADay == Today \in Days
<1> DEFINE After(x) == {y \in Days : y > x}
           C == {After(x) : x \in Days}
<1>1. IsFiniteSet(Days) /\ Days # {} /\ Days \subseteq Nat
  BY GeneralLedgerAssumption
<1>2. C \in SUBSET (SUBSET Days) /\ C # {}
  BY <1>1
<1>3. PICK A \in C : \A B \in C : B \subseteq A => B = A
  <2> HIDE DEF C
  <2>1. IsFiniteSet(Days)
    BY <1>1
  <2> QED BY <2>1, <1>2, MinimalSet
<1>4. PICK x \in Days : A = After(x)
  OBVIOUS
<1>5. A = {}
  <2>1. SUFFICES ASSUME NEW z \in A PROVE FALSE
    OBVIOUS
  <2>2. z \in Days /\ z > x
    BY <1>4
  <2>3. After(z) \in C
    BY <2>2
  <2>4. z \notin After(z)
    BY <1>1, <2>2
  <2>5. \A y \in After(z) : y \in A
    <3>1. \A y \in Days : y \in Nat
      BY <1>1
    <3> QED BY <1>4, <2>2, <3>1
  <2> QED BY <1>3, <2>3, <2>4, <2>5
<1>6. \A y \in Days : y <= x
  BY <1>1, <1>4, <1>5
<1> QED BY <1>6 DEF Today

LEMMA EntryFields ==
  ASSUME NEW e \in Entry
  PROVE  /\ e.day \in Days /\ e.src \in Texts /\ e.lines \in [Accounts -> Int] /\ e.of \in Nat
         /\ e.status \in {"draft", "posted", "void"} /\ e.own \in BOOLEAN /\ e.ref \in Nat
  BY DEF Entry

LEMMA EntryWithRef ==
  ASSUME NEW e \in Entry, NEW n \in Nat, NEW x, x = [e EXCEPT !.ref = n]
  PROVE  /\ x \in Entry /\ x.ref = n /\ x.lines = e.lines /\ x.day = e.day
         /\ x.status = e.status /\ x.of = e.of
  BY DEF Entry

LEMMA EntryWithStatus ==
  ASSUME NEW e \in Entry, NEW s \in {"draft", "posted", "void"}, NEW x, x = [e EXCEPT !.status = s]
  PROVE  /\ x \in Entry /\ x.ref = e.ref /\ x.lines = e.lines /\ x.day = e.day
         /\ x.status = s /\ x.of = e.of
  BY DEF Entry

LEMMA EntryWithSource ==
  ASSUME NEW e \in Entry, NEW t \in Texts, NEW x, x = [e EXCEPT !.src = t]
  PROVE  /\ x \in Entry /\ x.ref = e.ref /\ x.lines = e.lines /\ x.day = e.day
         /\ x.status = e.status /\ x.of = e.of
  BY DEF Entry

LEMMA AccountFields ==
  ASSUME NEW row \in Account
  PROVE  /\ row.status \in {"absent", "active", "inactive"} /\ row.kind \in Kinds
         /\ row.balance \in Int
  BY DEF Account

LEMMA AccountWithStatus ==
  ASSUME NEW row \in Account, NEW s \in {"absent", "active", "inactive"}, NEW x,
         x = [row EXCEPT !.status = s]
  PROVE  x \in Account /\ x.status = s /\ x.kind = row.kind /\ x.balance = row.balance
  BY DEF Account

LEMMA AccountWithBalance ==
  ASSUME NEW row \in Account, NEW b \in Int, NEW x, x = [row EXCEPT !.balance = b]
  PROVE  x \in Account /\ x.status = row.status /\ x.kind = row.kind /\ x.balance = b
  BY DEF Account

LEMMA RowFields ==
  ASSUME NEW row \in LedgerRow
  PROVE  /\ row.id \in Nat /\ row.day \in Days /\ row.acct \in Accounts /\ row.amt \in Int
         /\ row.rec \in Nat /\ row.run \in Int /\ row.entry \in Nat
  BY DEF LedgerRow

LEMMA RowWithRec ==
  ASSUME NEW row \in LedgerRow, NEW n \in Nat, NEW x, x = [row EXCEPT !.rec = n]
  PROVE  /\ x \in LedgerRow /\ x.rec = n /\ x.id = row.id /\ x.day = row.day
         /\ x.acct = row.acct /\ x.amt = row.amt /\ x.run = row.run
  BY DEF LedgerRow

LEMMA SignedInt ==
  ASSUME NEW k, NEW x \in Int
  PROVE  Signed(k, x) \in Int
  BY DEF Signed

-----------------------------------------------------------------------------
(* What a request has read: ReadNow(c) is what the guards of its first step *)
(* ensure of the call it keeps.                                             *)

KindNow == KindOf(db)
ReadNow(c) ==
  /\ c.op = "create" =>
       /\ c.kind = KindNow
       /\ c.e.of = 0
       /\ c.e.status \in {"draft", "posted"}
       /\ c.e.status = "posted" => CanPost(db, c.e.lines, c.e.day)
  /\ c.op = "post" =>
       /\ c.n \in DOMAIN db.entries
       /\ c.kind = KindNow
       /\ db.entries[c.n].status = "draft"
       /\ c.e = [db.entries[c.n] EXCEPT !.src = "journal_entry"]
       /\ CanPost(db, c.e.lines, c.e.day)
  /\ c.op \in {"reverse", "discard"} =>
       /\ c.n \in DOMAIN db.entries
       /\ c.e = db.entries[c.n]
       /\ c.kind = KindNow
  /\ c.op = "reverse" => c.e.status = "posted" /\ IsOpen(db, Today)
  /\ c.op = "discard" => c.e.status = "draft"
  /\ c.op = "toggle" => c.row = db.acct[c.a]
  /\ c.op = "reconcile" =>
       /\ c.S \subseteq {row \in db.rows : row.acct = c.a}
       /\ MayReconcile(db, c.a, c.S, c.day)
       /\ c.from = Beginning(db, c.a)
  /\ c.op = "undo" => \E rec \in db.recs : rec.id = c.id /\ IsLast(db, rec)
(* Nothing is drawn yet. *)
Undrawn(c) == c.op \in {"create", "reverse"} => c.ref = 0
AskedFor(r, c) ==
  /\ c \in Calls /\ c.op # "idle" /\ ReadNow(c) /\ Undrawn(c)
  /\ c.op = "reconcile" => IsFiniteSet(c.S)
  /\ Ask(r, c)

LEMMA EntriesTyped ==
  ASSUME TypeOK
  PROVE  /\ Len(db.entries) \in Nat
         /\ DOMAIN db.entries = 1 .. Len(db.entries)
         /\ \A n \in DOMAIN db.entries : db.entries[n] \in Entry
         /\ KindNow \in KindMap
         /\ \A a \in Accounts : /\ db.acct[a] \in Account
                                /\ KindNow[a] = db.acct[a].kind
<1>1. db.entries \in Seq(Entry) /\ db.acct \in [Accounts -> Account]
  BY DbFields DEF TypeOK
<1>2. \A a \in Accounts : db.acct[a] \in Account /\ db.acct[a].kind \in Kinds
  BY <1>1, AccountFields
<1> QED BY <1>1, <1>2 DEF KindNow, KindOf, KindMap

LEMMA AmountsInt ==
  ASSUME NEW S, S \subseteq LedgerRow, IsFiniteSet(S)
  PROVE  Amounts(S) \in Int
<1> DEFINE f == [r \in S |-> r.amt]
<1>1. \A r \in S : f[r] \in Int
  BY RowFields
<1> HIDE DEF f
<1>2. Sum(f, S) \in Int
  BY <1>1, SumInt
<1> QED BY <1>2 DEF Amounts, f

(* An entry of two lines that cancel is balanced.                           *)
LEMMA TwoLines ==
  ASSUME NEW lines \in [Accounts -> Int], NEW a \in Accounts, NEW b \in Accounts, a # b,
         lines[a] = -lines[b], \A x \in Accounts \ {a, b} : lines[x] = 0
  PROVE  Balanced(lines)
<1>1. IsFiniteSet(Accounts) /\ {a, b} \in SUBSET Accounts
  BY GeneralLedgerAssumption
<1>2. Sum(lines, Accounts) = Sum(lines, {a, b})
  BY <1>1, SumWithin
<1>3. Sum(lines, {a, b}) = lines[a] + Sum(lines, {b})
  <2>1. IsFiniteSet({b}) /\ a \notin {b} /\ {b} \cup {a} = {a, b}
    BY FS_Singleton
  <2>2. \A y \in {b} \cup {a} : lines[y] \in Int
    OBVIOUS
  <2>3. Sum(lines, {b} \cup {a}) = lines[a] + Sum(lines, {b})
    BY <2>1, <2>2, SumAdd
  <2> QED BY <2>1, <2>3
<1>4. Sum(lines, {b}) = lines[b]
  <2>1. IsFiniteSet({}) /\ b \notin {} /\ {} \cup {b} = {b}
    BY FS_EmptySet
  <2>2. \A y \in {} \cup {b} : lines[y] \in Int
    OBVIOUS
  <2>3. Sum(lines, {} \cup {b}) = lines[b] + Sum(lines, {})
    BY <2>1, <2>2, SumAdd
  <2> QED BY <2>1, <2>3, SumEmpty
<1> QED BY <1>2, <1>3, <1>4 DEF Balanced

LEMMA AskReads ==
  ASSUME TypeOK, NEW r \in Requests, AskStep(r)
  PROVE  \E c : AskedFor(r, c)
<1>a. /\ \A n \in DOMAIN db.entries : db.entries[n] \in Entry
      /\ DOMAIN db.entries \subseteq Nat
      /\ KindNow \in KindMap
      /\ \A a \in Accounts : db.acct[a] \in Account
      /\ db.rows \subseteq LedgerRow /\ IsFiniteSet(db.rows) /\ db.recs \subseteq Rec
  BY EntriesTyped, DbFields DEF TypeOK
<1>1. CASE AskCreate(r)
  <2>1. PICK lines \in Catalogue, day \in Days, src \in Sources, status \in {"draft", "posted"} :
          /\ status = "posted" => CanPost(db, lines, day)
          /\ Ask(r, [op |-> "create", ref |-> 0, kind |-> KindNow, opens |-> {},
                     e |-> [day |-> day, src |-> src, lines |-> lines, status |-> status,
                            of |-> 0, own |-> TRUE, ref |-> 0]])
    BY <1>1 DEF AskCreate, KindNow
  <2>2. PICK e : e = [day |-> day, src |-> src, lines |-> lines, status |-> status,
                      of |-> 0, own |-> TRUE, ref |-> 0]
    OBVIOUS
  <2>3. e \in Entry /\ e.of = 0 /\ e.status = status /\ e.lines = lines /\ e.day = day
    BY <2>2, GeneralLedgerAssumption DEF Entry, Texts
  <2>4. PICK c : c = [op |-> "create", ref |-> 0, kind |-> KindNow, opens |-> {}, e |-> e]
    OBVIOUS
  <2>5. c \in CreateCall /\ c.op = "create" /\ c.ref = 0 /\ c.kind = KindNow /\ c.e = e
    BY <1>a, <2>3, <2>4 DEF CreateCall
  <2>6. Ask(r, c)
    BY <2>1, <2>2, <2>4
  <2>7. ReadNow(c)
    BY <2>1, <2>3, <2>5 DEF ReadNow
  <2> QED BY <2>5, <2>6, <2>7 DEF AskedFor, Undrawn, Calls
<1>2. CASE AskOpenAccount(r)
  <2>1. PICK a \in Accounts, l \in Catalogue :
          /\ IsOpen(db, Today)
          /\ db.acct[a].status = "absent"
          /\ l[OBE] # 0
          /\ Ask(r, [op |-> "create", ref |-> 0, kind |-> KindNow, opens |-> {a},
                     e |-> [day |-> Today, src |-> "opening_balance", status |-> "posted",
                            lines |-> [b \in Accounts |-> IF b = OBE THEN l[OBE]
                                                          ELSE IF b = a THEN -l[OBE] ELSE 0],
                            of |-> 0, own |-> FALSE, ref |-> 0]])
    BY <1>2 DEF AskOpenAccount, KindNow
  <2>2. l[OBE] \in Int /\ OBE \in Accounts
    BY GeneralLedgerAssumption
  <2>3. PICK lines : lines = [b \in Accounts |-> IF b = OBE THEN l[OBE]
                                                 ELSE IF b = a THEN -l[OBE] ELSE 0]
    OBVIOUS
  <2>4. lines \in [Accounts -> Int]
    BY <2>2, <2>3
  <2>5. PICK e : e = [day |-> Today, src |-> "opening_balance", status |-> "posted",
                      lines |-> lines, of |-> 0, own |-> FALSE, ref |-> 0]
    OBVIOUS
  <2>6. e \in Entry /\ e.of = 0 /\ e.status = "posted" /\ e.lines = lines /\ e.day = Today
    BY <2>4, <2>5, TodayIsADay DEF Entry, Texts
  <2>7. PICK c : c = [op |-> "create", ref |-> 0, kind |-> KindNow, opens |-> {a}, e |-> e]
    OBVIOUS
  <2>8. c \in CreateCall /\ c.op = "create" /\ c.ref = 0 /\ c.kind = KindNow /\ c.e = e
    BY <1>a, <2>6, <2>7 DEF CreateCall
  <2>9. Ask(r, c)
    BY <2>1, <2>3, <2>5, <2>7
  <2>10. Balanced(lines)
    <3>1. a # OBE
      BY <2>1, GeneralLedgerAssumption DEF TypeOK
    <3>2. /\ lines[OBE] = l[OBE] /\ lines[a] = -l[OBE]
          /\ \A b \in Accounts \ {a, OBE} : lines[b] = 0
      BY <2>2, <2>3, <3>1
    <3> QED BY <2>2, <2>4, <3>1, <3>2, TwoLines
  <2>11. ReadNow(c)
    BY <2>1, <2>6, <2>8, <2>10 DEF ReadNow, CanPost
  <2> QED BY <2>8, <2>9, <2>11 DEF AskedFor, Undrawn, Calls
<1>3. CASE AskOpenEmpty(r)
  <2>1. PICK a \in Accounts : Ask(r, [op |-> "open", a |-> a])
    BY <1>3 DEF AskOpenEmpty
  <2>2. PICK c : c = [op |-> "open", a |-> a]
    OBVIOUS
  <2>3. c \in NamedCall /\ c.op = "open"
    BY <2>2 DEF NamedCall
  <2> QED BY <2>1, <2>2, <2>3 DEF AskedFor, ReadNow, Undrawn, Calls
<1>4. CASE AskPost(r)
  <2>1. PICK n \in DOMAIN db.entries :
          /\ db.entries[n].status = "draft"
          /\ CanPost(db, db.entries[n].lines, db.entries[n].day)
          /\ Ask(r, [op |-> "post", n |-> n,
                     e |-> [db.entries[n] EXCEPT !.src = "journal_entry"], kind |-> KindNow])
    BY <1>4 DEF AskPost, MayPost, KindNow
  <2>2. PICK e : e = [db.entries[n] EXCEPT !.src = "journal_entry"]
    OBVIOUS
  <2>3. e \in Entry /\ e.lines = db.entries[n].lines /\ e.day = db.entries[n].day
    <3>1. "journal_entry" \in Texts
      BY DEF Texts
    <3>2. db.entries[n] \in Entry
      BY <1>a
    <3> QED BY <2>2, <3>1, <3>2, EntryWithSource
  <2>4. PICK c : c = [op |-> "post", n |-> n, e |-> e, kind |-> KindNow]
    OBVIOUS
  <2>5. c \in PostCall /\ c.op = "post" /\ c.n = n /\ c.kind = KindNow /\ c.e = e
    BY <1>a, <2>3, <2>4 DEF PostCall
  <2>6. ReadNow(c)
    BY <2>1, <2>2, <2>3, <2>5 DEF ReadNow
  <2> QED BY <2>1, <2>2, <2>4, <2>5, <2>6 DEF AskedFor, Undrawn, Calls
<1>5. CASE AskVoid(r)
  <2>1. PICK n \in DOMAIN db.entries :
          /\ db.entries[n].status # "void"
          /\ db.entries[n].status = "posted" => IsOpen(db, Today)
          /\ Ask(r, [op |-> IF db.entries[n].status = "posted" THEN "reverse" ELSE "discard",
                     n |-> n, e |-> db.entries[n], ref |-> 0, kind |-> KindNow])
    BY <1>5 DEF AskVoid, MayVoid, KindNow
  <2>2. PICK op : op = IF db.entries[n].status = "posted" THEN "reverse" ELSE "discard"
    OBVIOUS
  <2>3. PICK c : c = [op |-> op, n |-> n, e |-> db.entries[n], ref |-> 0, kind |-> KindNow]
    OBVIOUS
  <2>4. c \in VoidCall /\ c.op = op /\ c.n = n /\ c.kind = KindNow /\ c.e = db.entries[n] /\ c.ref = 0
    BY <1>a, <2>2, <2>3 DEF VoidCall
  <2>5. db.entries[n].status \in {"draft", "posted", "void"}
    BY <1>a, EntryFields
  <2>6. ReadNow(c)
    BY <2>1, <2>2, <2>4, <2>5 DEF ReadNow
  <2>7. Ask(r, c)
    BY <2>1, <2>2, <2>3
  <2> QED BY <2>2, <2>4, <2>6, <2>7 DEF AskedFor, Undrawn, Calls
<1>6. CASE AskClose(r)
  <2>1. PICK d \in Nat : Ask(r, [op |-> "close", lock |-> d])
    BY <1>6, GeneralLedgerAssumption DEF AskClose
  <2>2. PICK c : c = [op |-> "close", lock |-> d]
    OBVIOUS
  <2>3. c \in CloseCall /\ c.op = "close"
    BY <2>2 DEF CloseCall
  <2> QED BY <2>1, <2>2, <2>3 DEF AskedFor, ReadNow, Undrawn, Calls
<1>7. CASE AskAccount(r)
  <2>1. PICK a \in Accounts :
          \/ Ask(r, [op |-> "toggle", a |-> a, row |-> db.acct[a]])
          \/ \E k \in KindsTried, status \in {"active", "inactive"} :
               Ask(r, [op |-> "update", a |-> a, kind |-> k, status |-> status])
          \/ a \notin System /\ Ask(r, [op |-> "remove", a |-> a])
    BY <1>7 DEF AskAccount
  <2>2. CASE Ask(r, [op |-> "toggle", a |-> a, row |-> db.acct[a]])
    <3>1. PICK c : c = [op |-> "toggle", a |-> a, row |-> db.acct[a]]
      OBVIOUS
    <3>2. c \in ToggleCall /\ c.op = "toggle" /\ c.a = a /\ c.row = db.acct[a]
      BY <1>a, <3>1 DEF ToggleCall
    <3> QED BY <2>2, <3>1, <3>2 DEF AskedFor, ReadNow, Undrawn, Calls
  <2>3. ASSUME NEW k \in KindsTried, NEW status \in {"active", "inactive"},
               Ask(r, [op |-> "update", a |-> a, kind |-> k, status |-> status])
        PROVE  \E c : AskedFor(r, c)
    <3>1. PICK c : c = [op |-> "update", a |-> a, kind |-> k, status |-> status]
      OBVIOUS
    <3>2. c \in UpdateCall /\ c.op = "update"
      BY <3>1, GeneralLedgerAssumption DEF UpdateCall
    <3> QED BY <2>3, <3>1, <3>2 DEF AskedFor, ReadNow, Undrawn, Calls
  <2>4. CASE a \notin System /\ Ask(r, [op |-> "remove", a |-> a])
    <3>1. PICK c : c = [op |-> "remove", a |-> a]
      OBVIOUS
    <3>2. c \in NamedCall /\ c.op = "remove"
      BY <2>4, <3>1 DEF NamedCall
    <3> QED BY <2>4, <3>1, <3>2 DEF AskedFor, ReadNow, Undrawn, Calls
  <2> QED BY <2>1, <2>2, <2>3, <2>4
<1>8. CASE AskReconcile(r)
  <2>a. PICK a \in Accounts, day \in Days : \E S \in SUBSET {row \in db.rows : row.acct = a} :
          /\ MayReconcile(db, a, S, day)
          /\ Ask(r, [op |-> "reconcile", a |-> a, S |-> S, day |-> day,
                     from |-> Beginning(db, a)])
    BY <1>8 DEF AskReconcile, Cash
  <2>1. PICK S \in SUBSET {row \in db.rows : row.acct = a} :
          /\ MayReconcile(db, a, S, day)
          /\ Ask(r, [op |-> "reconcile", a |-> a, S |-> S, day |-> day,
                     from |-> Beginning(db, a)])
    BY <2>a
  <2>2. S \subseteq LedgerRow /\ IsFiniteSet(S)
    BY <1>a, FS_Subset
  <2>3. Cleared(db, a) \subseteq LedgerRow /\ IsFiniteSet(Cleared(db, a))
    <3>1. Cleared(db, a) \in SUBSET db.rows
      BY DEF Cleared
    <3> QED BY <1>a, <3>1, FS_Subset
  <2>4. Beginning(db, a) \in Int
    BY <2>3, AmountsInt DEF Beginning
  <2>5. PICK from : from = Beginning(db, a)
    OBVIOUS
  <2>6. PICK c : c = [op |-> "reconcile", a |-> a, S |-> S, day |-> day, from |-> from]
    OBVIOUS
  <2>7. /\ c \in ReconcileCall /\ c.op = "reconcile" /\ c.a = a /\ c.S = S /\ c.day = day
        /\ c.from = Beginning(db, a)
    BY <2>2, <2>4, <2>5, <2>6 DEF ReconcileCall
  <2>8. Ask(r, c)
    BY <2>1, <2>5, <2>6
  <2>9. ReadNow(c)
    BY <2>1, <2>7 DEF ReadNow
  <2> QED BY <2>2, <2>7, <2>8, <2>9 DEF AskedFor, Undrawn, Calls
<1>9. CASE AskUndo(r)
  <2>1. PICK rec \in db.recs : IsLast(db, rec) /\ Ask(r, [op |-> "undo", id |-> rec.id])
    BY <1>9 DEF AskUndo, MayUndo
  <2>2. PICK c : c = [op |-> "undo", id |-> rec.id]
    OBVIOUS
  <2>3. c \in UndoCall /\ c.op = "undo" /\ c.id = rec.id
    BY <1>a, <2>2 DEF UndoCall, Rec
  <2> QED BY <2>1, <2>2, <2>3 DEF AskedFor, ReadNow, Undrawn, Calls
<1> QED
  BY <1>1, <1>2, <1>3, <1>4, <1>5, <1>6, <1>7, <1>8, <1>9 DEF AskStep

-----------------------------------------------------------------------------
(* What posting writes: one row for each account with an amount, numbered   *)
(* in the order of the accounts after all rows there are.                   *)

Rank(T, a) == Cardinality({b \in T : b < a})
NewRow(d, n, e, kind, a) ==
  [id |-> Cardinality(d.rows) + 1 + Rank(Touched(e.lines), a), ref |-> e.ref, entry |-> n,
   day |-> e.day, src |-> e.src, acct |-> a, amt |-> e.lines[a], own |-> e.own, rec |-> 0,
   run |-> Running(d.acct[a].balance, Signed(kind[a], e.lines[a]))]
NewRows(d, n, e, kind) == {NewRow(d, n, e, kind, a) : a \in Touched(e.lines)}

LEMMA RowsAre ==
  ASSUME NEW d, NEW n, NEW e, NEW kind
  PROVE  RowsOf(d, n, e, kind, e.ref) = NewRows(d, n, e, kind)
  BY DEF RowsOf, NewRows, NewRow, Rank

LEMMA TouchedFinite ==
  ASSUME NEW lines
  PROVE  Touched(lines) \subseteq Nat /\ Touched(lines) \subseteq Accounts /\ IsFiniteSet(Touched(lines))
<1>1. Touched(lines) \in SUBSET Accounts
  BY DEF Touched
<1> QED BY <1>1, GeneralLedgerAssumption, FS_Subset

LEMMA RankOrders ==
  ASSUME NEW T \in SUBSET Nat, IsFiniteSet(T)
  PROVE  /\ \A a \in T : Rank(T, a) \in Nat /\ Rank(T, a) < Cardinality(T)
         /\ \A a, b \in T : a < b => Rank(T, a) < Rank(T, b)
<1> DEFINE Below(a) == {b \in T : b < a}
<1>1. \A a \in T : /\ Below(a) \in SUBSET T /\ IsFiniteSet(Below(a))
                   /\ Cardinality(Below(a)) \in Nat /\ Rank(T, a) = Cardinality(Below(a))
  BY FS_Subset, FS_CardinalityType DEF Rank
<1>2. Cardinality(T) \in Nat
  BY FS_CardinalityType
<1>3. \A a \in T : Cardinality(Below(a)) < Cardinality(T)
  <2> TAKE a \in T
  <2>1. a \notin Below(a)
    OBVIOUS
  <2>2. Cardinality(Below(a)) <= Cardinality(T) /\ (Cardinality(T) = Cardinality(Below(a)) => T = Below(a))
    BY <1>1, FS_Subset
  <2>3. Cardinality(Below(a)) \in Nat
    BY <1>1
  <2> HIDE DEF Below
  <2> QED BY <1>2, <2>1, <2>2, <2>3
<1>4. ASSUME NEW a \in T, NEW b \in T, a < b
      PROVE  Cardinality(Below(a)) < Cardinality(Below(b))
  <2>1. Below(a) \in SUBSET Below(b) /\ a \in Below(b) /\ a \notin Below(a)
    <3>1. \A x \in T : x \in Nat
      OBVIOUS
    <3>2. \A x \in Below(a) : x \in Below(b)
      BY <1>4, <3>1
    <3>3. a \in Below(b) /\ a \notin Below(a)
      BY <1>4, <3>1
    <3> HIDE DEF Below
    <3> QED BY <3>2, <3>3
  <2>2. IsFiniteSet(Below(b)) /\ Cardinality(Below(a)) \in Nat /\ Cardinality(Below(b)) \in Nat
    BY <1>1
  <2> HIDE DEF Below
  <2>3. Cardinality(Below(a)) <= Cardinality(Below(b))
        /\ (Cardinality(Below(b)) = Cardinality(Below(a)) => Below(b) = Below(a))
    BY <2>1, <2>2, FS_Subset
  <2> QED BY <2>1, <2>2, <2>3
<1> HIDE DEF Below
<1> QED BY <1>1, <1>3, <1>4

LEMMA NewRowFields ==
  ASSUME NEW d \in Database, IsFiniteSet(d.rows), NEW n \in Nat, NEW e \in Entry,
         NEW kind \in KindMap, NEW a \in Touched(e.lines)
  PROVE  LET row == NewRow(d, n, e, kind, a)
         IN /\ row \in LedgerRow
            /\ row.id = Cardinality(d.rows) + 1 + Rank(Touched(e.lines), a)
            /\ row.entry = n /\ row.day = e.day /\ row.acct = a /\ row.amt = e.lines[a]
            /\ row.ref = e.ref /\ row.rec = 0
            /\ row.run = d.acct[a].balance + Signed(kind[a], e.lines[a])
<1>1. a \in Accounts /\ e.lines[a] \in Int
  BY TouchedFinite, EntryFields
<1>2. d.acct[a].balance \in Int
  BY <1>1, DbFields, AccountFields
<1>3. Signed(kind[a], e.lines[a]) \in Int
  BY <1>1, SignedInt
<1>4. Rank(Touched(e.lines), a) \in Nat /\ Cardinality(d.rows) \in Nat
  BY TouchedFinite, RankOrders, FS_CardinalityType
<1>5. PICK run : run = Running(d.acct[a].balance, Signed(kind[a], e.lines[a]))
  OBVIOUS
<1>6. run = d.acct[a].balance + Signed(kind[a], e.lines[a]) /\ run \in Int
  BY <1>2, <1>3, <1>5 DEF Running
<1>7. PICK id : id = Cardinality(d.rows) + 1 + Rank(Touched(e.lines), a)
  OBVIOUS
<1>8. id \in Nat
  BY <1>4, <1>7
<1>9. PICK row : row = [id |-> id, ref |-> e.ref, entry |-> n, day |-> e.day, src |-> e.src,
                        acct |-> a, amt |-> e.lines[a], own |-> e.own, rec |-> 0, run |-> run]
  OBVIOUS
<1>10. NewRow(d, n, e, kind, a) = row
  BY <1>5, <1>7, <1>9 DEF NewRow
<1>11. e.ref \in Nat /\ e.day \in Days /\ e.src \in Texts /\ e.own \in BOOLEAN
  BY EntryFields
<1>12. row \in LedgerRow
  BY <1>1, <1>6, <1>8, <1>9, <1>11 DEF LedgerRow
<1> QED BY <1>6, <1>7, <1>9, <1>10, <1>12

LEMMA NewRowsFinite ==
  ASSUME NEW d, NEW n, NEW e, NEW kind
  PROVE  IsFiniteSet(NewRows(d, n, e, kind))
<1> DEFINE F == [a \in Touched(e.lines) |-> NewRow(d, n, e, kind, a)]
<1>1. NewRows(d, n, e, kind) = {F[a] : a \in Touched(e.lines)}
  BY DEF NewRows
<1> HIDE DEF F
<1> QED BY <1>1, TouchedFinite, ImageFinite

(* applyPosting, field by field.                                            *)
PostedBalance(d, e, kind, a) ==
  IF a \in Touched(e.lines) THEN d.acct[a].balance + Signed(kind[a], e.lines[a])
  ELSE d.acct[a].balance
LEMMA PostedIs ==
  ASSUME NEW d \in Database, IsFiniteSet(d.rows), NEW n \in Nat, NEW e \in Entry,
         NEW kind \in KindMap
  PROVE  LET p == Posted(d, n, e, kind)
         IN /\ p \in Database /\ IsFiniteSet(p.rows)
            /\ p.entries = d.entries /\ p.lock = d.lock /\ p.recs = d.recs
            /\ p.rows = d.rows \cup NewRows(d, n, e, kind)
            /\ \A a \in Accounts : /\ p.acct[a].status = d.acct[a].status
                                   /\ p.acct[a].kind = d.acct[a].kind
                                   /\ p.acct[a].balance = PostedBalance(d, e, kind, a)
<1> DEFINE acct == [a \in Accounts |->
                      IF a \in Touched(e.lines)
                        THEN Raised(d.acct[a], Signed(kind[a], e.lines[a]))
                      ELSE d.acct[a]]
           rows == d.rows \cup NewRows(d, n, e, kind)
<1>1. \A a \in Accounts : /\ acct[a] \in Account
                          /\ acct[a].status = d.acct[a].status
                          /\ acct[a].kind = d.acct[a].kind
                          /\ acct[a].balance = PostedBalance(d, e, kind, a)
  <2> TAKE a \in Accounts
  <2>1. d.acct[a] \in Account /\ d.acct[a].balance \in Int
    BY DbFields, AccountFields
  <2>2. CASE a \notin Touched(e.lines)
    BY <2>1, <2>2 DEF PostedBalance
  <2>3. CASE a \in Touched(e.lines)
    <3>1. Signed(kind[a], e.lines[a]) \in Int
      BY EntryFields, SignedInt
    <3>2. PICK b \in Int : b = d.acct[a].balance + Signed(kind[a], e.lines[a])
      BY <2>1, <3>1
    <3>3. acct[a] = [d.acct[a] EXCEPT !.balance = b]
      BY <2>3, <3>2 DEF Raised
    <3> HIDE DEF acct
    <3> QED BY <2>1, <2>3, <3>2, <3>3, AccountWithBalance DEF PostedBalance
  <2> QED BY <2>2, <2>3
<1>2. acct \in [Accounts -> Account]
  BY <1>1
<1>3. rows \subseteq LedgerRow
  BY NewRowFields, DbFields DEF NewRows
<1>4. IsFiniteSet(rows)
  BY NewRowsFinite, FS_Union
<1>5. Posted(d, n, e, kind) = [d EXCEPT !.rows = rows, !.acct = acct]
  <2>1. Posted(d, n, e, kind) = [d EXCEPT !.rows = d.rows \cup RowsOf(d, n, e, kind, e.ref),
                                          !.acct = acct]
    BY Zenon DEF Posted
  <2>2. d.rows \cup RowsOf(d, n, e, kind, e.ref) = rows
    BY RowsAre
  <2> HIDE DEF rows, acct
  <2> QED BY <2>1, <2>2, Zenon
<1> HIDE DEF rows, acct
<1>6. /\ [d EXCEPT !.rows = rows, !.acct = acct] \in Database
      /\ [d EXCEPT !.rows = rows, !.acct = acct].rows = rows
      /\ [d EXCEPT !.rows = rows, !.acct = acct].acct = acct
      /\ [d EXCEPT !.rows = rows, !.acct = acct].entries = d.entries
      /\ [d EXCEPT !.rows = rows, !.acct = acct].lock = d.lock
      /\ [d EXCEPT !.rows = rows, !.acct = acct].recs = d.recs
  BY <1>2, <1>3 DEF Database
<1>7. rows = d.rows \cup NewRows(d, n, e, kind)
  BY DEF rows
<1> QED BY <1>1, <1>4, <1>5, <1>6, <1>7

-----------------------------------------------------------------------------
(* One field of the database replaced.                                      *)

LEMMA DbWithEntries ==
  ASSUME NEW d \in Database, NEW x \in Seq(Entry), NEW y, y = [d EXCEPT !.entries = x]
  PROVE  /\ y \in Database /\ y.entries = x /\ y.rows = d.rows /\ y.lock = d.lock
         /\ y.recs = d.recs /\ y.acct = d.acct
  BY DEF Database

LEMMA DbWithAccounts ==
  ASSUME NEW d \in Database, NEW x \in [Accounts -> Account], NEW y, y = [d EXCEPT !.acct = x]
  PROVE  /\ y \in Database /\ y.entries = d.entries /\ y.rows = d.rows /\ y.lock = d.lock
         /\ y.recs = d.recs /\ y.acct = x
  BY DEF Database

LEMMA DbWithLock ==
  ASSUME NEW d \in Database, NEW x \in Nat, NEW y, y = [d EXCEPT !.lock = x]
  PROVE  /\ y \in Database /\ y.entries = d.entries /\ y.rows = d.rows /\ y.lock = x
         /\ y.recs = d.recs /\ y.acct = d.acct
  BY DEF Database

LEMMA EntriesAppended ==
  ASSUME NEW s \in Seq(Entry), NEW e \in Entry
  PROVE  /\ Append(s, e) \in Seq(Entry) /\ Len(Append(s, e)) = Len(s) + 1 /\ Len(s) \in Nat
         /\ Append(s, e)[Len(s) + 1] = e
         /\ \A n \in 1 .. Len(s) : Append(s, e)[n] = s[n]
  OBVIOUS

LEMMA EntriesReplaced ==
  ASSUME NEW s \in Seq(Entry), NEW e \in Entry, NEW n
  PROVE  /\ [s EXCEPT ![n] = e] \in Seq(Entry) /\ Len([s EXCEPT ![n] = e]) = Len(s)
         /\ \A m \in 1 .. Len(s) : [s EXCEPT ![n] = e][m] = IF m = n THEN e ELSE s[m]
<1> DEFINE t == [s EXCEPT ![n] = e]
<1>1. s \in [1 .. Len(s) -> Entry] /\ Len(s) \in Nat
  OBVIOUS
<1>2. \A m \in 1 .. Len(s) : t[m] = IF m = n THEN e ELSE s[m]
  BY <1>1
<1>3. t \in [1 .. Len(s) -> Entry]
  BY <1>1
<1>4. t \in Seq(Entry) /\ Len(t) = Len(s)
  <2> HIDE DEF t
  <2>1. t \in Seq(Entry)
    BY <1>1, <1>3
  <2> QED BY <1>1, <1>3, <2>1
<1> QED BY <1>2, <1>4

-----------------------------------------------------------------------------
(* What each step does to the database, field by field.                     *)

Unposted ==
  /\ db'.rows = db.rows
  /\ \A a \in Accounts : db'.acct[a].kind = db.acct[a].kind
                         /\ db'.acct[a].balance = db.acct[a].balance
Posts(n, e, kind) ==
  /\ db'.rows = db.rows \cup NewRows(db, n, e, kind)
  /\ \A a \in Accounts : db'.acct[a].kind = db.acct[a].kind
                         /\ db'.acct[a].balance = PostedBalance(db, e, kind, a)
Sound == db' \in Database /\ IsFiniteSet(db'.rows) /\ IsFiniteSet(db'.recs)
         /\ \A a \in System : db'.acct[a].status # "absent"
Aside == db'.lock = db.lock /\ db'.recs = db.recs

(* Posting reads no more of the database than rows and balances.            *)
LEMMA NewRowsSame ==
  ASSUME NEW d, NEW c, NEW n, NEW e, NEW kind, d.rows = c.rows,
         \A a \in Accounts : d.acct[a].balance = c.acct[a].balance
  PROVE  /\ NewRows(d, n, e, kind) = NewRows(c, n, e, kind)
         /\ \A a \in Accounts : PostedBalance(d, e, kind, a) = PostedBalance(c, e, kind, a)
<1>1. \A a \in Touched(e.lines) : NewRow(d, n, e, kind, a) = NewRow(c, n, e, kind, a)
  BY TouchedFinite DEF NewRow
<1> QED BY <1>1 DEF NewRows, PostedBalance

LEMMA PostDone ==
  ASSUME TypeOK, NEW d \in Database, d.rows = db.rows, d.lock = db.lock, d.recs = db.recs,
         \A a \in Accounts : /\ d.acct[a].kind = db.acct[a].kind
                             /\ d.acct[a].balance = db.acct[a].balance
                             /\ db.acct[a].status # "absent" => d.acct[a].status # "absent",
         NEW n \in Nat, NEW e \in Entry, NEW kind \in KindMap, db' = Posted(d, n, e, kind)
  PROVE  Sound /\ Aside /\ Posts(n, e, kind) /\ db'.entries = d.entries
<1>1. IsFiniteSet(d.rows) /\ IsFiniteSet(d.recs)
  BY DEF TypeOK
<1>2. /\ db' \in Database /\ IsFiniteSet(db'.rows)
      /\ db'.entries = d.entries /\ db'.lock = d.lock /\ db'.recs = d.recs
      /\ db'.rows = d.rows \cup NewRows(d, n, e, kind)
      /\ \A a \in Accounts : /\ db'.acct[a].status = d.acct[a].status
                             /\ db'.acct[a].kind = d.acct[a].kind
                             /\ db'.acct[a].balance = PostedBalance(d, e, kind, a)
  BY <1>1, PostedIs
<1>3. /\ NewRows(d, n, e, kind) = NewRows(db, n, e, kind)
      /\ \A a \in Accounts : PostedBalance(d, e, kind, a) = PostedBalance(db, e, kind, a)
  <2>1. d.rows = db.rows /\ \A a \in Accounts : d.acct[a].balance = db.acct[a].balance
    OBVIOUS
  <2> QED BY ONLY <2>1, NewRowsSame
<1>4. \A a \in System : a \in Accounts /\ db.acct[a].status # "absent"
  BY GeneralLedgerAssumption DEF TypeOK
<1>5. Posts(n, e, kind)
  BY <1>2, <1>3 DEF Posts
<1> QED BY <1>1, <1>2, <1>4, <1>5 DEF Sound, Aside

CreateDone(r) ==
  LET c == req[r]
      e == [c.e EXCEPT !.ref = c.ref]
  IN /\ c \in CreateCall /\ c.ref # 0 /\ e \in Entry
     /\ db'.entries = Append(db.entries, e)
     /\ IF e.status = "posted" THEN Posts(Len(db.entries) + 1, e, c.kind) ELSE Unposted
LEMMA CreateDoes ==
  ASSUME TypeOK, NEW r \in Requests, Create(r)
  PROVE  Sound /\ Aside /\ CreateDone(r)
<1> DEFINE c == req[r]
           e == [c.e EXCEPT !.ref = c.ref]
           acct == [a \in Accounts |-> IF a \in c.opens THEN [db.acct[a] EXCEPT !.status = "active"]
                                       ELSE db.acct[a]]
           d == [db EXCEPT !.acct = acct]
           with == [d EXCEPT !.entries = Append(@, e)]
<1>1. c \in CreateCall /\ c.ref # 0
  BY CallShapes DEF TypeOK, Create, Serving
<1>2. db' = Entered(d, e, c.kind)
  BY DEF Create, Commit
<1>3. c.e \in Entry /\ c.ref \in Nat /\ c.kind \in KindMap
  BY <1>1 DEF CreateCall
<1>4. e \in Entry
  BY <1>3, EntryWithRef
<1>5. db \in Database /\ db.entries \in Seq(Entry) /\ Len(db.entries) \in Nat /\ db.acct \in [Accounts -> Account]
  BY DbFields DEF TypeOK
<1>6. \A a \in Accounts : /\ acct[a] \in Account
                          /\ acct[a].kind = db.acct[a].kind
                          /\ acct[a].balance = db.acct[a].balance
                          /\ db.acct[a].status # "absent" => acct[a].status # "absent"
  <2> TAKE a \in Accounts
  <2>1. db.acct[a] \in Account
    BY <1>5
  <2>2. CASE a \in c.opens
    <3>1. acct[a] = [db.acct[a] EXCEPT !.status = "active"]
      BY <2>2
    <3> HIDE DEF acct
    <3> QED BY <2>1, <3>1, AccountWithStatus
  <2>3. CASE a \notin c.opens
    BY <2>1, <2>3
  <2> QED BY <2>2, <2>3
<1>7. acct \in [Accounts -> Account]
  BY <1>6
<1> HIDE DEF acct, e, c
<1>8. /\ d \in Database /\ d.entries = db.entries /\ d.rows = db.rows /\ d.lock = db.lock
      /\ d.recs = db.recs /\ d.acct = acct
  BY <1>5, <1>7, DbWithAccounts
<1> HIDE DEF d
<1>9. Append(d.entries, e) \in Seq(Entry) /\ Len(Append(d.entries, e)) = Len(db.entries) + 1
  BY <1>4, <1>5, <1>8, EntriesAppended
<1>10. with = [d EXCEPT !.entries = Append(d.entries, e)]
  OBVIOUS
<1> HIDE DEF with
<1>11. /\ with \in Database /\ with.entries = Append(db.entries, e) /\ with.rows = db.rows
       /\ with.lock = db.lock /\ with.recs = db.recs /\ with.acct = acct
  <2>1. PICK s \in Seq(Entry) : s = Append(d.entries, e)
    BY <1>9
  <2>2. s = Append(db.entries, e)
    BY <1>8, <2>1
  <2>3. with = [d EXCEPT !.entries = s]
    BY <1>10, <2>1
  <2> DEFINE y == [d EXCEPT !.entries = s]
  <2>4. /\ y \in Database /\ y.entries = s /\ y.rows = d.rows /\ y.lock = d.lock
        /\ y.recs = d.recs /\ y.acct = d.acct
    <3>1. s \in Seq(Entry) /\ d \in Database
      BY <1>8, <2>1
    <3> QED BY <3>1, DbWithEntries
  <2> QED BY <1>8, <2>2, <2>3, <2>4
<1>12. db' = IF e.status = "posted" THEN Posted(with, Len(with.entries), e, c.kind) ELSE with
  BY <1>2, Zenon DEF Entered, with
<1>13. CASE e.status = "posted"
  <2>1. Len(with.entries) = Len(db.entries) + 1
    BY <1>8, <1>9, <1>11
  <2>2. db' = Posted(with, Len(db.entries) + 1, e, c.kind)
    BY <1>12, <1>13, <2>1
  <2>3. Len(db.entries) + 1 \in Nat
    BY <1>5
  <2>4. Sound /\ Aside /\ Posts(Len(db.entries) + 1, e, c.kind) /\ db'.entries = with.entries
    BY <1>3, <1>4, <1>6, <1>11, <2>2, <2>3, PostDone
  <2> QED BY <1>1, <1>4, <1>11, <1>13, <2>4 DEF CreateDone, c, e
<1>14. CASE e.status # "posted"
  <2>1. db' = with
    BY <1>12, <1>14
  <2>2. Unposted
    BY <1>6, <1>11, <2>1 DEF Unposted
  <2>3. Sound /\ Aside
    BY <1>6, <1>11, <2>1, GeneralLedgerAssumption DEF Sound, Aside, TypeOK
  <2> QED BY <1>1, <1>4, <1>11, <1>14, <2>1, <2>2, <2>3 DEF CreateDone, c, e
<1> QED BY <1>13, <1>14

PostEffect(r) ==
  LET c == req[r]
      e == [c.e EXCEPT !.status = "posted"]
  IN /\ c \in PostCall /\ e \in Entry
     /\ db'.entries = [db.entries EXCEPT ![c.n] = e]
     /\ Posts(c.n, e, c.kind)
LEMMA PostDoes ==
  ASSUME TypeOK, NEW r \in Requests, Post(r)
  PROVE  Sound /\ Aside /\ PostEffect(r)
<1> DEFINE c == req[r]
           e == [c.e EXCEPT !.status = "posted"]
           s == [db.entries EXCEPT ![c.n] = e]
           d == [db EXCEPT !.entries = s]
<1>1. c \in PostCall
  BY CallShapes DEF TypeOK, Post, Serving
<1>2. db' = Posted([db EXCEPT !.entries[c.n] = e], c.n, e, c.kind)
  BY DEF Post, Commit
<1>3. c.e \in Entry /\ c.n \in Nat /\ c.kind \in KindMap
  BY <1>1 DEF PostCall
<1>4. e \in Entry
  BY <1>3, EntryWithStatus
<1>5. db \in Database /\ db.entries \in Seq(Entry)
  BY DbFields DEF TypeOK
<1>6. [db EXCEPT !.entries[c.n] = e] = d
  BY <1>5 DEF Database
<1> HIDE DEF e, c
<1>7. s \in Seq(Entry)
  BY <1>4, <1>5, EntriesReplaced
<1> HIDE DEF s
<1>8. /\ d \in Database /\ d.entries = s /\ d.rows = db.rows /\ d.lock = db.lock
      /\ d.recs = db.recs /\ d.acct = db.acct
  BY <1>5, <1>7, DbWithEntries
<1>9. db' = Posted(d, c.n, e, c.kind)
  BY <1>2, <1>6
<1> HIDE DEF d
<1>10. Sound /\ Aside /\ Posts(c.n, e, c.kind) /\ db'.entries = s
  BY <1>3, <1>4, <1>8, <1>9, PostDone
<1> QED BY <1>1, <1>4, <1>10 DEF PostEffect, c, e, s

ReverseEffect(r) ==
  LET c == req[r]
      e == Reversal(c.e, c.n, c.ref)
      void == [c.e EXCEPT !.status = "void"]
  IN /\ c \in VoidCall /\ c.op = "reverse" /\ c.ref # 0 /\ e \in Entry /\ void \in Entry
     /\ db'.entries = [Append(db.entries, e) EXCEPT ![c.n] = void]
     /\ Posts(Len(db.entries) + 1, e, c.kind)
LEMMA ReversalIs ==
  ASSUME NEW e \in Entry, NEW n \in Nat, NEW ref \in Nat
  PROVE  LET x == Reversal(e, n, ref)
         IN /\ x \in Entry /\ x.day = Today /\ x.status = "posted" /\ x.of = n /\ x.ref = ref
            /\ \A a \in Accounts : x.lines[a] = -e.lines[a]
<1>1. PICK lines : lines = [a \in Accounts |-> -e.lines[a]]
  OBVIOUS
<1>2. lines \in [Accounts -> Int] /\ \A a \in Accounts : lines[a] = -e.lines[a]
  BY <1>1, EntryFields
<1>3. PICK x : x = [day |-> Today, src |-> "journal_entry", lines |-> lines, status |-> "posted",
                    of |-> n, own |-> TRUE, ref |-> ref]
  OBVIOUS
<1>4. Reversal(e, n, ref) = x
  BY <1>1, <1>3 DEF Reversal
<1>5. x \in Entry /\ x.day = Today /\ x.status = "posted" /\ x.of = n /\ x.ref = ref /\ x.lines = lines
  BY <1>2, <1>3, TodayIsADay DEF Entry, Texts
<1> QED BY <1>2, <1>4, <1>5
LEMMA ReverseDoes ==
  ASSUME TypeOK, NEW r \in Requests, Reverse(r)
  PROVE  Sound /\ Aside /\ ReverseEffect(r)
<1> DEFINE c == req[r]
           e == Reversal(c.e, c.n, c.ref)
           void == [c.e EXCEPT !.status = "void"]
           with == [db EXCEPT !.entries = Append(db.entries, e)]
           p == Posted(with, Len(with.entries), e, c.kind)
           s == [p.entries EXCEPT ![c.n] = void]
<1>1. c \in VoidCall /\ c.op = "reverse" /\ c.ref # 0
  BY CallShapes DEF TypeOK, Reverse, Serving
<1>2. db' = [Entered(db, e, c.kind) EXCEPT !.entries[c.n] = void]
  BY DEF Reverse, Commit
<1>3. c.e \in Entry /\ c.n \in Nat /\ c.ref \in Nat /\ c.kind \in KindMap
  BY <1>1 DEF VoidCall
<1>4. void \in Entry /\ e \in Entry /\ e.status = "posted"
  <2>1. void \in Entry
    BY <1>3, EntryWithStatus
  <2>2. e \in Entry /\ e.status = "posted"
    <3> HIDE DEF c
    <3> QED BY <1>3, ReversalIs
  <2> QED BY <2>1, <2>2
<1>5. /\ db \in Database /\ IsFiniteSet(db.rows) /\ IsFiniteSet(db.recs)
      /\ db.entries \in Seq(Entry) /\ Len(db.entries) \in Nat
      /\ \A a \in System : a \in Accounts /\ db.acct[a].status # "absent"
  BY DbFields, GeneralLedgerAssumption DEF TypeOK
<1> HIDE DEF c, e, void
<1>6. Append(db.entries, e) \in Seq(Entry) /\ Len(Append(db.entries, e)) = Len(db.entries) + 1
  BY <1>4, <1>5, EntriesAppended
<1>7. PICK s1 \in Seq(Entry) : s1 = Append(db.entries, e)
  BY <1>6
<1>8. /\ with \in Database /\ with.entries = s1 /\ with.rows = db.rows /\ with.lock = db.lock
      /\ with.recs = db.recs /\ with.acct = db.acct
  <2> DEFINE y == [db EXCEPT !.entries = s1]
  <2>1. /\ y \in Database /\ y.entries = s1 /\ y.rows = db.rows /\ y.lock = db.lock
        /\ y.recs = db.recs /\ y.acct = db.acct
    <3>1. s1 \in Seq(Entry) /\ db \in Database
      BY <1>5, <1>7
    <3> QED BY <3>1, DbWithEntries
  <2>2. with = y
    BY <1>7
  <2> QED BY <2>1, <2>2
<1>9. Entered(db, e, c.kind) = p
  BY <1>4, Zenon DEF Entered
<1> HIDE DEF with
<1>10. Len(with.entries) = Len(db.entries) + 1 /\ Len(db.entries) + 1 \in Nat
  BY <1>5, <1>6, <1>7, <1>8
<1>11. p = Posted(with, Len(db.entries) + 1, e, c.kind)
  BY <1>10
<1> HIDE DEF p
<1>12. /\ p \in Database /\ IsFiniteSet(p.rows)
       /\ p.entries = with.entries /\ p.lock = with.lock /\ p.recs = with.recs
       /\ p.rows = with.rows \cup NewRows(with, Len(db.entries) + 1, e, c.kind)
       /\ \A a \in Accounts : /\ p.acct[a].status = with.acct[a].status
                              /\ p.acct[a].kind = with.acct[a].kind
                              /\ p.acct[a].balance = PostedBalance(with, e, c.kind, a)
  <2>1. /\ with \in Database /\ IsFiniteSet(with.rows) /\ e \in Entry /\ c.kind \in KindMap
        /\ Len(db.entries) + 1 \in Nat
    BY <1>3, <1>4, <1>5, <1>8, <1>10
  <2> QED BY <1>11, <2>1, PostedIs
<1>13. /\ NewRows(with, Len(db.entries) + 1, e, c.kind) = NewRows(db, Len(db.entries) + 1, e, c.kind)
       /\ \A a \in Accounts : PostedBalance(with, e, c.kind, a) = PostedBalance(db, e, c.kind, a)
  BY <1>8, NewRowsSame
<1>14. s \in Seq(Entry)
  BY <1>4, <1>7, <1>8, <1>12, EntriesReplaced
<1>15. db' = [p EXCEPT !.entries = s]
  BY <1>2, <1>9, <1>12 DEF Database
<1>16. /\ db' \in Database /\ db'.entries = s /\ db'.rows = p.rows /\ db'.lock = p.lock
       /\ db'.recs = p.recs /\ db'.acct = p.acct
  <2> HIDE DEF s
  <2> QED BY <1>12, <1>14, <1>15, DbWithEntries
<1>17. Posts(Len(db.entries) + 1, e, c.kind)
  BY <1>8, <1>12, <1>13, <1>16 DEF Posts
<1>18. Sound /\ Aside
  BY <1>5, <1>8, <1>12, <1>16 DEF Sound, Aside
<1>19. db'.entries = [Append(db.entries, e) EXCEPT ![c.n] = void]
  BY <1>7, <1>8, <1>12, <1>16
<1> QED BY <1>1, <1>4, <1>17, <1>18, <1>19 DEF ReverseEffect, c, e, void

DiscardEffect(r) ==
  LET c == req[r]
      e == [c.e EXCEPT !.status = "void"]
  IN /\ c \in VoidCall /\ c.op = "discard" /\ e \in Entry
     /\ db'.entries = [db.entries EXCEPT ![c.n] = e]
     /\ Unposted /\ db'.acct = db.acct
LEMMA DiscardDoes ==
  ASSUME TypeOK, NEW r \in Requests, Discard(r)
  PROVE  Sound /\ Aside /\ DiscardEffect(r)
<1> DEFINE c == req[r]
           e == [c.e EXCEPT !.status = "void"]
           s == [db.entries EXCEPT ![c.n] = e]
<1>1. c \in VoidCall /\ c.op = "discard"
  BY CallShapes DEF TypeOK, Discard, Serving
<1>2. db' = [db EXCEPT !.entries[c.n] = e]
  BY DEF Discard, Commit
<1>3. c.e \in Entry
  BY <1>1 DEF VoidCall
<1>4. e \in Entry
  BY <1>3, EntryWithStatus
<1>5. db \in Database /\ db.entries \in Seq(Entry)
  BY DbFields DEF TypeOK
<1>6. db' = [db EXCEPT !.entries = s]
  BY <1>2, <1>5 DEF Database
<1> HIDE DEF e, c
<1>7. s \in Seq(Entry)
  BY <1>4, <1>5, EntriesReplaced
<1> HIDE DEF s
<1>8. /\ db' \in Database /\ db'.entries = s /\ db'.rows = db.rows /\ db'.lock = db.lock
      /\ db'.recs = db.recs /\ db'.acct = db.acct
  BY <1>5, <1>6, <1>7, DbWithEntries
<1> QED BY <1>1, <1>4, <1>8 DEF DiscardEffect, Sound, Aside, Unposted, TypeOK, c, e, s

Ledgered == db'.entries = db.entries /\ db'.rows = db.rows
(* One account's row is replaced. *)
AccountDone(a, row) ==
  /\ Ledgered /\ a \in Accounts /\ row \in Account /\ db'.acct[a] = row
  /\ \A b \in Accounts \ {a} : db'.acct[b] = db.acct[b]
LEMMA AccountReplaced ==
  ASSUME TypeOK, NEW a \in Accounts, NEW row \in Account, a \in System => row.status # "absent",
         db' = [db EXCEPT !.acct[a] = row]
  PROVE  Sound /\ Aside /\ AccountDone(a, row)
<1> DEFINE x == [db.acct EXCEPT ![a] = row]
<1>1. db \in Database /\ db.acct \in [Accounts -> Account]
  BY DbFields DEF TypeOK
<1>2. db' = [db EXCEPT !.acct = x]
  BY <1>1 DEF Database
<1>3. x \in [Accounts -> Account] /\ x[a] = row /\ \A b \in Accounts \ {a} : x[b] = db.acct[b]
  BY <1>1
<1> HIDE DEF x
<1>4. /\ db' \in Database /\ db'.entries = db.entries /\ db'.rows = db.rows /\ db'.lock = db.lock
      /\ db'.recs = db.recs /\ db'.acct = x
  BY <1>1, <1>2, <1>3, DbWithAccounts
<1>5. \A b \in System : b \in Accounts /\ x[b].status # "absent"
  BY <1>3, GeneralLedgerAssumption DEF TypeOK
<1> QED BY <1>3, <1>4, <1>5 DEF Sound, Aside, AccountDone, Ledgered, TypeOK

StatusDone(r) ==
  \E a \in Accounts : \E row :
    AccountDone(a, row) /\ row.kind = db.acct[a].kind /\ row.balance = db.acct[a].balance
LEMMA OpenDoes ==
  ASSUME TypeOK, NEW r \in Requests, OpenEmpty(r)
  PROVE  Sound /\ Aside /\ StatusDone(r)
<1> DEFINE a == req[r].a
           row == [db.acct[a] EXCEPT !.status = "active"]
<1>1. a \in Accounts
  BY CallShapes DEF TypeOK, OpenEmpty, Serving, NamedCall
<1>2. db.acct[a] \in Account
  BY <1>1, EntriesTyped
<1>3. row \in Account /\ row.status = "active" /\ row.kind = db.acct[a].kind
      /\ row.balance = db.acct[a].balance
  BY <1>2, AccountWithStatus
<1>4. db' = [db EXCEPT !.acct[a] = row]
  BY <1>1, DbFields DEF OpenEmpty, Commit, TypeOK, Database
<1> HIDE DEF row, a
<1> QED BY <1>1, <1>3, <1>4, AccountReplaced DEF StatusDone

LEMMA RemoveDoes ==
  ASSUME TypeOK, NEW r \in Requests, Remove(r)
  PROVE  Sound /\ Aside /\ StatusDone(r)
<1> DEFINE a == req[r].a
           row == [db.acct[a] EXCEPT !.status = "absent"]
<1>1. a \in Accounts /\ a \notin System
  BY CallShapes DEF TypeOK, Remove, Serving, NamedCall
<1>2. db.acct[a] \in Account
  BY <1>1, EntriesTyped
<1>3. row \in Account /\ row.status = "absent" /\ row.kind = db.acct[a].kind
      /\ row.balance = db.acct[a].balance
  BY <1>2, AccountWithStatus
<1>4. db' = [db EXCEPT !.acct[a] = row]
  BY <1>1, DbFields DEF Remove, Commit, TypeOK, Database
<1> HIDE DEF row, a
<1> QED BY <1>1, <1>3, <1>4, AccountReplaced DEF StatusDone

ToggleEffect(r) ==
  LET c == req[r]
  IN /\ c \in ToggleCall
     /\ \E row : /\ AccountDone(c.a, row)
                 /\ row.kind = c.row.kind /\ row.balance = c.row.balance
LEMMA ToggleDoes ==
  ASSUME TypeOK, NEW r \in Requests, Toggle(r)
  PROVE  Sound /\ Aside /\ ToggleEffect(r)
<1> DEFINE c == req[r]
<1>1. c \in ToggleCall
  BY CallShapes DEF TypeOK, Toggle, Serving
<1>2. c.a \in Accounts /\ c.row \in Account
  BY <1>1 DEF ToggleCall
<1>3. PICK s \in {"active", "inactive"} : s = IF c.row.status = "active" THEN "inactive" ELSE "active"
  OBVIOUS
<1>4. PICK row : row = [c.row EXCEPT !.status = s]
  OBVIOUS
<1>5. row \in Account /\ row.status = s /\ row.kind = c.row.kind /\ row.balance = c.row.balance
  BY <1>2, <1>3, <1>4, AccountWithStatus
<1>6. [c.row EXCEPT !.status = IF @ = "active" THEN "inactive" ELSE "active"] = row
  BY <1>2, <1>3, <1>4
<1>7. db' = [db EXCEPT !.acct[c.a] = row]
  BY <1>6 DEF Toggle, Commit
<1> HIDE DEF c
<1>8. Sound /\ Aside /\ AccountDone(c.a, row)
  BY <1>2, <1>3, <1>5, <1>7, AccountReplaced
<1> QED BY <1>1, <1>5, <1>8 DEF ToggleEffect, c

UpdateEffect(r) ==
  LET c == req[r]
      old == db.acct[c.a]
  IN /\ c \in UpdateCall
     /\ TypeOf(c.kind) # TypeOf(old.kind) => ~InUse(db, c.a)
     /\ \E row : AccountDone(c.a, row) /\ row.kind = c.kind /\ row.balance = old.balance
LEMMA UpdateDoes ==
  ASSUME TypeOK, NEW r \in Requests, Update(r)
  PROVE  Sound /\ Aside /\ UpdateEffect(r)
<1> DEFINE c == req[r]
           row == [db.acct[c.a] EXCEPT !.kind = c.kind, !.status = c.status]
<1>1. c \in UpdateCall
  BY CallShapes DEF TypeOK, Update, Serving
<1>2. c.a \in Accounts /\ c.kind \in Kinds /\ c.status \in {"active", "inactive"}
  BY <1>1 DEF UpdateCall
<1>3. db.acct[c.a] \in Account
  BY <1>2, EntriesTyped
<1>4. /\ row \in Account /\ row.status = c.status /\ row.kind = c.kind
      /\ row.balance = db.acct[c.a].balance
  <2>1. PICK old \in Account : old = db.acct[c.a]
    BY <1>3
  <2>2. PICK k \in Kinds : k = c.kind
    BY <1>2
  <2>3. PICK s \in {"active", "inactive"} : s = c.status
    BY <1>2
  <2>4. PICK x : x = [old EXCEPT !.kind = k, !.status = s]
    OBVIOUS
  <2>5. x \in Account /\ x.status = s /\ x.kind = k /\ x.balance = old.balance
    <3>1. old \in Account /\ k \in Kinds /\ s \in {"absent", "active", "inactive"}
      BY <2>1, <2>2, <2>3
    <3> QED BY <2>4, <3>1 DEF Account
  <2>6. row = x
    BY <2>1, <2>2, <2>3, <2>4
  <2> HIDE DEF row, c
  <2> QED BY <2>1, <2>2, <2>3, <2>5, <2>6
<1>5. db' = [db EXCEPT !.acct[c.a] = row]
  BY Zenon DEF Update, Commit
<1>6. TypeOf(c.kind) # TypeOf(db.acct[c.a].kind) => ~InUse(db, c.a)
  BY DEF Update
<1> HIDE DEF row, c
<1>7. Sound /\ Aside /\ AccountDone(c.a, row)
  BY <1>2, <1>4, <1>5, AccountReplaced
<1> QED BY <1>1, <1>4, <1>6, <1>7 DEF UpdateEffect, c

CloseEffect(r) ==
  /\ Ledgered /\ db'.acct = db.acct /\ db'.recs = db.recs /\ db'.lock = req[r].lock
LEMMA CloseDoes ==
  ASSUME TypeOK, NEW r \in Requests, Close(r)
  PROVE  Sound /\ CloseEffect(r)
<1>1. req[r].lock \in Nat
  BY CallShapes DEF TypeOK, Close, Serving, CloseCall
<1>2. db \in Database /\ db' = [db EXCEPT !.lock = req[r].lock]
  BY DEF Close, TypeOK
<1>3. /\ db' \in Database /\ db'.entries = db.entries /\ db'.rows = db.rows
      /\ db'.lock = req[r].lock /\ db'.recs = db.recs /\ db'.acct = db.acct
  BY <1>1, <1>2, DbWithLock
<1> QED BY <1>3 DEF Sound, CloseEffect, Ledgered, TypeOK

(* The rows are marked anew: M gives the reconciliation of each.            *)
Marked(row, M) == [row EXCEPT !.rec = M[row]]
Remarked(M) ==
  /\ \A row \in db.rows : M[row] \in Nat
  /\ db'.rows = {Marked(row, M) : row \in db.rows}
  /\ db'.entries = db.entries /\ db'.lock = db.lock /\ db'.acct = db.acct
LEMMA MarkedFields ==
  ASSUME NEW row \in LedgerRow, NEW M, M[row] \in Nat
  PROVE  LET x == Marked(row, M)
         IN /\ x \in LedgerRow /\ x.rec = M[row] /\ x.id = row.id /\ x.day = row.day
            /\ x.acct = row.acct /\ x.amt = row.amt /\ x.run = row.run
  BY RowWithRec DEF Marked
LEMMA RemarkedSound ==
  ASSUME TypeOK, NEW M, \A row \in db.rows : M[row] \in Nat,
         NEW recs \in SUBSET Rec, IsFiniteSet(recs),
         db' = [db EXCEPT !.recs = recs, !.rows = {Marked(row, M) : row \in db.rows}]
  PROVE  Sound /\ Remarked(M) /\ db'.recs = recs
<1> DEFINE F == [row \in db.rows |-> Marked(row, M)]
           rows == {Marked(row, M) : row \in db.rows}
<1>1. db \in Database /\ db.rows \subseteq LedgerRow /\ IsFiniteSet(db.rows)
  BY DbFields DEF TypeOK
<1>2. rows \in SUBSET LedgerRow
  BY <1>1, MarkedFields
<1>3. IsFiniteSet(rows)
  <2>1. rows = {F[row] : row \in db.rows}
    OBVIOUS
  <2> HIDE DEF F, rows
  <2> QED BY <1>1, <2>1, ImageFinite
<1> HIDE DEF rows
<1>4. db' = [db EXCEPT !.recs = recs, !.rows = rows]
  BY DEF rows
<1>5. /\ db' \in Database /\ db'.entries = db.entries /\ db'.rows = rows /\ db'.lock = db.lock
      /\ db'.recs = recs /\ db'.acct = db.acct
  <2> DEFINE y == [db EXCEPT !.recs = recs, !.rows = rows]
  <2>1. /\ y \in Database /\ y.entries = db.entries /\ y.rows = rows /\ y.lock = db.lock
        /\ y.recs = recs /\ y.acct = db.acct
    <3>1. db \in Database /\ recs \in SUBSET Rec /\ rows \in SUBSET LedgerRow
      BY <1>1, <1>2
    <3> QED BY <3>1 DEF Database
  <2> HIDE DEF y
  <2>2. db' = y
    BY <1>4 DEF y
  <2> QED BY <2>1, <2>2
<1> QED BY <1>3, <1>5 DEF Sound, Remarked, TypeOK, rows

MarkOf(c, id) == [row \in db.rows |-> IF row.id \in {x.id : x \in c.S} THEN id ELSE row.rec]
ReconcileEffect(r) ==
  LET c == req[r]
  IN /\ c \in ReconcileCall /\ IsFiniteSet(c.S)
     /\ Remarked(MarkOf(c, writes + 1))
     /\ \E rec \in Rec : /\ db'.recs = db.recs \cup {rec}
                         /\ rec.id = writes + 1 /\ rec.acct = c.a /\ rec.day = c.day
                         /\ rec.from = c.from /\ rec.to = c.from + Amounts(c.S)
LEMMA ReconcileDoes ==
  ASSUME TypeOK, NEW r \in Requests, Reconcile(r)
  PROVE  Sound /\ ReconcileEffect(r)
<1> DEFINE c == req[r]
           M == MarkOf(c, writes + 1)
<1>1. c \in ReconcileCall /\ IsFiniteSet(c.S)
  BY CallShapes DEF TypeOK, Reconcile, Serving
<1>2. /\ c.a \in Accounts /\ c.S \subseteq LedgerRow /\ c.day \in Days /\ c.from \in Int
      /\ writes + 1 \in Nat /\ db.rows \subseteq LedgerRow /\ IsFiniteSet(db.recs) /\ db.recs \subseteq Rec
  BY <1>1, DbFields DEF ReconcileCall, TypeOK
<1>3. Amounts(c.S) \in Int
  BY <1>1, <1>2, AmountsInt
<1>4. PICK to : to = c.from + Amounts(c.S)
  OBVIOUS
<1>5. PICK rec : rec = [id |-> writes + 1, acct |-> c.a, day |-> c.day, from |-> c.from, to |-> to]
  OBVIOUS
<1>6. /\ rec \in Rec /\ rec.id = writes + 1 /\ rec.acct = c.a /\ rec.day = c.day
      /\ rec.from = c.from /\ rec.to = to
  BY <1>2, <1>3, <1>4, <1>5 DEF Rec
<1>7. db' = [db EXCEPT !.recs = @ \cup {rec},
                       !.rows = {IF row.id \in {x.id : x \in c.S} THEN [row EXCEPT !.rec = rec.id]
                                 ELSE row : row \in @}]
  BY <1>4, <1>5 DEF Reconcile, Commit
<1>8. \A row \in db.rows : M[row] \in Nat
  BY <1>2, RowFields DEF MarkOf
<1>9. \A row \in db.rows : Marked(row, M) = IF row.id \in {x.id : x \in c.S}
                                              THEN [row EXCEPT !.rec = rec.id] ELSE row
  <2> TAKE row \in db.rows
  <2>1. row \in LedgerRow
    BY <1>2
  <2>2. CASE row.id \in {x.id : x \in c.S}
    <3>1. M[row] = rec.id
      BY <1>6, <2>2 DEF MarkOf
    <3> QED BY <2>2, <3>1 DEF Marked
  <2>3. CASE row.id \notin {x.id : x \in c.S}
    <3>1. M[row] = row.rec
      BY <2>3 DEF MarkOf
    <3> QED BY <2>1, <2>3, <3>1 DEF Marked, LedgerRow
  <2> QED BY <2>2, <2>3
<1>10. {IF row.id \in {x.id : x \in c.S} THEN [row EXCEPT !.rec = rec.id] ELSE row : row \in db.rows}
         = {Marked(row, M) : row \in db.rows}
  BY <1>9
<1>11. PICK recs : recs = db.recs \cup {rec}
  OBVIOUS
<1>12. recs \in SUBSET Rec /\ IsFiniteSet(recs)
  BY <1>2, <1>6, <1>11, FS_AddElement
<1> HIDE DEF M
<1>13. db' = [db EXCEPT !.recs = recs, !.rows = {Marked(row, M) : row \in db.rows}]
  BY <1>7, <1>10, <1>11, DbFields DEF TypeOK, Database
<1>14. Sound /\ Remarked(M) /\ db'.recs = recs
  BY <1>8, <1>12, <1>13, RemarkedSound
<1> QED BY <1>1, <1>4, <1>6, <1>11, <1>14 DEF ReconcileEffect, M

UnmarkOf(c) == [row \in db.rows |-> IF row.rec = c.id THEN 0 ELSE row.rec]
UndoEffect(r) ==
  LET c == req[r]
  IN /\ c \in UndoCall
     /\ Remarked(UnmarkOf(c))
     /\ db'.recs = {x \in db.recs : x.id # c.id}
LEMMA UndoDoes ==
  ASSUME TypeOK, NEW r \in Requests, Undo(r)
  PROVE  Sound /\ UndoEffect(r)
<1> DEFINE c == req[r]
           M == UnmarkOf(c)
<1>1. c \in UndoCall
  BY CallShapes DEF TypeOK, Undo, Serving
<1>2. db.rows \subseteq LedgerRow /\ IsFiniteSet(db.recs) /\ db.recs \subseteq Rec
  BY DbFields DEF TypeOK
<1>3. db' = [db EXCEPT !.recs = {x \in @ : x.id # c.id},
                       !.rows = {IF row.rec = c.id THEN [row EXCEPT !.rec = 0] ELSE row : row \in @}]
  BY DEF Undo, Commit
<1>4. \A row \in db.rows : M[row] \in Nat
  BY <1>2, RowFields DEF UnmarkOf
<1>5. \A row \in db.rows : Marked(row, M) = IF row.rec = c.id THEN [row EXCEPT !.rec = 0] ELSE row
  <2> TAKE row \in db.rows
  <2>1. row \in LedgerRow
    BY <1>2
  <2>2. CASE row.rec = c.id
    <3>1. M[row] = 0
      BY <2>2 DEF UnmarkOf
    <3> QED BY <2>2, <3>1 DEF Marked
  <2>3. CASE row.rec # c.id
    <3>1. M[row] = row.rec
      BY <2>3 DEF UnmarkOf
    <3> QED BY <2>1, <2>3, <3>1 DEF Marked, LedgerRow
  <2> QED BY <2>2, <2>3
<1>6. {IF row.rec = c.id THEN [row EXCEPT !.rec = 0] ELSE row : row \in db.rows}
         = {Marked(row, M) : row \in db.rows}
  BY <1>5
<1>7. PICK recs : recs = {x \in db.recs : x.id # c.id}
  OBVIOUS
<1>8. recs \in SUBSET Rec /\ IsFiniteSet(recs)
  BY <1>2, <1>7, FS_Subset
<1> HIDE DEF M
<1>9. db' = [db EXCEPT !.recs = recs, !.rows = {Marked(row, M) : row \in db.rows}]
  BY <1>3, <1>6, <1>7, DbFields DEF TypeOK, Database
<1>10. Sound /\ Remarked(M) /\ db'.recs = recs
  BY <1>4, <1>8, <1>9, RemarkedSound
<1> QED BY <1>1, <1>7, <1>10 DEF UndoEffect, M

-----------------------------------------------------------------------------
(* The steps: a request asks, draws a reference, is served, or is dropped.  *)

Finished(r) ==
  /\ req' = [req EXCEPT ![r] = Idle]
  /\ holder' = IF holder = r THEN Nobody ELSE holder
  /\ writes' = writes + 1
  /\ apart' = apart
Effect(r) ==
  \/ req[r].op = "create" /\ Aside /\ CreateDone(r)
  \/ req[r].op = "post" /\ Aside /\ PostEffect(r)
  \/ req[r].op = "reverse" /\ Aside /\ ReverseEffect(r)
  \/ req[r].op = "discard" /\ Aside /\ DiscardEffect(r)
  \/ req[r].op \in {"open", "remove"} /\ Aside /\ StatusDone(r)
  \/ req[r].op = "toggle" /\ Aside /\ ToggleEffect(r)
  \/ req[r].op = "update" /\ Aside /\ UpdateEffect(r)
  \/ req[r].op = "close" /\ CloseEffect(r)
  \/ req[r].op = "reconcile" /\ ReconcileEffect(r)
  \/ req[r].op = "undo" /\ UndoEffect(r)
Served(r) == req[r].op # "idle" /\ Finished(r) /\ Sound /\ Effect(r)
Drawn(r, x) ==
  /\ MayDraw(r) /\ UNCHANGED <<db, writes, apart>> /\ holder' = r
  /\ req' = [req EXCEPT ![r] = x]
  /\ x \in Calls /\ req[r].op \in {"create", "reverse"} /\ req[r].ref = 0
  /\ x.op = req[r].op /\ x.e = req[r].e /\ x.kind = req[r].kind
  /\ x.op = "reverse" => x.n = req[r].n
  /\ x.ref = Len(db.entries) + 1
Dropped(r) ==
  /\ req[r] # Idle
  /\ req' = [req EXCEPT ![r] = Idle]
  /\ holder' = IF holder = r THEN Nobody ELSE holder
  /\ UNCHANGED <<db, writes, apart>>

LEMMA DrawDoes ==
  ASSUME TypeOK, NEW r \in Requests, Draw(r)
  PROVE  \E x : Drawn(r, x)
<1> DEFINE n == Len(db.entries) + 1
<1>1. n \in Nat /\ req \in [Requests -> Calls]
  BY EntriesTyped DEF TypeOK
<1>2. PICK x : x = [req[r] EXCEPT !.ref = n]
  OBVIOUS
<1>3. req' = [req EXCEPT ![r] = x]
  BY <1>1, <1>2 DEF Draw
<1>4. CASE req[r].op = "create"
  <2>1. req[r] \in CreateCall
    BY <1>1, <1>4, CallShapes
  <2> HIDE DEF n
  <2>2. x \in CreateCall /\ x.op = "create" /\ x.e = req[r].e /\ x.kind = req[r].kind /\ x.ref = n
    BY <1>1, <1>2, <2>1 DEF CreateCall
  <2> QED BY <1>3, <1>4, <2>2 DEF Drawn, Draw, Calls, n
<1>5. CASE req[r].op = "reverse"
  <2>1. req[r] \in VoidCall
    BY <1>1, <1>5, CallShapes
  <2> HIDE DEF n
  <2>2. /\ x \in VoidCall /\ x.op = "reverse" /\ x.e = req[r].e /\ x.kind = req[r].kind
        /\ x.ref = n /\ x.n = req[r].n
    BY <1>1, <1>2, <1>5, <2>1 DEF VoidCall
  <2> QED BY <1>3, <1>5, <2>2 DEF Drawn, Draw, Calls, n
<1> QED BY <1>4, <1>5 DEF Draw

LEMMA ServeDoes ==
  ASSUME TypeOK, NEW r \in Requests, ServeStep(r)
  PROVE  (\E x : Drawn(r, x)) \/ Served(r)
<1>1. CASE Draw(r)
  BY <1>1, DrawDoes
<1>2. CASE Create(r)
  <2>1. Finished(r) /\ req[r].op = "create"
    BY <1>2 DEF Create, Commit, Finished, Serving
  <2> QED BY <1>2, <2>1, CreateDoes DEF Served, Effect
<1>3. CASE OpenEmpty(r)
  <2>1. Finished(r) /\ req[r].op = "open"
    BY <1>3 DEF OpenEmpty, Commit, Finished, Serving
  <2> QED BY <1>3, <2>1, OpenDoes DEF Served, Effect
<1>4. CASE Post(r)
  <2>1. Finished(r) /\ req[r].op = "post"
    BY <1>4 DEF Post, Commit, Finished, Serving
  <2> QED BY <1>4, <2>1, PostDoes DEF Served, Effect
<1>5. CASE Discard(r)
  <2>1. Finished(r) /\ req[r].op = "discard"
    BY <1>5 DEF Discard, Commit, Finished, Serving
  <2> QED BY <1>5, <2>1, DiscardDoes DEF Served, Effect
<1>6. CASE Reverse(r)
  <2>1. Finished(r) /\ req[r].op = "reverse"
    BY <1>6 DEF Reverse, Commit, Finished, Serving
  <2> QED BY <1>6, <2>1, ReverseDoes DEF Served, Effect
<1>7. CASE Close(r)
  <2>1. holder # r
    BY <1>7, GeneralLedgerAssumption DEF Close
  <2>2. Finished(r) /\ req[r].op = "close"
    BY <1>7, <2>1 DEF Close, Finished, Serving
  <2> QED BY <1>7, <2>2, CloseDoes DEF Served, Effect
<1>8. CASE Toggle(r)
  <2>1. Finished(r) /\ req[r].op = "toggle"
    BY <1>8 DEF Toggle, Commit, Finished, Serving
  <2> QED BY <1>8, <2>1, ToggleDoes DEF Served, Effect
<1>9. CASE Update(r)
  <2>1. Finished(r) /\ req[r].op = "update"
    BY <1>9 DEF Update, Commit, Finished, Serving
  <2> QED BY <1>9, <2>1, UpdateDoes DEF Served, Effect
<1>10. CASE Remove(r)
  <2>1. Finished(r) /\ req[r].op = "remove"
    BY <1>10 DEF Remove, Commit, Finished, Serving
  <2> QED BY <1>10, <2>1, RemoveDoes DEF Served, Effect
<1>11. CASE Reconcile(r)
  <2>1. Finished(r) /\ req[r].op = "reconcile"
    BY <1>11 DEF Reconcile, Commit, Finished, Serving
  <2> QED BY <1>11, <2>1, ReconcileDoes DEF Served, Effect
<1>12. CASE Undo(r)
  <2>1. Finished(r) /\ req[r].op = "undo"
    BY <1>12 DEF Undo, Commit, Finished, Serving
  <2> QED BY <1>12, <2>1, UndoDoes DEF Served, Effect
<1> QED
  BY <1>1, <1>2, <1>3, <1>4, <1>5, <1>6, <1>7, <1>8, <1>9, <1>10, <1>11, <1>12 DEF ServeStep

LEMMA Steps ==
  ASSUME TypeOK, Next
  PROVE  \E r \in Requests :
           (\E c : AskedFor(r, c)) \/ (\E x : Drawn(r, x)) \/ Served(r) \/ Dropped(r)
<1>1. PICK r \in Requests : AskStep(r) \/ ServeStep(r) \/ Drop(r)
  BY DEF Next
<1>2. CASE AskStep(r)
  BY <1>2, AskReads
<1>3. CASE ServeStep(r)
  BY <1>3, ServeDoes
<1>4. CASE Drop(r)
  BY <1>4 DEF Drop, Dropped
<1> QED BY <1>1, <1>2, <1>3, <1>4

LEMMA TypeOKInit == Init => TypeOK
<1> SUFFICES ASSUME Init PROVE TypeOK
  OBVIOUS
<1>1. PICK acct : acct = [a \in Accounts |->
                            [status |-> IF a \in Absent THEN "absent" ELSE "active",
                             kind |-> Chart[a], balance |-> 0]]
  OBVIOUS
<1>2. acct \in [Accounts -> Account] /\ \A a \in System : acct[a].status # "absent"
  BY <1>1, GeneralLedgerAssumption DEF Account
<1>3. db = [entries |-> <<>>, rows |-> {}, lock |-> 0, recs |-> {}, acct |-> acct]
  BY <1>1 DEF Init
<1>4. db \in Database /\ db.rows = {} /\ db.recs = {} /\ db.acct = acct
  BY <1>2, <1>3 DEF Database
<1>5. Idle \in Calls /\ Idle.op # "reconcile"
  BY DEF Calls, Idle
<1> QED BY <1>2, <1>4, <1>5, FS_EmptySet DEF Init, TypeOK

LEMMA TypeOKStep ==
  ASSUME TypeOK, [Next]_vars
  PROVE  TypeOK'
<1>1. CASE UNCHANGED vars
  BY <1>1 DEF TypeOK, vars
<1>2. CASE Next
  <2>1. PICK r \in Requests :
          (\E c : AskedFor(r, c)) \/ (\E x : Drawn(r, x)) \/ Served(r) \/ Dropped(r)
    BY <1>2, Steps
  <2>2. Idle \in Calls /\ Idle.op # "reconcile"
    BY DEF Calls, Idle
  <2>3. ASSUME NEW c, AskedFor(r, c)
        PROVE  TypeOK'
    BY <2>3 DEF AskedFor, Ask, TypeOK
  <2>4. ASSUME NEW x, Drawn(r, x)
        PROVE  TypeOK'
    BY <2>4 DEF Drawn, TypeOK
  <2>5. CASE Served(r)
    <3>1. /\ db' \in Database /\ IsFiniteSet(db'.rows) /\ IsFiniteSet(db'.recs)
          /\ \A a \in System : db'.acct[a].status # "absent"
      BY <2>5 DEF Served, Sound
    <3>2. /\ req' \in [Requests -> Calls]
          /\ \A q \in Requests : req'[q].op = "reconcile" => IsFiniteSet(req'[q].S)
          /\ holder' \in Requests \cup {Nobody} /\ writes' \in Nat /\ apart' \in BOOLEAN
      BY <2>2, <2>5 DEF Served, Finished, TypeOK
    <3> QED BY <3>1, <3>2 DEF TypeOK
  <2>6. CASE Dropped(r)
    BY <2>2, <2>6 DEF Dropped, TypeOK
  <2> QED BY <2>1, <2>3, <2>4, <2>5, <2>6
<1> QED BY <1>1, <1>2

(* Every value has its type, whatever requests overlap: the books, their    *)
(* rows and balances, and what each request keeps of what it read.          *)
THEOREM LedgerTypes == Spec => []TypeOK
<1>1. TypeOK /\ [Next]_vars => TypeOK'
  BY TypeOKStep
<1> QED BY <1>1, TypeOKInit, PTL DEF Spec

-----------------------------------------------------------------------------
(* Ledger rows are numbered one after the other.                            *)

RowIds ==
  /\ \A x, y \in db.rows : x.id = y.id => x = y
  /\ \A x \in db.rows : 1 <= x.id /\ x.id <= Cardinality(db.rows)

LEMMA NewIds ==
  ASSUME TypeOK, RowIds, NEW n \in Nat, NEW e \in Entry, NEW kind \in KindMap
  PROVE  LET N == NewRows(db, n, e, kind)
             size == Cardinality(db.rows)
         IN /\ size \in Nat /\ N \cap db.rows = {}
            /\ Cardinality(db.rows \cup N) = size + Cardinality(N)
            /\ \A x, y \in N : x.id = y.id => x = y
            /\ \A x \in N : /\ x \in LedgerRow /\ x.acct \in Touched(e.lines)
                            /\ x = NewRow(db, n, e, kind, x.acct)
                            /\ size < x.id /\ x.id <= size + Cardinality(N)
<1> DEFINE T == Touched(e.lines)
           F == [a \in T |-> NewRow(db, n, e, kind, a)]
           N == NewRows(db, n, e, kind)
           size == Cardinality(db.rows)
<1>1. db \in Database /\ IsFiniteSet(db.rows) /\ size \in Nat
  BY FS_CardinalityType DEF TypeOK
<1>2. \A a \in T : F[a] \in LedgerRow /\ F[a].acct = a /\ F[a].id = size + 1 + Rank(T, a)
  BY <1>1, NewRowFields
<1>3. IsFiniteSet(T) /\ T \subseteq Nat /\ Cardinality(T) \in Nat
  BY TouchedFinite, FS_CardinalityType
<1>4. N = {F[a] : a \in T}
  BY DEF NewRows
<1>5. /\ \A a \in T : Rank(T, a) \in Nat /\ Rank(T, a) < Cardinality(T)
      /\ \A a, b \in T : a < b => Rank(T, a) < Rank(T, b)
  BY <1>3, RankOrders
<1>6. \A a \in T : F[a] = NewRow(db, n, e, kind, a)
  OBVIOUS
<1> HIDE DEF T, F, N, size
<1>7. IsFiniteSet(N) /\ Cardinality(N) = Cardinality(T)
  <2>1. \A a, b \in T : F[a] = F[b] => a = b
    BY <1>2
  <2> QED BY <1>3, <1>4, <2>1, ImageSize
<1>8. \A x \in N : /\ x \in LedgerRow /\ x.acct \in T /\ x = F[x.acct]
                   /\ x.id = size + 1 + Rank(T, x.acct)
  BY <1>2, <1>4
<1>9. \A x \in N : size < x.id /\ x.id <= size + Cardinality(N)
  <2> TAKE x \in N
  <2>1. /\ x.id = size + 1 + Rank(T, x.acct) /\ Rank(T, x.acct) \in Nat
        /\ Rank(T, x.acct) < Cardinality(T)
    BY <1>5, <1>8
  <2> QED BY <1>1, <1>3, <1>7, <2>1
<1>10. \A x, y \in N : x.id = y.id => x = y
  <2> SUFFICES ASSUME NEW x \in N, NEW y \in N, x.id = y.id PROVE x = y
    OBVIOUS
  <2>1. Rank(T, x.acct) = Rank(T, y.acct)
    BY <1>1, <1>5, <1>8
  <2>2. x.acct \in Nat /\ y.acct \in Nat
    BY <1>3, <1>8
  <2>3. ~(x.acct < y.acct) /\ ~(y.acct < x.acct)
    BY <1>5, <1>8, <2>1
  <2>4. x.acct = y.acct
    BY <2>2, <2>3
  <2> QED BY <1>8, <2>4
<1>11. N \cap db.rows = {}
  <2> SUFFICES ASSUME NEW x \in N, x \in db.rows PROVE FALSE
    OBVIOUS
  <2>1. x.id <= size /\ size < x.id /\ x.id \in Nat
    BY <1>8, <1>9, RowFields DEF RowIds, size
  <2> QED BY <1>1, <2>1
<1>12. Cardinality(db.rows \cup N) = size + Cardinality(N)
  <2>1. Cardinality(db.rows \cup N) = size + Cardinality(N) - Cardinality(db.rows \cap N)
    BY <1>1, <1>7, FS_Union DEF size
  <2>2. Cardinality(db.rows \cap N) = 0
    BY <1>11, FS_EmptySet
  <2> QED BY <1>1, <1>3, <1>7, <2>1, <2>2
<1>13. \A x \in N : x = NewRow(db, n, e, kind, x.acct)
  BY <1>6, <1>8
<1> QED BY <1>1, <1>8, <1>9, <1>10, <1>11, <1>12, <1>13 DEF N, T, size

LEMMA RowIdsPosted ==
  ASSUME TypeOK, RowIds, NEW n \in Nat, NEW e \in Entry, NEW kind \in KindMap, Posts(n, e, kind)
  PROVE  RowIds'
<1> DEFINE N == NewRows(db, n, e, kind)
           size == Cardinality(db.rows)
<1>1. /\ size \in Nat /\ N \cap db.rows = {}
      /\ Cardinality(db.rows \cup N) = size + Cardinality(N)
      /\ \A x, y \in N : x.id = y.id => x = y
      /\ \A x \in N : x \in LedgerRow /\ size < x.id /\ x.id <= size + Cardinality(N)
  BY NewIds
<1>2. db'.rows = db.rows \cup N /\ Cardinality(N) \in Nat
  BY NewRowsFinite, FS_CardinalityType DEF Posts
<1>3. \A x \in db.rows : 1 <= x.id /\ x.id <= size /\ x.id \in Nat
  BY DbFields, RowFields DEF TypeOK, RowIds
<1>4. \A x \in N : x.id \in Nat
  BY <1>1, RowFields
<1>5. \A x, y \in db.rows : x.id = y.id => x = y
  BY DEF RowIds
<1> HIDE DEF N, size
<1>6. \A x, y \in db'.rows : x.id = y.id => x = y
  BY <1>1, <1>2, <1>3, <1>4, <1>5
<1>7. \A x \in db'.rows : 1 <= x.id /\ x.id <= Cardinality(db'.rows)
  BY <1>1, <1>2, <1>3, <1>4
<1> QED BY <1>6, <1>7 DEF RowIds

LEMMA RowIdsRemarked ==
  ASSUME TypeOK, RowIds, NEW M, Remarked(M)
  PROVE  RowIds'
<1> DEFINE F == [row \in db.rows |-> Marked(row, M)]
<1>1. \A row \in db.rows : F[row].id = row.id
  BY DbFields, MarkedFields DEF TypeOK, Remarked
<1>2. db'.rows = {F[row] : row \in db.rows}
  BY DEF Remarked
<1> HIDE DEF F
<1>3. IsFiniteSet(db.rows)
  BY DEF TypeOK
<1>4. Cardinality(db'.rows) = Cardinality(db.rows)
  <2>1. \A x, y \in db.rows : F[x] = F[y] => x = y
    BY <1>1 DEF RowIds
  <2> QED BY <1>2, <1>3, <2>1, ImageSize
<1>5. \A x \in db.rows : 1 <= x.id /\ x.id <= Cardinality(db.rows)
  BY DEF RowIds
<1>6. \A x, y \in db.rows : F[x].id = F[y].id => x = y
  BY <1>1 DEF RowIds
<1>7. \A x, y \in db'.rows : x.id = y.id => x = y
  BY <1>2, <1>6
<1>8. \A x \in db'.rows : 1 <= x.id /\ x.id <= Cardinality(db'.rows)
  BY <1>1, <1>2, <1>4, <1>5
<1> QED BY <1>7, <1>8 DEF RowIds

(* What any step does to the rows.  What is posted is what the request has  *)
(* read, or its reversal of today.                                          *)
Writes(r, e) ==
  /\ req[r].op \in {"create", "post", "reverse"} /\ req[r].kind \in KindMap
  /\ req[r].op # "reverse" => e.day = req[r].e.day
  /\ req[r].op = "create" => req[r].e.status = "posted"
  /\ req[r].op = "reverse" => e.day = Today
PostedBy(r) ==
  \E n \in Nat, e \in Entry : Posts(n, e, req[r].kind) /\ Writes(r, e) /\ Aside
Quiet(r) ==
  /\ db'.rows = db.rows
  /\ \/ Unposted \/ StatusDone(r) \/ UpdateEffect(r) \/ CloseEffect(r)
     \/ req[r].op = "toggle" /\ ToggleEffect(r)
LEMMA RowEffects ==
  ASSUME TypeOK, NEW r \in Requests, Served(r)
  PROVE  \/ PostedBy(r) \/ Quiet(r)
         \/ req[r].op \in {"reconcile", "undo"} /\ \E M : Remarked(M)
<1>1. Len(db.entries) + 1 \in Nat
  BY EntriesTyped
<1>2. CASE Aside /\ CreateDone(r)
  <2>1. PICK e : e = [req[r].e EXCEPT !.ref = req[r].ref]
    OBVIOUS
  <2>2. /\ req[r].kind \in KindMap /\ req[r].op = "create" /\ req[r].e \in Entry
        /\ req[r].ref \in Nat
    BY <1>2 DEF CreateDone, CreateCall
  <2>3. e \in Entry /\ e.day = req[r].e.day /\ e.status = req[r].e.status
    BY <2>1, <2>2, EntryWithRef
  <2>4. IF e.status = "posted" THEN Posts(Len(db.entries) + 1, e, req[r].kind) ELSE Unposted
    BY <1>2, <2>1 DEF CreateDone
  <2> QED BY <1>1, <1>2, <2>2, <2>3, <2>4 DEF PostedBy, Writes, Unposted, Quiet
<1>3. CASE Aside /\ PostEffect(r)
  <2>1. PICK e : e = [req[r].e EXCEPT !.status = "posted"]
    OBVIOUS
  <2>2. /\ req[r].kind \in KindMap /\ req[r].op = "post" /\ req[r].e \in Entry
        /\ req[r].n \in Nat
    BY <1>3 DEF PostEffect, PostCall
  <2>3. e \in Entry /\ e.day = req[r].e.day
    BY <2>1, <2>2, EntryWithStatus
  <2>4. Posts(req[r].n, e, req[r].kind)
    BY <1>3, <2>1 DEF PostEffect
  <2> QED BY <1>3, <2>2, <2>3, <2>4 DEF PostedBy, Writes
<1>4. CASE Aside /\ ReverseEffect(r)
  <2>1. PICK e : e = Reversal(req[r].e, req[r].n, req[r].ref)
    OBVIOUS
  <2>2. /\ req[r].kind \in KindMap /\ req[r].op = "reverse" /\ req[r].e \in Entry
        /\ req[r].n \in Nat /\ req[r].ref \in Nat
    BY <1>4 DEF ReverseEffect, VoidCall
  <2>3. e \in Entry /\ e.day = Today
    <3>1. PICK old \in Entry, n \in Nat, ref \in Nat :
            old = req[r].e /\ n = req[r].n /\ ref = req[r].ref
      BY <2>2
    <3>2. Reversal(old, n, ref) \in Entry /\ Reversal(old, n, ref).day = Today
      BY ReversalIs
    <3> QED BY <2>1, <3>1, <3>2
  <2>4. Posts(Len(db.entries) + 1, e, req[r].kind)
    BY <1>4, <2>1 DEF ReverseEffect
  <2> QED BY <1>1, <1>4, <2>2, <2>3, <2>4 DEF PostedBy, Writes
<1>5. CASE \/ DiscardEffect(r) \/ StatusDone(r) \/ UpdateEffect(r) \/ CloseEffect(r)
           \/ req[r].op = "toggle" /\ ToggleEffect(r)
  BY <1>5 DEF DiscardEffect, Unposted, StatusDone, ToggleEffect, UpdateEffect, CloseEffect,
              AccountDone, Ledgered, Quiet
<1>6. CASE \/ req[r].op = "reconcile" /\ ReconcileEffect(r)
           \/ req[r].op = "undo" /\ UndoEffect(r)
  BY <1>6 DEF ReconcileEffect, UndoEffect
<1> QED BY <1>2, <1>3, <1>4, <1>5, <1>6 DEF Served, Effect

LEMMA RowIdsStep ==
  ASSUME TypeOK, RowIds, [Next]_vars
  PROVE  RowIds'
<1>1. CASE db' = db
  BY <1>1 DEF RowIds
<1>2. ASSUME NEW r \in Requests, Served(r)
      PROVE  RowIds'
  BY <1>2, RowEffects, RowIdsPosted, RowIdsRemarked DEF PostedBy, Writes, RowIds, Quiet
<1>3. CASE Next
  BY <1>1, <1>2, <1>3, Steps DEF AskedFor, Ask, Drawn, Dropped
<1> QED BY <1>1, <1>3 DEF vars

LEMMA RowIdsInit == Init => RowIds
  BY DEF Init, RowIds

(* The rows of the ledger are numbered from one, without gap or double,     *)
(* whatever requests overlap: the last row of an account is one row.        *)
THEOREM RowsNumbered == Spec => []RowIds
<1>1. TypeOK /\ RowIds /\ [Next]_vars => RowIds'
  BY RowIdsStep
<1> QED BY <1>1, RowIdsInit, LedgerTypes, PTL DEF Spec

-----------------------------------------------------------------------------
(* Two requests are served at once only if both may overlap.                *)

Busy(r) == req[r].op # "idle"
Exclusive ==
  /\ \A r, q \in Requests : r # q /\ Busy(r) /\ Busy(q) => {req[r].op, req[q].op} \subseteq Overlapping
  /\ apart => \A r, q \in Requests : Busy(r) /\ Busy(q) => r = q

LEMMA IdleIs ==
  /\ Idle.op = "idle"
  /\ TypeOK => \A q \in Requests : (req[q] = Idle <=> ~Busy(q))
<1>1. Idle.op = "idle"
  BY DEF Idle
<1> QED BY <1>1, CallShapes DEF Busy, TypeOK

LEMMA AfterAsking ==
  ASSUME TypeOK, NEW r \in Requests, NEW c, AskedFor(r, c)
  PROVE  /\ db' = db /\ req'[r] = c /\ \A q \in Requests \ {r} : req'[q] = req[q]
         /\ ~Busy(r) /\ c.op # "idle"
         /\ \A q \in Requests : Busy(q) => {c.op, req[q].op} \subseteq Overlapping
         /\ apart' => apart /\ \A q \in Requests : ~Busy(q)
<1>1. Ask(r, c) /\ c.op # "idle" /\ req \in [Requests -> Calls]
  BY DEF AskedFor, TypeOK
<1>2. /\ db' = db /\ req' = [req EXCEPT ![r] = c] /\ req[r] = Idle
      /\ apart' = (apart /\ \A q \in Requests : req[q] = Idle)
      /\ \A q \in Requests : req[q] = Idle \/ {c.op, req[q].op} \subseteq Overlapping
  BY <1>1 DEF Ask
<1> QED BY <1>1, <1>2, IdleIs

LEMMA AfterDrawing ==
  ASSUME TypeOK, NEW r \in Requests, NEW x, Drawn(r, x)
  PROVE  /\ db' = db /\ req'[r] = x /\ \A q \in Requests \ {r} : req'[q] = req[q]
         /\ x.op = req[r].op /\ x.op \in {"create", "reverse"} /\ x.e = req[r].e
         /\ x.kind = req[r].kind /\ apart' = apart
         /\ x.op = "reverse" => x.n = req[r].n
  BY DEF Drawn, TypeOK

LEMMA AfterServing ==
  ASSUME TypeOK, NEW r \in Requests, Served(r) \/ Dropped(r)
  PROVE  /\ ~Busy(r)' /\ \A q \in Requests \ {r} : req'[q] = req[q]
         /\ apart' = apart /\ Busy(r)
         /\ Dropped(r) => db' = db
  BY IdleIs DEF Served, Dropped, Finished, Busy, TypeOK

LEMMA ExclusiveStep ==
  ASSUME TypeOK, Exclusive, [Next]_vars
  PROVE  Exclusive'
<1>1. CASE UNCHANGED vars
  BY <1>1 DEF Exclusive, Busy, vars
<1>2. CASE Next
  <2>1. PICK r \in Requests :
          (\E c : AskedFor(r, c)) \/ (\E x : Drawn(r, x)) \/ Served(r) \/ Dropped(r)
    BY <1>2, Steps
  <2>2. ASSUME NEW c, AskedFor(r, c)
        PROVE  Exclusive'
    BY <2>2, AfterAsking DEF Exclusive, Busy
  <2>3. ASSUME NEW x, Drawn(r, x)
        PROVE  Exclusive'
    BY <2>3, AfterDrawing DEF Exclusive, Busy
  <2>4. CASE Served(r) \/ Dropped(r)
    BY <2>4, AfterServing DEF Exclusive, Busy
  <2> QED BY <2>1, <2>2, <2>3, <2>4
<1> QED BY <1>1, <1>2

LEMMA ExclusiveInit == Init => Exclusive
  BY IdleIs DEF Init, Exclusive, Busy

-----------------------------------------------------------------------------
(* Closed books.                                                            *)

(* A request that posts will date what it posts after the closed books.     *)
PostingDated ==
  \A r \in Requests :
    LET c == req[r]
    IN /\ c.op = "create" /\ c.e.status = "posted" => c.e.day > db.lock
       /\ c.op = "post" => c.e.day > db.lock
       /\ c.op = "reverse" => Today > db.lock

LEMMA AsidePosting ==
  ASSUME TypeOK, NEW r \in Requests, Served(r)
  PROVE  db'.lock = db.lock \/ req[r].op = "close"
<1>1. CASE ReconcileEffect(r) \/ UndoEffect(r)
  BY <1>1 DEF ReconcileEffect, UndoEffect, Remarked
<1> QED BY <1>1 DEF Served, Effect, Aside

LEMMA PostingDatedStep ==
  ASSUME "close" \notin Overlapping, TypeOK, Exclusive, PostingDated, [Next]_vars
  PROVE  PostingDated'
<1>1. CASE UNCHANGED vars
  BY <1>1 DEF PostingDated, vars
<1>2. CASE Next
  <2>1. PICK r \in Requests :
          (\E c : AskedFor(r, c)) \/ (\E x : Drawn(r, x)) \/ Served(r) \/ Dropped(r)
    BY <1>2, Steps
  <2>2. ASSUME NEW c, AskedFor(r, c)
        PROVE  PostingDated'
    <3>1. ReadNow(c)
      BY <2>2 DEF AskedFor
    <3>2. /\ c.op = "create" /\ c.e.status = "posted" => c.e.day > db.lock
          /\ c.op = "post" => c.e.day > db.lock
          /\ c.op = "reverse" => Today > db.lock
      BY <3>1 DEF ReadNow, CanPost, IsOpen
    <3> QED BY <2>2, <3>2, AfterAsking DEF PostingDated
  <2>3. ASSUME NEW x, Drawn(r, x)
        PROVE  PostingDated'
    BY <2>3, AfterDrawing DEF PostingDated
  <2>4. CASE Served(r) \/ Dropped(r)
    <3>1. \A q \in Requests \ {r} : Busy(q) => db'.lock = db.lock
      BY <2>4, AsidePosting, AfterServing DEF Exclusive, Busy
    <3>2. \A q \in Requests \ {r} : req'[q] = req[q]
      BY <2>4, AfterServing
    <3>3. ~Busy(r)'
      BY <2>4, AfterServing
    <3> QED BY <3>1, <3>2, <3>3 DEF PostingDated, Busy
  <2> QED BY <2>1, <2>2, <2>3, <2>4
<1> QED BY <1>1, <1>2

LEMMA AmountsRemarked ==
  ASSUME TypeOK, RowIds, NEW M, Remarked(M), NEW S \in SUBSET db.rows
  PROVE  Amounts({Marked(row, M) : row \in S}) = Amounts(S)
<1> DEFINE F == [row \in S |-> Marked(row, M)]
           T == {Marked(row, M) : row \in S}
           f == [row \in S |-> row.amt]
           g == [row \in T |-> row.amt]
<1>1. \A row \in S : /\ F[row].id = row.id /\ F[row].amt = row.amt /\ row.amt \in Int
                     /\ F[row] \in T
  BY DbFields, MarkedFields, RowFields DEF TypeOK, Remarked
<1>2. T = {F[row] : row \in S}
  OBVIOUS
<1>3. IsFiniteSet(S)
  BY FS_Subset DEF TypeOK
<1>4. \A row \in S : f[row] = row.amt
  OBVIOUS
<1>5. \A row \in T : g[row] = row.amt
  OBVIOUS
<1>6. \A x, y \in S : F[x] = F[y] => x = y
  <2> HIDE DEF F
  <2> QED BY <1>1 DEF RowIds
<1> HIDE DEF F, T, f, g
<1>7. Sum(g, {F[row] : row \in S}) = Sum(f, S)
  <2>1. \A row \in S : f[row] \in Int /\ g[F[row]] = f[row]
    BY <1>1, <1>4, <1>5
  <2> QED BY <1>3, <1>6, <2>1, SumRenamed
<1>8. Sum(g, T) = Sum(f, S)
  BY <1>2, <1>7
<1> QED BY <1>8 DEF Amounts, T, f, g

LEMMA NetOfRemarked ==
  ASSUME TypeOK, RowIds, NEW M, Remarked(M), NEW a, NEW s, NEW e
  PROVE  NetOf(db'.rows, a, s, e) = NetOf(db.rows, a, s, e)
<1> DEFINE S == {row \in db.rows : row.acct = a /\ s <= row.day /\ row.day <= e}
<1>1. \A row \in db.rows : Marked(row, M).acct = row.acct /\ Marked(row, M).day = row.day
  BY DbFields, MarkedFields DEF TypeOK, Remarked
<1>2. {row \in db'.rows : row.acct = a /\ s <= row.day /\ row.day <= e}
        = {Marked(row, M) : row \in S}
  <2>1. db'.rows = {Marked(row, M) : row \in db.rows}
    BY DEF Remarked
  <2> QED BY <1>1, <2>1
<1>3. Amounts({Marked(row, M) : row \in S}) = Amounts(S)
  BY AmountsRemarked
<1> QED BY <1>2, <1>3 DEF NetOf

LEMMA NetOfPosted ==
  ASSUME TypeOK, RowIds, NEW n \in Nat, NEW e \in Entry, NEW kind \in KindMap, Posts(n, e, kind),
         NEW a, NEW day \in Nat, e.day > day
  PROVE  NetOf(db'.rows, a, 0, day) = NetOf(db.rows, a, 0, day)
<1> DEFINE N == NewRows(db, n, e, kind)
<1>1. \A x \in N : x.day = e.day
  <2>1. db \in Database /\ IsFiniteSet(db.rows)
    BY DEF TypeOK
  <2>2. \A b \in Touched(e.lines) : NewRow(db, n, e, kind, b).day = e.day
    BY <2>1, NewRowFields
  <2> QED BY <2>2 DEF NewRows
<1>2. e.day \in Nat
  BY EntryFields, GeneralLedgerAssumption
<1>3. db'.rows = db.rows \cup N
  BY DEF Posts
<1> HIDE DEF N
<1>4. \A x \in N : ~(x.day <= day)
  BY <1>1, <1>2
<1>5. {x \in db'.rows : x.acct = a /\ 0 <= x.day /\ x.day <= day}
        = {x \in db.rows : x.acct = a /\ 0 <= x.day /\ x.day <= day}
  BY <1>3, <1>4
<1> QED BY <1>5 DEF NetOf

ClosedKept ==
  \A a \in Accounts :
    NetOf(db.rows, a, 0, LeastOf(db.lock, db'.lock)) = NetOf(db'.rows, a, 0, LeastOf(db.lock, db'.lock))
LEMMA ClosedStep ==
  ASSUME TypeOK, RowIds, PostingDated, Next
  PROVE  ClosedKept
<1>1. CASE db'.rows = db.rows
  BY <1>1 DEF ClosedKept
<1>2. ASSUME NEW r \in Requests, Served(r)
      PROVE  ClosedKept
  <2>1. ASSUME NEW M, Remarked(M) PROVE ClosedKept
    BY <2>1, NetOfRemarked DEF ClosedKept
  <2>2. CASE PostedBy(r)
    <3>1. PICK n \in Nat, e \in Entry : Posts(n, e, req[r].kind) /\ Writes(r, e) /\ Aside
      BY <2>2 DEF PostedBy
    <3>2. e.day > db.lock
      BY <3>1 DEF Writes, PostingDated
    <3>3. LeastOf(db.lock, db'.lock) = db.lock /\ db.lock \in Nat
      BY <3>1, DbFields DEF LeastOf, Aside, TypeOK
    <3>4. req[r].kind \in KindMap
      BY <3>1 DEF Writes
    <3> QED BY <3>1, <3>2, <3>3, <3>4, NetOfPosted DEF ClosedKept
  <2> QED BY <1>1, <1>2, <2>1, <2>2, RowEffects DEF Quiet
<1> QED BY <1>1, <1>2, Steps DEF AskedFor, Ask, Drawn, Dropped

(* Whatever overlaps save a close, no step changes what an account had in   *)
(* the closed books: a posting reads the lock before it drew its reference, *)
(* and the books were not closed since.                                     *)
THEOREM ClosedBooksStayClosed == "close" \notin Overlapping /\ Spec => ClosedBooksKept
<1> SUFFICES ASSUME "close" \notin Overlapping
             PROVE  Spec => ClosedBooksKept
  OBVIOUS
<1>1. Init => PostingDated
  BY IdleIs DEF Init, PostingDated
<1>2. TypeOK /\ Exclusive /\ [Next]_vars => Exclusive'
  BY ExclusiveStep
<1>3. TypeOK /\ Exclusive /\ PostingDated /\ [Next]_vars => PostingDated'
  BY PostingDatedStep
<1>4. TypeOK /\ RowIds /\ PostingDated /\ [Next]_vars => [ClosedKept]_vars
  BY ClosedStep
<1>5. Spec => [][ClosedKept]_vars
  BY <1>1, <1>2, <1>3, <1>4, ExclusiveInit, LedgerTypes, RowsNumbered, PTL DEF Spec
<1> QED BY <1>5 DEF ClosedKept, ClosedBooksKept

-----------------------------------------------------------------------------
(* Cached balances.                                                         *)

RowsFor(d, a) == {row \in d.rows : row.acct = a}
Total(d, a) == Amounts(RowsFor(d, a))
Ends(a, row) ==
  row \in RowsFor(db, a) /\ (\A x \in RowsFor(db, a) : x.id <= row.id) /\ row.run = db.acct[a].balance
BalanceKept(a) ==
  /\ db.acct[a].balance = Signed(db.acct[a].kind, Total(db, a))
  /\ RowsFor(db, a) # {} => \E row : Ends(a, row)
Balances == \A a \in Accounts : BalanceKept(a)
(* What requests hold of the chart is what it is.                           *)
ChartRead ==
  \A r \in Requests :
    LET c == req[r]
    IN /\ c.op \in {"create", "post", "reverse"} => c.kind = KindNow
       /\ c.op = "toggle" => c.row.kind = db.acct[c.a].kind /\ c.row.balance = db.acct[c.a].balance
ChartAlone == {"toggle", "update"} \cap Overlapping = {}

LEMMA SignedSum ==
  ASSUME NEW k, NEW x \in Int, NEW y \in Int
  PROVE  Signed(k, x + y) = Signed(k, x) + Signed(k, y)
  BY DEF Signed

LEMMA SignedByType ==
  ASSUME NEW k \in Kinds, NEW j \in Kinds, TypeOf(k) = TypeOf(j), NEW x
  PROVE  Signed(k, x) = Signed(j, x)
<1>1. \A i \in Kinds : DebitNormal(i) <=> TypeOf(i) \in {"asset", "expense"}
  BY DEF Kinds, DebitNormal, TypeOf, Assets, CashKinds, OtherAssets, Liabilities, Equity, Revenue,
         Expense
<1> QED BY <1>1 DEF Signed

LEMMA RowsForTyped ==
  ASSUME TypeOK, NEW a
  PROVE  /\ RowsFor(db, a) \subseteq LedgerRow /\ IsFiniteSet(RowsFor(db, a))
         /\ Total(db, a) \in Int
<1>1. RowsFor(db, a) \in SUBSET db.rows /\ IsFiniteSet(db.rows) /\ db.rows \subseteq LedgerRow
  BY DbFields DEF TypeOK, RowsFor
<1>2. RowsFor(db, a) \subseteq LedgerRow /\ IsFiniteSet(RowsFor(db, a))
  BY <1>1, FS_Subset
<1> QED BY <1>2, AmountsInt DEF Total

LEMMA BalancesRemarked ==
  ASSUME TypeOK, RowIds, Balances, NEW M, Remarked(M)
  PROVE  Balances'
<1> SUFFICES ASSUME NEW a \in Accounts PROVE BalanceKept(a)'
  BY DEF Balances
<1>1. \A row \in db.rows : /\ Marked(row, M).acct = row.acct /\ Marked(row, M).id = row.id
                           /\ Marked(row, M).run = row.run
  BY DbFields, MarkedFields DEF TypeOK, Remarked
<1>2. RowsFor(db', a) = {Marked(row, M) : row \in RowsFor(db, a)}
  <2>1. db'.rows = {Marked(row, M) : row \in db.rows}
    BY DEF Remarked
  <2> QED BY <1>1, <2>1 DEF RowsFor
<1>3. Total(db', a) = Total(db, a)
  <2>1. RowsFor(db, a) \in SUBSET db.rows
    BY DEF RowsFor
  <2> QED BY <1>2, <2>1, AmountsRemarked DEF Total
<1>4. db'.acct[a] = db.acct[a] /\ BalanceKept(a)
  BY DEF Remarked, Balances
<1>5. ASSUME RowsFor(db', a) # {}
      PROVE  \E row : Ends(a, row)'
  <2>1. RowsFor(db, a) # {}
    BY <1>2, <1>5
  <2>2. PICK row : Ends(a, row)
    BY <1>4, <2>1 DEF BalanceKept
  <2>3. row \in RowsFor(db, a) /\ \A x \in RowsFor(db, a) : x \in db.rows
    BY <2>2 DEF Ends, RowsFor
  <2>4. Marked(row, M) \in RowsFor(db', a) /\ Marked(row, M).id = row.id /\ Marked(row, M).run = row.run
    BY <1>1, <1>2, <2>3
  <2>5. \A x \in RowsFor(db', a) : x.id <= Marked(row, M).id
    BY <1>1, <1>2, <2>2, <2>3, <2>4 DEF Ends
  <2>6. Ends(a, Marked(row, M))'
    BY <1>4, <2>2, <2>4, <2>5 DEF Ends
  <2> QED BY <2>6
<1> QED BY <1>3, <1>4, <1>5 DEF BalanceKept

LEMMA BalancesPosted ==
  ASSUME TypeOK, RowIds, Balances, NEW n \in Nat, NEW e \in Entry, Posts(n, e, KindNow)
  PROVE  Balances'
<1> SUFFICES ASSUME NEW a \in Accounts PROVE BalanceKept(a)'
  BY DEF Balances
<1> DEFINE N == NewRows(db, n, e, KindNow)
           k == db.acct[a].kind
<1>1. /\ db'.rows = db.rows \cup N
      /\ db'.acct[a].kind = k
      /\ db'.acct[a].balance = PostedBalance(db, e, KindNow, a)
  BY DEF Posts
<1>2. KindNow \in KindMap /\ KindNow[a] = k /\ db \in Database /\ IsFiniteSet(db.rows)
  BY EntriesTyped DEF TypeOK
<1>3. BalanceKept(a)
  BY DEF Balances
<1>4. N = {NewRow(db, n, e, KindNow, b) : b \in Touched(e.lines)}
  BY DEF NewRows
<1>5. \A b \in Touched(e.lines) : NewRow(db, n, e, KindNow, b).acct = b
  <2>1. KindNow \in KindMap /\ db \in Database /\ IsFiniteSet(db.rows)
    BY <1>2
  <2>2. PICK kind \in KindMap : kind = KindNow
    BY <2>1
  <2>3. \A b \in Touched(e.lines) : NewRow(db, n, e, kind, b).acct = b
    BY <2>1, NewRowFields
  <2> QED BY <2>2, <2>3
<1>6. CASE a \notin Touched(e.lines)
  <2>1. \A x \in N : x.acct # a
    BY <1>4, <1>5, <1>6
  <2>2. RowsFor(db', a) = RowsFor(db, a)
    BY <1>1, <2>1 DEF RowsFor
  <2>3. db'.acct[a].balance = db.acct[a].balance
    BY <1>1, <1>6 DEF PostedBalance
  <2>4. \A row : Ends(a, row) => Ends(a, row)'
    BY <2>2, <2>3 DEF Ends
  <2> QED BY <1>1, <1>3, <2>2, <2>3, <2>4 DEF BalanceKept, Total
<1>7. CASE a \in Touched(e.lines)
  <2> DEFINE x == NewRow(db, n, e, KindNow, a)
             amt == e.lines[a]
             S == RowsFor(db, a)
  <2>1. /\ x \in LedgerRow /\ x.acct = a /\ x.amt = amt /\ x \in N
        /\ x.run = db.acct[a].balance + Signed(k, amt)
    BY <1>2, <1>4, <1>7, NewRowFields
  <2>2. amt \in Int
    BY EntryFields
  <2>3. RowsFor(db', a) = S \cup {x}
    <3>1. \A y \in N : y.acct = a => y = x
      BY <1>4, <1>5
    <3> HIDE DEF x, N
    <3> QED BY <1>1, <2>1, <3>1 DEF RowsFor
  <2>4. x \notin S /\ \A y \in S : y.id < x.id
    <3>1. N \cap db.rows = {} /\ Cardinality(db.rows) < x.id /\ Cardinality(db.rows) \in Nat
      BY <1>2, <2>1, NewIds
    <3>2. \A y \in S : y \in db.rows /\ y.id <= Cardinality(db.rows) /\ y.id \in Nat
      BY RowsForTyped, RowFields DEF RowIds, RowsFor
    <3>3. x.id \in Nat
      BY <2>1, RowFields
    <3> HIDE DEF x, N
    <3> QED BY <2>1, <3>1, <3>2, <3>3
  <2>5. S \subseteq LedgerRow /\ IsFiniteSet(S) /\ Total(db, a) \in Int
    BY RowsForTyped
  <2> HIDE DEF x, S, amt, N, k
  <2>6. Amounts(S \cup {x}) = amt + Amounts(S)
    <3> DEFINE f == [y \in S \cup {x} |-> y.amt]
               g == [y \in S |-> y.amt]
    <3>1. \A y \in S \cup {x} : y.amt \in Int
      BY <2>1, <2>5, RowFields
    <3>2. (\A y \in S \cup {x} : f[y] \in Int) /\ f[x] = amt /\ \A y \in S : f[y] = g[y]
      BY <2>1, <3>1
    <3> HIDE DEF f, g
    <3>3. Sum(f, S \cup {x}) = f[x] + Sum(f, S)
      BY <2>4, <2>5, <3>2, SumAdd
    <3>4. Sum(f, S) = Sum(g, S)
      BY <2>5, <3>2, SumSame
    <3> QED BY <3>2, <3>3, <3>4 DEF Amounts, f, g
  <2>7. Total(db', a) = amt + Total(db, a)
    BY <2>3, <2>6 DEF Total, S
  <2>8. db'.acct[a].balance = db.acct[a].balance + Signed(k, amt)
    BY <1>1, <1>2, <1>7 DEF PostedBalance, amt
  <2>9. db'.acct[a].balance = Signed(k, Total(db', a))
    <3>1. Signed(k, Total(db, a) + amt) = Signed(k, Total(db, a)) + Signed(k, amt)
      BY <2>2, <2>5, SignedSum
    <3>2. Total(db, a) + amt = amt + Total(db, a)
      BY <2>2, <2>5
    <3>3. db.acct[a].balance = Signed(k, Total(db, a))
      BY <1>3 DEF BalanceKept, k
    <3> QED BY <2>7, <2>8, <3>1, <3>2, <3>3
  <2>10. \E row : Ends(a, row)'
    <3>1. \A y \in S \cup {x} : y.id <= x.id
      <4>1. x.id \in Nat /\ \A y \in S : y.id \in Nat
        BY <2>1, <2>5, RowFields
      <4> QED BY <2>4, <4>1
    <3>2. PICK row : row = x
      OBVIOUS
    <3>3. /\ row \in RowsFor(db', a) /\ row.run = db'.acct[a].balance
          /\ \A y \in RowsFor(db', a) : y.id <= row.id
      BY <2>1, <2>3, <2>8, <3>1, <3>2
    <3>4. Ends(a, row)'
      BY <3>3 DEF Ends
    <3> QED BY <3>4
  <2> QED BY <1>1, <2>9, <2>10 DEF BalanceKept
<1> QED BY <1>6, <1>7

(* Kinds and balances of the accounts stay, or are changed as the ledger    *)
(* allows.                                                                  *)
LEMMA BalancesKeptBy ==
  ASSUME TypeOK, Balances, db'.rows = db.rows, NEW a \in Accounts,
         db'.acct[a].kind = db.acct[a].kind /\ db'.acct[a].balance = db.acct[a].balance
  PROVE  BalanceKept(a)'
<1>1. RowsFor(db', a) = RowsFor(db, a) /\ BalanceKept(a)
  BY DEF RowsFor, Balances
<1>2. \A row : Ends(a, row) => Ends(a, row)'
  BY <1>1 DEF Ends
<1> QED BY <1>1, <1>2 DEF BalanceKept, Total

LEMMA BalancesUpdated ==
  ASSUME TypeOK, Balances, NEW r \in Requests, UpdateEffect(r)
  PROVE  Balances'
<1> SUFFICES ASSUME NEW a \in Accounts PROVE BalanceKept(a)'
  BY DEF Balances
<1> DEFINE c == req[r]
           old == db.acct[c.a]
<1>1. /\ c \in UpdateCall /\ (TypeOf(c.kind) # TypeOf(old.kind) => ~InUse(db, c.a))
  BY DEF UpdateEffect
<1>2. PICK row : AccountDone(c.a, row) /\ row.kind = c.kind /\ row.balance = old.balance
  BY DEF UpdateEffect
<1>3. db'.rows = db.rows /\ db'.acct[c.a] = row /\ \A b \in Accounts \ {c.a} : db'.acct[b] = db.acct[b]
  BY <1>2 DEF AccountDone, Ledgered
<1>4. CASE a # c.a
  BY <1>3, <1>4, BalancesKeptBy
<1>5. CASE a = c.a
  <2>1. c.kind \in Kinds /\ old.kind \in Kinds
    <3>1. c.kind \in Kinds /\ c.a \in Accounts
      BY <1>1 DEF UpdateCall
    <3>2. old \in Account
      BY <3>1, EntriesTyped
    <3> QED BY <3>1, <3>2, AccountFields
  <2>2. BalanceKept(a) /\ RowsFor(db', a) = RowsFor(db, a)
    BY <1>3 DEF Balances, RowsFor
  <2>3. db'.acct[a].kind = c.kind /\ db'.acct[a].balance = old.balance /\ old = db.acct[a]
    BY <1>2, <1>3, <1>5
  <2>4. \A x : Ends(a, x) => Ends(a, x)'
    BY <2>2, <2>3 DEF Ends
  <2>5. old.balance = Signed(c.kind, Total(db, a))
    <3>1. old.balance = Signed(old.kind, Total(db, a))
      BY <2>2, <2>3 DEF BalanceKept
    <3>2. CASE TypeOf(c.kind) = TypeOf(old.kind)
      BY <2>1, <3>1, <3>2, SignedByType
    <3>3. CASE TypeOf(c.kind) # TypeOf(old.kind)
      <4>1. RowsFor(db, a) = {}
        BY <1>1, <1>5, <3>3 DEF InUse, RowsFor
      <4>2. Total(db, a) = 0
        BY <4>1, SumEmpty DEF Total, Amounts
      <4> QED BY <3>1, <4>2 DEF Signed
    <3> QED BY <3>2, <3>3
  <2> QED BY <2>2, <2>3, <2>4, <2>5 DEF BalanceKept, Total
<1> QED BY <1>4, <1>5

LEMMA BalancesStep ==
  ASSUME TypeOK, RowIds, ChartRead, Balances, [Next]_vars
  PROVE  Balances'
<1>1. CASE db' = db
  BY <1>1 DEF Balances, BalanceKept, Ends
<1>2. ASSUME NEW r \in Requests, Served(r)
      PROVE  Balances'
  <2>1. ASSUME NEW M, Remarked(M) PROVE Balances'
    BY <2>1, BalancesRemarked
  <2>2. CASE PostedBy(r)
    <3>1. PICK n \in Nat, e \in Entry : Posts(n, e, req[r].kind) /\ Writes(r, e)
      BY <2>2 DEF PostedBy
    <3>2. req[r].kind = KindNow
      BY <3>1 DEF Writes, ChartRead
    <3> QED BY <3>1, <3>2, BalancesPosted
  <2>3. CASE Quiet(r)
    <3>a. db'.rows = db.rows
      BY <2>3 DEF Quiet
    <3>1. CASE Unposted
      BY <3>a, <3>1, BalancesKeptBy DEF Unposted, Balances
    <3>2. CASE StatusDone(r)
      <4>1. PICK b \in Accounts : \E row : /\ AccountDone(b, row) /\ row.kind = db.acct[b].kind
                                           /\ row.balance = db.acct[b].balance
        BY <3>2 DEF StatusDone
      <4> QED BY <3>a, <4>1, BalancesKeptBy DEF AccountDone, Balances
    <3>3. CASE req[r].op = "toggle" /\ ToggleEffect(r)
      <4>1. PICK row : /\ AccountDone(req[r].a, row) /\ row.kind = req[r].row.kind
                       /\ row.balance = req[r].row.balance
        BY <3>3 DEF ToggleEffect
      <4>2. /\ req[r].row.kind = db.acct[req[r].a].kind
            /\ req[r].row.balance = db.acct[req[r].a].balance
        BY <3>3 DEF ChartRead
      <4> QED BY <3>a, <4>1, <4>2, BalancesKeptBy DEF AccountDone, Balances
    <3>4. CASE CloseEffect(r)
      BY <3>a, <3>4, BalancesKeptBy DEF CloseEffect, Balances
    <3> QED BY <2>3, <3>1, <3>2, <3>3, <3>4, BalancesUpdated DEF Quiet
  <2> QED BY <1>2, <2>1, <2>2, <2>3, RowEffects
<1> QED BY <1>1, <1>2, Steps DEF AskedFor, Ask, Drawn, Dropped, vars

LEMMA KindsStay ==
  ASSUME TypeOK, NEW r \in Requests, Served(r), req[r].op \notin {"toggle", "update"}
  PROVE  KindNow' = KindNow
<1>1. \A a \in Accounts : db'.acct[a].kind = db.acct[a].kind
  <2>1. CASE CreateDone(r) \/ PostEffect(r) \/ ReverseEffect(r) \/ DiscardEffect(r)
    BY <2>1 DEF CreateDone, PostEffect, ReverseEffect, DiscardEffect, Unposted, Posts
  <2>2. CASE StatusDone(r)
    BY <2>2 DEF StatusDone, AccountDone
  <2>3. CASE CloseEffect(r) \/ ReconcileEffect(r) \/ UndoEffect(r)
    BY <2>3 DEF CloseEffect, ReconcileEffect, UndoEffect, Remarked
  <2> QED BY <2>1, <2>2, <2>3 DEF Served, Effect
<1> QED BY <1>1 DEF KindNow, KindOf

LEMMA ChartReadStep ==
  ASSUME ChartAlone, TypeOK, Exclusive, ChartRead, [Next]_vars
  PROVE  ChartRead'
<1>1. CASE UNCHANGED vars
  BY <1>1 DEF ChartRead, KindNow, KindOf, vars
<1>2. CASE Next
  <2>1. PICK r \in Requests :
          (\E c : AskedFor(r, c)) \/ (\E x : Drawn(r, x)) \/ Served(r) \/ Dropped(r)
    BY <1>2, Steps
  <2>2. ASSUME NEW c, AskedFor(r, c)
        PROVE  ChartRead'
    <3>1. /\ c.op \in {"create", "post", "reverse"} => c.kind = KindNow
          /\ c.op = "toggle" => c.row = db.acct[c.a]
      BY <2>2 DEF AskedFor, ReadNow
    <3>2. KindNow' = KindNow
      BY <2>2, AfterAsking DEF KindNow
    <3> QED BY <2>2, <3>1, <3>2, AfterAsking DEF ChartRead
  <2>3. ASSUME NEW x, Drawn(r, x)
        PROVE  ChartRead'
    <3>1. KindNow' = KindNow
      BY <2>3, AfterDrawing DEF KindNow
    <3> QED BY <2>3, <3>1, AfterDrawing DEF ChartRead
  <2>4. CASE Dropped(r)
    <3>1. db' = db /\ KindNow' = KindNow
      BY <2>4, AfterServing DEF KindNow
    <3> QED BY <2>4, <3>1, AfterServing DEF ChartRead, Busy
  <2>5. CASE Served(r)
    <3> SUFFICES ASSUME NEW q \in Requests \ {r}, Busy(q)
                 PROVE  /\ req[q].op \in {"create", "post", "reverse"} => req[q].kind = KindNow'
                        /\ req[q].op # "toggle"
      BY <2>5, AfterServing DEF ChartRead, Busy
    <3>1. {req[r].op, req[q].op} \subseteq Overlapping
      BY <2>5, AfterServing DEF Exclusive
    <3>2. req[q].op # "toggle" /\ req[r].op \notin {"toggle", "update"}
      BY <3>1 DEF ChartAlone
    <3>3. KindNow' = KindNow
      BY <2>5, <3>2, KindsStay
    <3> QED BY <3>2, <3>3 DEF ChartRead
  <2> QED BY <2>1, <2>2, <2>3, <2>4, <2>5
<1> QED BY <1>1, <1>2

LEMMA BalancesInit == ASSUME Init PROVE Balances /\ ChartRead
<1>1. ChartRead
  BY IdleIs DEF Init, ChartRead
<1>2. \A a \in Accounts : RowsFor(db, a) = {} /\ db.acct[a].balance = 0
  BY DEF Init, RowsFor
<1>3. \A a \in Accounts : Total(db, a) = 0
  BY <1>2, SumEmpty DEF Total, Amounts
<1>4. Balances
  BY <1>2, <1>3 DEF Balances, BalanceKept, Signed
<1> QED BY <1>1, <1>4

LEMMA CachedBalancesHold ==
  ASSUME TypeOK, RowIds, Balances
  PROVE  CachedBalances
<1> SUFFICES ASSUME NEW a \in Accounts
             PROVE  /\ db.acct[a].balance
                         = Signed(db.acct[a].kind, Amounts({row \in db.rows : row.acct = a}))
                    /\ (\E row \in db.rows : row.acct = a) => LastRow(a).run = db.acct[a].balance
  BY DEF CachedBalances
<1>1. BalanceKept(a)
  BY DEF Balances
<1>2. ASSUME NEW one \in db.rows, one.acct = a
      PROVE  LastRow(a).run = db.acct[a].balance
  <2>1. RowsFor(db, a) # {}
    BY <1>2 DEF RowsFor
  <2>2. PICK row : Ends(a, row)
    BY <1>1, <2>1 DEF BalanceKept
  <2>3. row \in db.rows /\ row.acct = a /\ \A x \in db.rows : x.acct = a => x.id <= row.id
    BY <2>2 DEF Ends, RowsFor
  <2>4. \A x \in db.rows : x.acct = a /\ (\A y \in db.rows : y.acct = a => y.id <= x.id) => x = row
    <3> SUFFICES ASSUME NEW x \in db.rows, x.acct = a, \A y \in db.rows : y.acct = a => y.id <= x.id
                 PROVE  x = row
      OBVIOUS
    <3>1. x.id <= row.id /\ row.id <= x.id
      BY <2>3
    <3>2. x.id \in Nat /\ row.id \in Nat
      BY <2>3, DbFields, RowFields DEF TypeOK
    <3>3. x.id = row.id
      BY <3>1, <3>2
    <3> QED BY <2>3, <3>3 DEF RowIds
  <2>5. LastRow(a) = row
    BY <2>3, <2>4 DEF LastRow
  <2> QED BY <2>2, <2>5 DEF Ends
<1> QED BY <1>1, <1>2 DEF BalanceKept, Total, RowsFor

(* Any number of postings, reversals and openings may overlap, as long as   *)
(* no account is toggled or retyped among them: every account's balance is  *)
(* what its rows add up to and what its last row says.                      *)
THEOREM BalancesAreCached == ChartAlone /\ Spec => []CachedBalances
<1> SUFFICES ASSUME ChartAlone
             PROVE  Spec => []CachedBalances
  OBVIOUS
<1>1. TypeOK /\ Exclusive /\ [Next]_vars => Exclusive'
  BY ExclusiveStep
<1>2. TypeOK /\ Exclusive /\ ChartRead /\ [Next]_vars => ChartRead'
  BY ChartReadStep
<1>3. TypeOK /\ RowIds /\ ChartRead /\ Balances /\ [Next]_vars => Balances'
  BY BalancesStep
<1>4. Init => Balances /\ ChartRead
  BY BalancesInit
<1>5. TypeOK /\ RowIds /\ Balances => CachedBalances
  BY CachedBalancesHold
<1> QED BY <1>1, <1>2, <1>3, <1>4, <1>5, ExclusiveInit, LedgerTypes, RowsNumbered, PTL DEF Spec

-----------------------------------------------------------------------------
(* References.                                                              *)

Count == Len(db.entries)
(* How the entries change: one more, one replaced, both, or not at all.     *)
OneMore(e) ==
  /\ Len(db'.entries) = Count + 1 /\ db'.entries[Count + 1] = e
  /\ \A n \in 1 .. Count : db'.entries[n] = db.entries[n]
OneReplaced(k, e) ==
  /\ Len(db'.entries) = Count
  /\ \A n \in 1 .. Count : db'.entries[n] = IF n = k THEN e ELSE db.entries[n]
OneReversed(k, void, e) ==
  /\ Len(db'.entries) = Count + 1 /\ db'.entries[Count + 1] = e
  /\ \A n \in 1 .. Count : db'.entries[n] = IF n = k THEN void ELSE db.entries[n]
Like(x, e) == x \in Entry /\ x.ref = e.ref /\ x.lines = e.lines /\ x.day = e.day /\ x.of = e.of
EntriesGo(r) ==
  LET c == req[r]
  IN \/ /\ c.op = "create" /\ c.ref # 0 /\ c.e \in Entry /\ c.kind \in KindMap
        /\ \E e \in Entry : /\ e.ref = c.ref /\ e.lines = c.e.lines /\ e.day = c.e.day
                            /\ e.status = c.e.status /\ e.of = c.e.of
                            /\ OneMore(e)
                            /\ IF e.status = "posted" THEN Posts(Count + 1, e, c.kind)
                               ELSE Unposted
     \/ /\ c.op = "post" /\ c.kind \in KindMap
        /\ \E e \in Entry : Like(e, c.e) /\ e.status = "posted" /\ OneReplaced(c.n, e)
                            /\ Posts(c.n, e, c.kind)
     \/ /\ c.op = "reverse" /\ c.ref # 0 /\ c.kind \in KindMap
        /\ \E e, void \in Entry :
             /\ Like(void, c.e) /\ void.status = "void"
             /\ e.ref = c.ref /\ e.of = c.n /\ e.status = "posted" /\ e.day = Today
             /\ \A a \in Accounts : e.lines[a] = -c.e.lines[a]
             /\ c.n # Count + 1 => OneReversed(c.n, void, e)
             /\ Posts(Count + 1, e, c.kind)
     \/ /\ c.op = "discard"
        /\ \E e \in Entry : Like(e, c.e) /\ e.status = "void" /\ OneReplaced(c.n, e) /\ Unposted
     \/ c.op \notin {"create", "post", "reverse", "discard"} /\ db'.entries = db.entries
        /\ (db'.rows = db.rows \/ \E M : Remarked(M))

LEMMA EntriesDo ==
  ASSUME TypeOK, NEW r \in Requests, Served(r)
  PROVE  EntriesGo(r)
<1> DEFINE c == req[r]
<1>1. /\ db.entries \in Seq(Entry) /\ Count \in Nat /\ Count = Len(db.entries)
  BY DbFields DEF TypeOK, Count
<1>2. CASE c.op = "create" /\ CreateDone(r)
  <2>1. c \in CreateCall /\ c.ref # 0
    BY <1>2 DEF CreateDone
  <2>2. PICK old \in Entry, n \in Nat : old = c.e /\ n = c.ref
    BY <2>1 DEF CreateCall
  <2>3. PICK e : e = [old EXCEPT !.ref = n]
    OBVIOUS
  <2>4. /\ e \in Entry /\ e.ref = n /\ e.lines = old.lines /\ e.day = old.day
        /\ e.status = old.status /\ e.of = old.of
    BY <2>3, EntryWithRef
  <2>5. db'.entries = Append(db.entries, e)
        /\ IF e.status = "posted" THEN Posts(Count + 1, e, c.kind) ELSE Unposted
    BY <1>1, <1>2, <2>2, <2>3 DEF CreateDone
  <2>6. OneMore(e)
    BY <1>1, <2>4, <2>5, EntriesAppended DEF OneMore
  <2>7. c.kind \in KindMap
    BY <2>1 DEF CreateCall
  <2> QED BY <1>2, <2>1, <2>2, <2>4, <2>5, <2>6, <2>7 DEF EntriesGo
<1>3. CASE c.op = "post" /\ PostEffect(r)
  <2>1. c \in PostCall
    BY <1>3 DEF PostEffect
  <2>2. PICK old \in Entry : old = c.e
    BY <2>1 DEF PostCall
  <2>3. PICK e : e = [old EXCEPT !.status = "posted"]
    OBVIOUS
  <2>4. Like(e, old) /\ e.status = "posted" /\ e \in Entry
    BY <2>3, EntryWithStatus DEF Like
  <2>5. db'.entries = [db.entries EXCEPT ![c.n] = e] /\ Posts(c.n, e, c.kind)
    BY <1>3, <2>2, <2>3 DEF PostEffect
  <2>6. OneReplaced(c.n, e)
    BY <1>1, <2>4, <2>5, EntriesReplaced DEF OneReplaced
  <2>7. c.kind \in KindMap
    BY <2>1 DEF PostCall
  <2> QED BY <1>3, <2>2, <2>4, <2>5, <2>6, <2>7 DEF EntriesGo
<1>4. CASE c.op = "reverse" /\ ReverseEffect(r)
  <2>1. c \in VoidCall /\ c.ref # 0
    BY <1>4 DEF ReverseEffect
  <2>2. PICK old \in Entry, n \in Nat, ref \in Nat : old = c.e /\ n = c.n /\ ref = c.ref
    BY <2>1 DEF VoidCall
  <2>3. PICK e : e = Reversal(old, n, ref)
    OBVIOUS
  <2>4. /\ Reversal(old, n, ref) \in Entry /\ Reversal(old, n, ref).day = Today
        /\ Reversal(old, n, ref).status = "posted" /\ Reversal(old, n, ref).of = n
        /\ Reversal(old, n, ref).ref = ref
        /\ \A a \in Accounts : Reversal(old, n, ref).lines[a] = -old.lines[a]
    BY ReversalIs
  <2>5. PICK void : void = [old EXCEPT !.status = "void"]
    OBVIOUS
  <2>6. Like(void, old) /\ void.status = "void" /\ void \in Entry
    BY <2>5, EntryWithStatus DEF Like
  <2>7. db'.entries = [Append(db.entries, e) EXCEPT ![n] = void] /\ Posts(Count + 1, e, c.kind)
    BY <1>1, <1>4, <2>2, <2>3, <2>5 DEF ReverseEffect
  <2>8. e \in Entry
    BY <2>3, <2>4
  <2>9. n # Count + 1 => OneReversed(n, void, e)
    <3> SUFFICES ASSUME n # Count + 1 PROVE OneReversed(n, void, e)
      OBVIOUS
    <3>1. PICK s : s = Append(db.entries, e)
      OBVIOUS
    <3>2. /\ s \in Seq(Entry) /\ Len(s) = Count + 1 /\ s[Count + 1] = e
          /\ \A m \in 1 .. Count : s[m] = db.entries[m]
      BY <1>1, <2>8, <3>1, EntriesAppended
    <3>3. /\ Len(db'.entries) = Count + 1
          /\ \A m \in 1 .. Count + 1 : db'.entries[m] = IF m = n THEN void ELSE s[m]
      BY <2>6, <2>7, <3>1, <3>2, EntriesReplaced
    <3> QED BY <1>1, <3>2, <3>3 DEF OneReversed
  <2>10. c.kind \in KindMap
    BY <2>1 DEF VoidCall
  <2>11. /\ e.ref = ref /\ e.of = n /\ e.status = "posted" /\ e.day = Today
         /\ \A a \in Accounts : e.lines[a] = -old.lines[a]
    BY <2>3, <2>4
  <2> QED BY <1>4, <2>1, <2>2, <2>6, <2>7, <2>8, <2>9, <2>10, <2>11 DEF EntriesGo
<1>5. CASE c.op = "discard" /\ DiscardEffect(r)
  <2>1. c \in VoidCall
    BY <1>5 DEF DiscardEffect
  <2>2. PICK old \in Entry : old = c.e
    BY <2>1 DEF VoidCall
  <2>3. PICK e : e = [old EXCEPT !.status = "void"]
    OBVIOUS
  <2>4. Like(e, old) /\ e.status = "void" /\ e \in Entry
    BY <2>3, EntryWithStatus DEF Like
  <2>5. db'.entries = [db.entries EXCEPT ![c.n] = e] /\ Unposted
    BY <1>5, <2>2, <2>3 DEF DiscardEffect
  <2>6. OneReplaced(c.n, e)
    BY <1>1, <2>4, <2>5, EntriesReplaced DEF OneReplaced
  <2> QED BY <1>5, <2>2, <2>4, <2>5, <2>6 DEF EntriesGo
<1>6. CASE c.op \in {"open", "remove"} /\ StatusDone(r)
  BY <1>6 DEF StatusDone, AccountDone, Ledgered, EntriesGo
<1>7. CASE c.op = "toggle" /\ ToggleEffect(r)
  BY <1>7 DEF ToggleEffect, AccountDone, Ledgered, EntriesGo
<1>8. CASE c.op = "update" /\ UpdateEffect(r)
  BY <1>8 DEF UpdateEffect, AccountDone, Ledgered, EntriesGo
<1>9. CASE c.op = "close" /\ CloseEffect(r)
  BY <1>9 DEF CloseEffect, Ledgered, EntriesGo
<1>10. CASE c.op = "reconcile" /\ ReconcileEffect(r)
  BY <1>10 DEF ReconcileEffect, Remarked, EntriesGo
<1>11. CASE c.op = "undo" /\ UndoEffect(r)
  BY <1>11 DEF UndoEffect, Remarked, EntriesGo
<1> QED
  BY <1>2, <1>3, <1>4, <1>5, <1>6, <1>7, <1>8, <1>9, <1>10, <1>11 DEF Served, Effect

(* The holder of the company's row, and it alone, has drawn a reference:    *)
(* one more than there are entries.  Entries are numbered by theirs.        *)
Numbered ==
  /\ \A n \in 1 .. Count : db.entries[n].ref = n
  /\ \A r \in Requests :
       LET c == req[r]
       IN /\ c.op \in {"create", "reverse"} /\ c.ref # 0 => holder = r /\ c.ref = Count + 1
          /\ c.op \in {"post", "reverse", "discard"} => c.n \in 1 .. Count /\ c.e.ref = c.n

LEMMA CountIs ==
  ASSUME TypeOK
  PROVE  Count \in Nat /\ DOMAIN db.entries = 1 .. Count
         /\ \A n \in 1 .. Count : db.entries[n] \in Entry
  BY EntriesTyped DEF Count

LEMMA NumberedAsked ==
  ASSUME TypeOK, Numbered, NEW r \in Requests, NEW c, AskedFor(r, c)
  PROVE  Numbered'
<1>1. ReadNow(c) /\ Undrawn(c) /\ Ask(r, c)
  BY DEF AskedFor
<1>2. holder' = holder /\ Count' = Count
  BY <1>1 DEF Ask, Count
<1>3. c.op \in {"post", "reverse", "discard"} => c.n \in 1 .. Count /\ c.e.ref = c.n
  <2>1. CASE c.op = "post"
    <3>1. c.n \in 1 .. Count /\ db.entries[c.n] \in Entry
      BY <1>1, <2>1, CountIs DEF ReadNow
    <3>2. PICK e : e = [db.entries[c.n] EXCEPT !.src = "journal_entry"]
      OBVIOUS
    <3>3. e.ref = db.entries[c.n].ref
      <4>1. PICK old \in Entry, t \in Texts : old = db.entries[c.n] /\ t = "journal_entry"
        BY <3>1 DEF Texts
      <4>2. e = [old EXCEPT !.src = t]
        BY <3>2, <4>1
      <4> QED BY <4>1, <4>2, EntryWithSource
    <3> QED BY <1>1, <2>1, <3>1, <3>2, <3>3 DEF ReadNow, Numbered
  <2>2. CASE c.op \in {"reverse", "discard"}
    BY <1>1, <2>2, CountIs DEF ReadNow, Numbered
  <2> QED BY <2>1, <2>2
<1>4. c.op \in {"create", "reverse"} => c.ref = 0
  BY <1>1 DEF Undrawn
<1> QED BY <1>2, <1>3, <1>4, AfterAsking DEF Numbered

LEMMA NumberedDrawn ==
  ASSUME TypeOK, Numbered, NEW r \in Requests, NEW x, Drawn(r, x)
  PROVE  Numbered'
<1>1. holder = Nobody /\ holder' = r /\ Count' = Count /\ x.ref = Count + 1
  BY DEF Drawn, MayDraw, Count
<1>2. \A q \in Requests : req[q].op \in {"create", "reverse"} => req[q].ref = 0
  BY <1>1, GeneralLedgerAssumption DEF Numbered
<1>3. /\ req'[r] = x /\ db' = db /\ x.op = req[r].op /\ x.op \in {"create", "reverse"}
      /\ x.e = req[r].e
      /\ x.op = "reverse" => x.n = req[r].n
      /\ \A q \in Requests \ {r} : req'[q] = req[q]
  BY AfterDrawing
<1> QED BY <1>1, <1>2, <1>3 DEF Numbered

LEMMA NumberedServed ==
  ASSUME TypeOK, Numbered, NEW r \in Requests, Served(r)
  PROVE  Numbered'
<1> DEFINE c == req[r]
<1>1. Count \in Nat /\ Count' = Len(db'.entries)
  BY CountIs DEF Count
<1>2. /\ holder' = (IF holder = r THEN Nobody ELSE holder)
      /\ req'[r].op = "idle" /\ \A q \in Requests \ {r} : req'[q] = req[q]
  BY AfterServing DEF Served, Finished, Busy
<1>3. /\ c.op \in {"create", "reverse"} /\ c.ref # 0 => holder = r /\ c.ref = Count + 1
      /\ c.op \in {"post", "reverse", "discard"} => c.n \in 1 .. Count /\ c.e.ref = c.n
  BY DEF Numbered
<1>4. /\ Count' \in {Count, Count + 1} /\ \A n \in 1 .. Count' : db'.entries[n].ref = n
      /\ Count' = Count + 1 => holder = r
  <2> HIDE DEF c
  <2>0. \A n \in 1 .. Count : db.entries[n].ref = n
    BY DEF Numbered
  <2>a. EntriesGo(r)
    BY EntriesDo
  <2>1. CASE c.op = "create"
    <3>1. PICK e \in Entry : e.ref = c.ref /\ OneMore(e)
      BY <2>1, <2>a DEF EntriesGo, c
    <3>2. c.ref # 0
      BY <2>1, <2>a DEF EntriesGo, c
    <3> QED BY <1>1, <1>3, <2>0, <2>1, <3>1, <3>2 DEF OneMore
  <2>2. CASE c.op \in {"post", "discard"}
    <3>1. PICK e \in Entry : Like(e, c.e) /\ OneReplaced(c.n, e)
      BY <2>2, <2>a DEF EntriesGo, c
    <3> QED BY <1>1, <1>3, <2>0, <2>2, <3>1 DEF OneReplaced, Like
  <2>3. CASE c.op = "reverse"
    <3>1. /\ c.n \in 1 .. Count /\ c.ref # 0
          /\ \E e, void \in Entry : e.ref = c.ref /\ Like(void, c.e) /\ OneReversed(c.n, void, e)
      BY <1>1, <1>3, <2>3, <2>a DEF EntriesGo, c
    <3>2. PICK e \in Entry, void \in Entry :
            e.ref = c.ref /\ Like(void, c.e) /\ OneReversed(c.n, void, e)
      BY <3>1
    <3> QED BY <1>1, <1>3, <2>0, <2>3, <3>1, <3>2 DEF OneReversed, Like
  <2>4. CASE db'.entries = db.entries
    <3>1. Count' = Count
      BY <2>4 DEF Count
    <3> QED BY <1>1, <2>0, <2>4, <3>1
  <2>5. c.op \in {"create", "post", "reverse", "discard"} \/ db'.entries = db.entries
    BY <2>a DEF EntriesGo, c
  <2> QED BY <2>1, <2>2, <2>3, <2>4, <2>5
<1>5. ASSUME NEW q \in Requests \ {r}
      PROVE  /\ /\ req[q].op \in {"create", "reverse"}
                /\ req[q].ref # 0
                => holder' = q /\ req[q].ref = Count' + 1
             /\ req[q].op \in {"post", "reverse", "discard"}
                  => req[q].n \in 1 .. Count' /\ req[q].e.ref = req[q].n
  <2>1. /\ req[q].op \in {"create", "reverse"} /\ req[q].ref # 0 => holder = q /\ req[q].ref = Count + 1
        /\ req[q].op \in {"post", "reverse", "discard"} => req[q].n \in 1 .. Count /\ req[q].e.ref = req[q].n
    BY DEF Numbered
  <2>2. holder = q => holder' = q /\ Count' = Count
    BY <1>2, <1>4
  <2>3. 1 .. Count \subseteq 1 .. Count'
    BY <1>1, <1>4
  <2> QED BY <2>1, <2>2, <2>3
<1> QED BY <1>2, <1>4, <1>5 DEF Numbered

LEMMA NumberedStep ==
  ASSUME TypeOK, Numbered, [Next]_vars
  PROVE  Numbered'
<1>1. CASE UNCHANGED vars
  BY <1>1 DEF Numbered, Count, vars
<1>2. CASE Next
  <2>1. PICK r \in Requests :
          (\E c : AskedFor(r, c)) \/ (\E x : Drawn(r, x)) \/ Served(r) \/ Dropped(r)
    BY <1>2, Steps
  <2>2. CASE Dropped(r)
    <3>1. holder' = (IF holder = r THEN Nobody ELSE holder) /\ db' = db /\ Count' = Count
      BY <2>2 DEF Dropped, Count
    <3> QED BY <2>2, <3>1, AfterServing DEF Numbered, Busy
  <2> QED BY <2>1, <2>2, NumberedAsked, NumberedDrawn, NumberedServed
<1> QED BY <1>1, <1>2

LEMMA NumberedInit == ASSUME Init PROVE Numbered
<1>1. Count = 0
  BY DEF Init, Count
<1> QED BY <1>1, IdleIs DEF Init, Numbered

-----------------------------------------------------------------------------
(* One book, served one by one.                                             *)

(* What the only request has read is what there is. *)
Current == apart => \A r \in Requests : ReadNow(req[r])

LEMMA CurrentStep ==
  ASSUME TypeOK, Exclusive, Current, [Next]_vars
  PROVE  Current'
<1>a. \A c : c.op = "idle" => ReadNow(c)'
  BY DEF ReadNow
<1>1. CASE UNCHANGED vars
  BY <1>1 DEF Current, ReadNow, KindNow, CanPost, IsOpen, MayReconcile, Beginning, Cleared,
              OfAccount, IsLast, vars
<1>2. CASE Next
  <2>1. PICK r \in Requests :
          (\E c : AskedFor(r, c)) \/ (\E x : Drawn(r, x)) \/ Served(r) \/ Dropped(r)
    BY <1>2, Steps
  <2>2. ASSUME NEW c, AskedFor(r, c)
        PROVE  Current'
    <3> SUFFICES ASSUME apart' PROVE \A q \in Requests : ReadNow(req[q])'
      BY DEF Current
    <3>1. ReadNow(c)
      BY <2>2 DEF AskedFor
    <3>2. db' = db /\ req'[r] = c /\ \A q \in Requests \ {r} : req'[q] = req[q] /\ req[q].op = "idle"
      BY <2>2, AfterAsking DEF Busy
    <3>3. ReadNow(req[r])'
      BY <3>1, <3>2 DEF ReadNow, KindNow, CanPost, IsOpen, MayReconcile, Beginning, Cleared,
                        OfAccount, IsLast
    <3>4. \A q \in Requests \ {r} : ReadNow(req[q])'
      BY <3>2 DEF ReadNow
    <3> QED BY <3>3, <3>4
  <2>3. ASSUME NEW x, Drawn(r, x)
        PROVE  Current'
    <3> SUFFICES ASSUME apart' PROVE \A q \in Requests : ReadNow(req[q])'
      BY DEF Current
    <3>1. /\ db' = db /\ req'[r] = x /\ \A q \in Requests \ {r} : req'[q] = req[q]
          /\ x.op = req[r].op /\ x.op \in {"create", "reverse"} /\ x.e = req[r].e
          /\ x.kind = req[r].kind /\ apart
          /\ x.op = "reverse" => x.n = req[r].n
      BY <2>3, AfterDrawing
    <3>2. \A q \in Requests : ReadNow(req[q])
      BY <3>1 DEF Current
    <3>3. ReadNow(req[r])'
      <4>1. ReadNow(req[r]) /\ KindNow' = KindNow
        BY <3>1, <3>2 DEF KindNow
      <4>2. \A lines, day : CanPost(db', lines, day) = CanPost(db, lines, day)
        BY <3>1
      <4>3. CASE x.op = "create"
        BY <3>1, <4>1, <4>2, <4>3 DEF ReadNow
      <4>4. CASE x.op = "reverse"
        BY <3>1, <4>1, <4>4 DEF ReadNow
      <4> QED BY <3>1, <4>3, <4>4
    <3>4. \A q \in Requests \ {r} : ReadNow(req[q])'
      <4>1. \A q \in Requests \ {r} : req[q].op = "idle"
        BY <3>1 DEF Exclusive, Busy
      <4> QED BY <3>1, <4>1 DEF ReadNow
    <3> QED BY <3>3, <3>4
  <2>4. CASE Served(r) \/ Dropped(r)
    <3>1. apart' => \A q \in Requests : req'[q].op = "idle"
      BY <2>4, AfterServing DEF Exclusive, Busy
    <3> QED BY <3>1 DEF Current, ReadNow
  <2> QED BY <2>1, <2>2, <2>3, <2>4
<1> QED BY <1>1, <1>2

LEMMA CurrentInit == ASSUME Init PROVE Current
  BY IdleIs DEF Init, Current, ReadNow

(* A reversal names an entry that is void.                                  *)
Voided ==
  \A m \in 1 .. Count :
    db.entries[m].of # 0 => /\ db.entries[m].of \in 1 .. Count
                            /\ db.entries[db.entries[m].of].status = "void"

InTheBook(n) ==
  \/ db.entries[n].status = "posted"
  \/ /\ db.entries[n].status = "void"
     /\ \E m \in 1 .. Count : db.entries[m].of = n
BookOn(day) == {n \in 1 .. Count : InTheBook(n) /\ db.entries[n].day = day}
BookOf(a, day) == Sum([n \in 1 .. Count |-> db.entries[n].lines[a]], BookOn(day))
OneBook ==
  \A a \in Accounts, day \in Days : NetOf(db.rows, a, day, day) = BookOf(a, day)

(* A step may take one entry into the book, with these lines on this day.   *)
Books(k, lines, day) ==
  /\ Count \in Nat /\ Count' \in Nat /\ k \notin {n \in 1 .. Count : InTheBook(n)}
  /\ 1 .. Count' = (1 .. Count) \cup {k}
  /\ \A n \in (1 .. Count) \ {k} : /\ db'.entries[n].lines = db.entries[n].lines
                                   /\ db'.entries[n].day = db.entries[n].day
                                   /\ InTheBook(n)' <=> InTheBook(n)
  /\ db'.entries[k].status = "posted"
  /\ db'.entries[k].day = day /\ \A a \in Accounts : db'.entries[k].lines[a] = lines[a]
(* Or none, a draft at most. *)
BooksNone ==
  /\ Count \in Nat /\ Count' \in Nat /\ Count <= Count'
  /\ \A n \in 1 .. Count : /\ db'.entries[n].lines = db.entries[n].lines
                           /\ db'.entries[n].day = db.entries[n].day
                           /\ InTheBook(n)' <=> InTheBook(n)
  /\ \A n \in (1 .. Count') \ (1 .. Count) : ~InTheBook(n)'

LEMMA BookTyped ==
  ASSUME TypeOK, NEW a \in Accounts, NEW day
  PROVE  /\ BookOn(day) \subseteq 1 .. Count /\ IsFiniteSet(BookOn(day))
         /\ \A n \in 1 .. Count : db.entries[n].lines[a] \in Int
<1>1. IsFiniteSet(1 .. Count)
  BY CountIs, FS_Interval
<1>2. BookOn(day) \in SUBSET (1 .. Count)
  BY DEF BookOn
<1>3. \A n \in 1 .. Count : db.entries[n].lines[a] \in Int
  BY CountIs, EntryFields
<1> QED BY <1>1, <1>2, <1>3, FS_Subset

LEMMA BookGrows ==
  ASSUME TypeOK, TypeOK', NEW k, NEW lines, NEW on, Books(k, lines, on),
         NEW a \in Accounts, NEW day
  PROVE  BookOf(a, day)' = BookOf(a, day) + IF day = on THEN lines[a] ELSE 0
<1> DEFINE S == BookOn(day)
           f == [n \in 1 .. Count |-> db.entries[n].lines[a]]
           g == [n \in 1 .. Count' |-> db'.entries[n].lines[a]]
<1>1. S \subseteq 1 .. Count /\ IsFiniteSet(S) /\ \A n \in S : f[n] \in Int
  BY BookTyped
<1>2. k \notin S
  BY DEF Books, BookOn
<1>3. \A n \in S : f[n] = g[n] /\ n # k
  BY <1>1, <1>2 DEF Books
<1>4. k \in 1 .. Count' /\ g[k] = lines[a]
  BY DEF Books
<1>5. \A n \in 1 .. Count' : db'.entries[n].lines[a] \in Int
  <2>1. Count' \in Nat /\ \A n \in 1 .. Count' : db'.entries[n] \in Entry
    BY DbFields DEF TypeOK, Count
  <2> QED BY <2>1, EntryFields
<1>6. BookOn(day)' = IF day = on THEN S \cup {k} ELSE S
  BY <1>2 DEF Books, BookOn, InTheBook
<1>7. BookOf(a, day) = Sum(f, S) /\ BookOf(a, day)' = Sum(g, BookOn(day)')
  BY DEF BookOf
<1>8. g[k] \in Int
  BY <1>4, <1>5
<1> HIDE DEF S, f, g
<1>9. Sum(f, S) = Sum(g, S) /\ Sum(g, S) \in Int
  BY <1>1, <1>3, SumSame, SumInt
<1>10. CASE day = on
  <2>1. Sum(g, S \cup {k}) = g[k] + Sum(g, S)
    <3>1. \A n \in S \cup {k} : g[n] \in Int
      BY <1>1, <1>3, <1>8
    <3> QED BY <1>1, <1>2, <3>1, SumAdd
  <2> QED BY <1>4, <1>6, <1>7, <1>8, <1>9, <1>10, <2>1
<1>11. CASE day # on
  BY <1>6, <1>7, <1>9, <1>11
<1> QED BY <1>10, <1>11

LEMMA BookStays ==
  ASSUME TypeOK, BooksNone, NEW a \in Accounts, NEW day
  PROVE  BookOf(a, day)' = BookOf(a, day)
<1> DEFINE S == BookOn(day)
           f == [n \in 1 .. Count |-> db.entries[n].lines[a]]
           g == [n \in 1 .. Count' |-> db'.entries[n].lines[a]]
<1>1. S \subseteq 1 .. Count /\ IsFiniteSet(S)
  BY BookTyped
<1>2. 1 .. Count \subseteq 1 .. Count'
  BY DEF BooksNone
<1>3. \A n \in S : f[n] = g[n]
  BY <1>1, <1>2 DEF BooksNone
<1>4. BookOn(day)' = S
  BY <1>2 DEF BooksNone, BookOn
<1>5. BookOf(a, day) = Sum(f, S) /\ BookOf(a, day)' = Sum(g, S)
  BY <1>4 DEF BookOf
<1> HIDE DEF S, f, g
<1> QED BY <1>1, <1>3, <1>5, SumSame

(* Posting adds an entry's line to what its account has on the entry's day. *)
LEMMA NetOfAdded ==
  ASSUME TypeOK, RowIds, NEW n \in Nat, NEW e \in Entry, NEW kind \in KindMap, Posts(n, e, kind),
         NEW a \in Accounts, NEW day \in Nat
  PROVE  NetOf(db'.rows, a, day, day) = NetOf(db.rows, a, day, day) + IF day = e.day THEN e.lines[a] ELSE 0
<1> DEFINE N == NewRows(db, n, e, kind)
           On(rows) == {row \in rows : row.acct = a /\ day <= row.day /\ row.day <= day}
           S == On(db.rows)
<1>1. db'.rows = db.rows \cup N /\ db \in Database /\ IsFiniteSet(db.rows) /\ db.rows \subseteq LedgerRow
  BY DbFields DEF Posts, TypeOK
<1>2. N = {NewRow(db, n, e, kind, b) : b \in Touched(e.lines)}
  BY DEF NewRows
<1>3. \A b \in Touched(e.lines) :
        LET x == NewRow(db, n, e, kind, b)
        IN x \in LedgerRow /\ x.acct = b /\ x.day = e.day /\ x.amt = e.lines[b]
  BY <1>1, NewRowFields
<1>4. S \subseteq LedgerRow /\ IsFiniteSet(S) /\ Amounts(S) \in Int
  <2>1. S \in SUBSET db.rows
    OBVIOUS
  <2>2. S \subseteq LedgerRow /\ IsFiniteSet(S)
    BY <1>1, <2>1, FS_Subset
  <2> QED BY <2>2, AmountsInt
<1>5. e.lines[a] \in Int /\ e.day \in Nat
  BY EntryFields, GeneralLedgerAssumption
<1>6. On(db'.rows) = S \cup On(N)
  BY <1>1
<1>7. NetOf(db'.rows, a, day, day) = Amounts(S \cup On(N)) /\ NetOf(db.rows, a, day, day) = Amounts(S)
  BY <1>6 DEF NetOf
<1>8. CASE a \notin Touched(e.lines) \/ e.day # day
  <2>1. On(N) = {}
    <3> SUFFICES ASSUME NEW b \in Touched(e.lines), NewRow(db, n, e, kind, b) \in On(N) PROVE FALSE
      BY <1>2
    <3>1. b = a /\ day <= e.day /\ e.day <= day
      BY <1>3
    <3> QED BY <1>5, <1>8, <3>1
  <2>2. e.day = day => e.lines[a] = 0
    BY <1>8 DEF Touched
  <2>3. S \cup On(N) = S
    BY <2>1
  <2>4. Amounts(S \cup On(N)) = Amounts(S)
    BY <2>3
  <2>5. (IF day = e.day THEN e.lines[a] ELSE 0) = 0
    BY <2>2
  <2> HIDE DEF S, On, N
  <2> QED BY <1>4, <1>7, <2>4, <2>5
<1>9. CASE a \in Touched(e.lines) /\ e.day = day
  <2>1. PICK x : x = NewRow(db, n, e, kind, a)
    OBVIOUS
  <2>2. x \in LedgerRow /\ x.acct = a /\ x.day = day /\ x.amt = e.lines[a] /\ x \in N
    BY <1>2, <1>3, <1>9, <2>1
  <2>3. On(N) = {x}
    <3>1. \A y \in N : y.acct = a => y = x
      BY <1>2, <1>3, <2>1
    <3>2. x \in On(N)
      BY <1>5, <1>9, <2>2
    <3> HIDE DEF N
    <3> QED BY <3>1, <3>2
  <2>4. x \notin S
    <3>1. N \cap db.rows = {}
      BY NewIds
    <3> QED BY <2>2, <3>1
  <2> DEFINE f == [y \in S \cup {x} |-> y.amt]
             g == [y \in S |-> y.amt]
  <2> HIDE DEF S, N
  <2>5. (\A y \in S \cup {x} : f[y] \in Int) /\ f[x] = e.lines[a] /\ \A y \in S : f[y] = g[y]
    BY <1>4, <1>5, <2>2, RowFields
  <2> HIDE DEF f, g
  <2>6. Sum(f, S \cup {x}) = f[x] + Sum(f, S) /\ Sum(f, S) = Sum(g, S)
    BY <1>4, <2>4, <2>5, SumAdd, SumSame
  <2>7. Amounts(S \cup {x}) = e.lines[a] + Amounts(S)
    BY <2>5, <2>6 DEF Amounts, f, g
  <2>8. Amounts(S \cup On(N)) = e.lines[a] + Amounts(S)
    BY <2>3, <2>7
  <2> HIDE DEF On
  <2> QED BY <1>4, <1>5, <1>7, <1>9, <2>8
<1> QED BY <1>8, <1>9

(* What serving the only request does to the book.                          *)
BookGoes ==
  \/ \E k, n \in Nat, e \in Entry, kind \in KindMap : Posts(n, e, kind) /\ Books(k, e.lines, e.day)
  \/ BooksNone /\ (db'.rows = db.rows \/ \E M : Remarked(M))

LEMMA CreatedBook ==
  ASSUME TypeOK, Voided, NEW e \in Entry, e.of = 0, OneMore(e)
  PROVE  /\ Voided'
         /\ e.status = "posted" => Books(Count + 1, e.lines, e.day)
         /\ e.status = "draft" => BooksNone
<1>0. PICK k : k = Count + 1
  OBVIOUS
<1>1. /\ Count \in Nat /\ Count' = k /\ db'.entries[k] = e
      /\ \A n \in 1 .. Count : db'.entries[n] = db.entries[n]
  BY <1>0, CountIs DEF OneMore, Count
<1>2. 1 .. k = (1 .. Count) \cup {k} /\ k \notin 1 .. Count /\ 0 \notin 1 .. Count
  BY <1>0, <1>1
<1>3. \A n \in 1 .. Count : InTheBook(n)' <=> InTheBook(n)
  <2> TAKE n \in 1 .. Count
  <2>1. (\E m \in 1 .. k : db'.entries[m].of = n) <=> (\E m \in 1 .. Count : db.entries[m].of = n)
    BY <1>1, <1>2
  <2> QED BY <1>1, <2>1 DEF InTheBook
<1>4. Voided'
  <2> SUFFICES ASSUME NEW m \in 1 .. k, db'.entries[m].of # 0
               PROVE  /\ db'.entries[m].of \in 1 .. k
                      /\ db'.entries[db'.entries[m].of].status = "void"
    BY <1>1 DEF Voided
  <2>1. m \in 1 .. Count
    BY <1>1, <1>2
  <2> QED BY <1>1, <1>2, <2>1 DEF Voided
<1>5. e.status = "posted" => Books(k, e.lines, e.day)
  BY <1>1, <1>2, <1>3 DEF Books, InTheBook
<1>6. e.status = "draft" => BooksNone
  <2> SUFFICES ASSUME e.status = "draft" PROVE BooksNone
    OBVIOUS
  <2>1. (1 .. k) \ (1 .. Count) = {k}
    BY <1>2
  <2>2. ~InTheBook(k)'
    BY <1>1 DEF InTheBook
  <2>3. Count' \in Nat /\ Count <= Count'
    BY <1>0, <1>1
  <2> QED BY <1>1, <1>3, <2>1, <2>2, <2>3 DEF BooksNone
<1> QED BY <1>0, <1>4, <1>5, <1>6

LEMMA ReplacedBook ==
  ASSUME TypeOK, Voided, NEW e \in Entry, NEW k \in 1 .. Count, OneReplaced(k, e),
         db.entries[k].status = "draft", e.of = db.entries[k].of, e.lines = db.entries[k].lines,
         e.day = db.entries[k].day
  PROVE  /\ Voided'
         /\ e.status = "posted" => Books(k, e.lines, e.day)
         /\ e.status = "void" => BooksNone
<1>1. /\ Count \in Nat /\ Count' = Count
      /\ \A n \in 1 .. Count : db'.entries[n] = IF n = k THEN e ELSE db.entries[n]
  BY CountIs DEF OneReplaced, Count
<1>2. \A n \in 1 .. Count : db'.entries[n].of = db.entries[n].of
  BY <1>1
<1>3. 0 \notin 1 .. Count
  OBVIOUS
<1>4. \A m \in 1 .. Count : db.entries[m].of # k
  BY <1>3 DEF Voided
<1>5. \A n \in (1 .. Count) \ {k} : InTheBook(n)' <=> InTheBook(n)
  BY <1>1, <1>2 DEF InTheBook
<1>6. ~InTheBook(k)
  BY DEF InTheBook
<1>7. Voided'
  BY <1>1, <1>2, <1>4 DEF Voided
<1>8. e.status = "posted" => Books(k, e.lines, e.day)
  <2>1. 1 .. Count' = (1 .. Count) \cup {k}
    BY <1>1
  <2> QED BY <1>1, <1>5, <1>6, <2>1 DEF Books, InTheBook
<1>9. e.status = "void" => BooksNone
  <2> SUFFICES ASSUME e.status = "void" PROVE BooksNone
    OBVIOUS
  <2>1. ~InTheBook(k)'
    BY <1>1, <1>2, <1>4 DEF InTheBook
  <2> QED BY <1>1, <1>5, <1>6, <2>1 DEF BooksNone
<1> QED BY <1>7, <1>8, <1>9

LEMMA ReversedBook ==
  ASSUME TypeOK, Voided, NEW e \in Entry, NEW void \in Entry, NEW k \in 1 .. Count,
         OneReversed(k, void, e), db.entries[k].status = "posted", e.of = k, e.status = "posted",
         void.status = "void", void.of = db.entries[k].of, void.lines = db.entries[k].lines,
         void.day = db.entries[k].day
  PROVE  Voided' /\ Books(Count + 1, e.lines, e.day)
<1>0. PICK l : l = Count + 1
  OBVIOUS
<1>1. /\ Count \in Nat /\ Count' = l /\ db'.entries[l] = e
      /\ \A n \in 1 .. Count : db'.entries[n] = IF n = k THEN void ELSE db.entries[n]
  BY <1>0, CountIs DEF OneReversed, Count
<1>2. 1 .. l = (1 .. Count) \cup {l} /\ l \notin 1 .. Count /\ 0 \notin 1 .. Count /\ l \in Nat
  BY <1>0, <1>1
<1>3. \A n \in 1 .. Count : db'.entries[n].of = db.entries[n].of
  BY <1>1
<1>4. \A n \in (1 .. Count) \ {k} : InTheBook(n)' <=> InTheBook(n)
  <2> TAKE n \in (1 .. Count) \ {k}
  <2>1. (\E m \in 1 .. l : db'.entries[m].of = n) <=> (\E m \in 1 .. Count : db.entries[m].of = n)
    BY <1>1, <1>2, <1>3
  <2> QED BY <1>1, <2>1 DEF InTheBook
<1>5. InTheBook(k) /\ InTheBook(k)'
  <2>1. \E m \in 1 .. l : db'.entries[m].of = k
    BY <1>1, <1>2
  <2> QED BY <1>1, <2>1 DEF InTheBook
<1>6. Voided'
  <2> SUFFICES ASSUME NEW m \in 1 .. l, db'.entries[m].of # 0
               PROVE  /\ db'.entries[m].of \in 1 .. l
                      /\ db'.entries[db'.entries[m].of].status = "void"
    BY <1>1 DEF Voided
  <2>1. CASE m = l
    BY <1>1, <1>2, <2>1
  <2>2. CASE m \in 1 .. Count
    BY <1>1, <1>2, <1>3, <2>2 DEF Voided
  <2> QED BY <1>2, <2>1, <2>2
<1>7. Books(l, e.lines, e.day)
  BY <1>1, <1>2, <1>4, <1>5 DEF Books, InTheBook
<1> QED BY <1>0, <1>6, <1>7

LEMMA ServedBook ==
  ASSUME TypeOK, Voided, NEW r \in Requests, ReadNow(req[r]), EntriesGo(r)
  PROVE  Voided' /\ BookGoes
<1> DEFINE c == req[r]
<1>a. Count \in Nat /\ \A n \in 1 .. Count : db.entries[n] \in Entry
  BY CountIs
<1>1. CASE c.op = "create"
  <2>1. /\ c.e.of = 0 /\ c.e.status \in {"draft", "posted"} /\ c.kind \in KindMap
    BY <1>1 DEF ReadNow, EntriesGo
  <2>2. PICK e \in Entry : /\ e.status = c.e.status /\ e.of = c.e.of /\ OneMore(e)
                           /\ IF e.status = "posted" THEN Posts(Count + 1, e, c.kind) ELSE Unposted
    BY <1>1 DEF EntriesGo
  <2>3. /\ Voided'
        /\ e.status = "posted" => Books(Count + 1, e.lines, e.day)
        /\ e.status = "draft" => BooksNone
    BY <2>1, <2>2, CreatedBook
  <2> QED BY <1>a, <2>1, <2>2, <2>3 DEF BookGoes, Unposted
<1>2. CASE c.op = "post"
  <2>1. /\ c.n \in 1 .. Count /\ c.kind \in KindMap /\ db.entries[c.n].status = "draft"
        /\ c.e = [db.entries[c.n] EXCEPT !.src = "journal_entry"]
    <3>1. c.kind \in KindMap
      BY <1>2 DEF EntriesGo
    <3> QED BY <1>2, <3>1, CountIs DEF ReadNow
  <2>2. c.e.of = db.entries[c.n].of /\ c.e.lines = db.entries[c.n].lines /\ c.e.day = db.entries[c.n].day
    <3>1. PICK old \in Entry, t \in Texts : old = db.entries[c.n] /\ t = "journal_entry"
      BY <1>a, <2>1 DEF Texts
    <3>2. PICK x : x = [old EXCEPT !.src = t]
      OBVIOUS
    <3>3. x.lines = old.lines /\ x.day = old.day /\ x.of = old.of
      BY <3>2, EntryWithSource
    <3> QED BY <2>1, <3>1, <3>2, <3>3
  <2>3. PICK e \in Entry : /\ Like(e, c.e) /\ e.status = "posted" /\ OneReplaced(c.n, e)
                           /\ Posts(c.n, e, c.kind)
    BY <1>2 DEF EntriesGo
  <2>4. /\ e.of = db.entries[c.n].of /\ e.lines = db.entries[c.n].lines
        /\ e.day = db.entries[c.n].day
    BY <2>2, <2>3 DEF Like
  <2>5. Voided' /\ Books(c.n, e.lines, e.day)
    BY <2>1, <2>3, <2>4, ReplacedBook
  <2>6. c.n \in Nat
    BY <1>a, <2>1
  <2> QED BY <2>1, <2>3, <2>5, <2>6 DEF BookGoes
<1>3. CASE c.op = "reverse"
  <2>1. /\ c.n \in 1 .. Count /\ c.kind \in KindMap /\ c.e = db.entries[c.n]
        /\ db.entries[c.n].status = "posted"
    BY <1>3, CountIs DEF ReadNow, EntriesGo
  <2>2. \E e, void \in Entry :
          /\ Like(void, c.e) /\ void.status = "void" /\ e.of = c.n /\ e.status = "posted"
          /\ OneReversed(c.n, void, e) /\ Posts(Count + 1, e, c.kind)
    BY <1>3, <1>a, <2>1 DEF EntriesGo
  <2>3. PICK e \in Entry, void \in Entry :
          /\ Like(void, c.e) /\ void.status = "void" /\ e.of = c.n /\ e.status = "posted"
          /\ OneReversed(c.n, void, e) /\ Posts(Count + 1, e, c.kind)
    BY <2>2
  <2>4. Voided' /\ Books(Count + 1, e.lines, e.day)
    BY <2>1, <2>3, ReversedBook DEF Like
  <2> QED BY <1>a, <2>1, <2>3, <2>4 DEF BookGoes
<1>4. CASE c.op = "discard"
  <2>1. c.n \in 1 .. Count /\ c.e = db.entries[c.n] /\ db.entries[c.n].status = "draft"
    BY <1>4, CountIs DEF ReadNow
  <2>2. PICK e \in Entry : Like(e, c.e) /\ e.status = "void" /\ OneReplaced(c.n, e) /\ Unposted
    BY <1>4 DEF EntriesGo
  <2>3. Voided' /\ BooksNone
    BY <2>1, <2>2, ReplacedBook DEF Like
  <2> QED BY <2>2, <2>3 DEF BookGoes, Unposted
<1>5. CASE c.op \notin {"create", "post", "reverse", "discard"}
  <2>1. db'.entries = db.entries /\ (db'.rows = db.rows \/ \E M : Remarked(M))
    BY <1>5 DEF EntriesGo
  <2>2. Count' = Count
    BY <2>1 DEF Count
  <2>3. Voided' /\ BooksNone
    BY <1>a, <2>1, <2>2 DEF Voided, BooksNone, InTheBook
  <2> QED BY <2>1, <2>3 DEF BookGoes
<1> QED BY <1>1, <1>2, <1>3, <1>4, <1>5

LEMMA OneBookGoes ==
  ASSUME TypeOK, TypeOK', RowIds, OneBook, BookGoes
  PROVE  OneBook'
<1> SUFFICES ASSUME NEW a \in Accounts, NEW day \in Days
             PROVE  NetOf(db'.rows, a, day, day) = BookOf(a, day)'
  BY DEF OneBook
<1>1. NetOf(db.rows, a, day, day) = BookOf(a, day) /\ day \in Nat
  BY GeneralLedgerAssumption DEF OneBook
<1>2. ASSUME NEW k \in Nat, NEW n \in Nat, NEW e \in Entry, NEW kind \in KindMap,
             Posts(n, e, kind), Books(k, e.lines, e.day)
      PROVE  NetOf(db'.rows, a, day, day) = BookOf(a, day)'
  BY <1>1, <1>2, NetOfAdded, BookGrows
<1>3. CASE BooksNone /\ (db'.rows = db.rows \/ \E M : Remarked(M))
  BY <1>1, <1>3, NetOfRemarked, BookStays
<1> QED BY <1>2, <1>3 DEF BookGoes

LEMMA BookStep ==
  ASSUME TypeOK, TypeOK', RowIds, Exclusive, Current, apart => Voided /\ OneBook, [Next]_vars
  PROVE  apart' => Voided' /\ OneBook'
<1> SUFFICES ASSUME apart' PROVE Voided' /\ OneBook'
  OBVIOUS
<1>1. ASSUME db' = db, apart
      PROVE  Voided' /\ OneBook'
  <2>1. Count' = Count
    BY <1>1 DEF Count
  <2> QED BY <1>1, <2>1 DEF Voided, OneBook, BookOf, BookOn, InTheBook
<1>2. CASE UNCHANGED vars
  BY <1>1, <1>2 DEF vars
<1>3. CASE Next
  <2>1. PICK r \in Requests :
          (\E c : AskedFor(r, c)) \/ (\E x : Drawn(r, x)) \/ Served(r) \/ Dropped(r)
    BY <1>3, Steps
  <2>2. CASE (\E c : AskedFor(r, c)) \/ (\E x : Drawn(r, x)) \/ Dropped(r)
    BY <1>1, <2>2, AfterAsking, AfterDrawing, AfterServing
  <2>3. CASE Served(r)
    <3>1. apart /\ ReadNow(req[r])
      BY <2>3, AfterServing DEF Current
    <3>2. Voided' /\ BookGoes
      BY <2>3, <3>1, EntriesDo, ServedBook
    <3> QED BY <3>1, <3>2, OneBookGoes
  <2> QED BY <2>1, <2>2, <2>3
<1> QED BY <1>2, <1>3

LEMMA BookInit == ASSUME Init PROVE Voided /\ OneBook
<1>1. Count = 0 /\ db.rows = {}
  BY DEF Init, Count
<1>2. \A day : BookOn(day) = {}
  BY <1>1 DEF BookOn
<1>3. \A a \in Accounts, day \in Days : BookOf(a, day) = 0
  BY <1>2, SumEmpty DEF BookOf
<1>4. \A a \in Accounts, day \in Days : NetOf(db.rows, a, day, day) = 0
  <2> TAKE a \in Accounts, day \in Days
  <2>1. {x \in db.rows : x.acct = a /\ day <= x.day /\ x.day <= day} = {}
    BY <1>1
  <2> QED BY <2>1, SumEmpty DEF NetOf, Amounts
<1> QED BY <1>1, <1>3, <1>4 DEF Voided, OneBook

LEMMA OneBookHolds ==
  ASSUME TypeOK, Numbered, apart => OneBook
  PROVE  LedgerIsTheBook
<1>1. DOMAIN db.entries = 1 .. Count
  BY CountIs
<1>2. \A n : InTheBook(n) <=> InBook(n)
  BY <1>1 DEF InTheBook, InBook
<1>3. \A a \in Accounts, day \in Days :
        BookOf(a, day) = Sum([n \in DOMAIN db.entries |-> db.entries[n].lines[a]],
                             {n \in DOMAIN db.entries : InBook(n) /\ db.entries[n].day = day})
  BY <1>1, <1>2 DEF BookOf, BookOn
<1> QED BY <1>1, <1>3 DEF LedgerIsTheBook, OneBook, Numbered

(* Served in any overlap, entries are numbered by the references they drew; *)
(* served one by one, what an account has on a day is what the entries of   *)
(* that day in the book gave it.                                            *)
THEOREM LedgerAndEntriesAgree == Spec => []LedgerIsTheBook
<1>1. TypeOK /\ Exclusive /\ [Next]_vars => Exclusive'
  BY ExclusiveStep
<1>2. TypeOK /\ Numbered /\ [Next]_vars => Numbered'
  BY NumberedStep
<1>3. TypeOK /\ Exclusive /\ Current /\ [Next]_vars => Current'
  BY CurrentStep
<1>4. /\ TypeOK /\ TypeOK' /\ RowIds /\ Exclusive /\ Current /\ (apart => Voided /\ OneBook)
      /\ [Next]_vars
      => (apart => Voided /\ OneBook)'
  BY BookStep
<1>5. Init => Exclusive /\ Numbered /\ Current /\ Voided /\ OneBook
  BY ExclusiveInit, NumberedInit, CurrentInit, BookInit
<1>6. TypeOK /\ Numbered /\ (apart => Voided /\ OneBook) => LedgerIsTheBook
  BY OneBookHolds
<1> QED BY <1>1, <1>2, <1>3, <1>4, <1>5, <1>6, LedgerTypes, RowsNumbered, PTL DEF Spec

-----------------------------------------------------------------------------
(* Bank reconciliation, served one by one.                                  *)

Moves(T) == Sum([x \in T |-> x.to - x.from], T)
Marks(id) == {row \in db.rows : row.rec = id}
(* Each reconciliation moved its account's cleared balance by the rows that *)
(* carry its id, and began where those before it ended.                     *)
RecsNumbered ==
  /\ \A x, y \in db.recs : x.id = y.id => x = y
  /\ \A x \in db.recs : 1 <= x.id /\ x.id <= writes
  /\ \A row \in db.rows : row.rec # 0 => \E x \in db.recs : x.id = row.rec /\ x.acct = row.acct
RecsMarked == \A x \in db.recs : x.to = x.from + Amounts(Marks(x.id))
RecsBegin == \A x \in db.recs : x.from = Moves(Before(x))
RecsCleared == \A a \in Accounts : Beginning(db, a) = Moves(OfAccount(db, a))
RecsKept == RecsNumbered /\ RecsMarked /\ RecsBegin /\ RecsCleared

LEMMA RecFields ==
  ASSUME TypeOK
  PROVE  /\ IsFiniteSet(db.recs) /\ writes \in Nat
         /\ \A x \in db.recs : /\ x \in Rec /\ x.id \in Nat /\ x.acct \in Accounts /\ x.day \in Nat
                               /\ x.from \in Int /\ x.to \in Int
<1>1. db.recs \subseteq Rec
  BY DbFields DEF TypeOK
<1>2. \A x \in Rec : /\ x.id \in Nat /\ x.acct \in Accounts /\ x.day \in Nat
                     /\ x.from \in Int /\ x.to \in Int
  BY GeneralLedgerAssumption DEF Rec
<1> QED BY <1>1, <1>2 DEF TypeOK

LEMMA MovesAdd ==
  ASSUME NEW T, IsFiniteSet(T), NEW x, x \notin T,
         \A y \in T \cup {x} : y.from \in Int /\ y.to \in Int
  PROVE  Moves(T \cup {x}) = Moves(T) + (x.to - x.from) /\ Moves(T) \in Int
<1> DEFINE f == [y \in T \cup {x} |-> y.to - y.from]
           g == [y \in T |-> y.to - y.from]
<1>1. \A y \in T \cup {x} : f[y] \in Int
  OBVIOUS
<1>2. (\A y \in T : f[y] = g[y] /\ g[y] \in Int) /\ f[x] = x.to - x.from /\ f[x] \in Int
  OBVIOUS
<1> HIDE DEF f, g
<1>3. Sum(f, T \cup {x}) = f[x] + Sum(f, T)
  BY <1>1, SumAdd
<1>4. Sum(f, T) = Sum(g, T) /\ Sum(g, T) \in Int
  BY <1>2, SumSame, SumInt
<1>5. Sum(f, T \cup {x}) = Sum(g, T) + (x.to - x.from)
  BY <1>2, <1>3, <1>4
<1> QED BY <1>4, <1>5 DEF Moves, f, g

LEMMA AmountsUnion ==
  ASSUME NEW S, NEW T, S \subseteq LedgerRow, T \subseteq LedgerRow, IsFiniteSet(S), IsFiniteSet(T),
         S \cap T = {}
  PROVE  Amounts(S \cup T) = Amounts(S) + Amounts(T) /\ Amounts(S) \in Int /\ Amounts(T) \in Int
<1> DEFINE f == [y \in S \cup T |-> y.amt]
           g == [y \in S |-> y.amt]
           h == [y \in T |-> y.amt]
<1>1. \A y \in S \cup T : f[y] \in Int
  BY RowFields
<1>2. (\A y \in S : f[y] = g[y]) /\ (\A y \in T : f[y] = h[y])
  OBVIOUS
<1> HIDE DEF f, g, h
<1>3. Sum(f, S \cup T) = Sum(f, S) + Sum(f, T)
  BY <1>1, SumDisjoint
<1>4. Sum(f, S) = Sum(g, S) /\ Sum(f, T) = Sum(h, T)
  BY <1>2, SumSame
<1>5. Amounts(S) \in Int /\ Amounts(T) \in Int
  BY AmountsInt
<1> QED BY <1>3, <1>4, <1>5 DEF Amounts, f, g, h

LEMMA RowSets ==
  ASSUME TypeOK, NEW S \in SUBSET db.rows
  PROVE  S \subseteq LedgerRow /\ IsFiniteSet(S)
  BY DbFields, FS_Subset DEF TypeOK

(* Reconciliations and marks as they were. *)
LEMMA RecsUntouched ==
  ASSUME RecsKept, db'.recs = db.recs, writes <= writes', TypeOK, TypeOK',
         \A id \in Nat \ {0} : Marks(id)' = Marks(id),
         \A row \in db'.rows : row.rec # 0 => row \in db.rows
  PROVE  RecsKept'
<1>1. \A x \in db.recs : x.id \in Nat \ {0} /\ x.id <= writes /\ x.id \in Nat
  BY RecFields DEF RecsKept, RecsNumbered
<1>2. writes \in Nat /\ writes' \in Nat
  BY DEF TypeOK
<1>3. RecsNumbered'
  <2>1. \A x \in db'.recs : 1 <= x.id /\ x.id <= writes'
    BY <1>1, <1>2
  <2> QED BY <2>1 DEF RecsKept, RecsNumbered
<1>4. RecsMarked'
  <2>1. \A x \in db.recs : Marks(x.id)' = Marks(x.id)
    BY <1>1
  <2> QED BY <2>1 DEF RecsKept, RecsMarked
<1>5. \A a : OfAccount(db', a) = OfAccount(db, a)
  BY DEF OfAccount
<1>6. RecsBegin'
  <2>1. \A x : Before(x)' = Before(x)
    BY <1>5 DEF Before
  <2> QED BY <2>1 DEF RecsKept, RecsBegin
<1>7. \A a \in Accounts : Cleared(db', a) = Cleared(db, a)
  <2>1. \A row \in db.rows : row.rec # 0 => row \in db'.rows
    <3>1. \A row \in db.rows : row.rec \in Nat
      BY DbFields, RowFields DEF TypeOK
    <3> QED BY <3>1 DEF Marks
  <2> QED BY <2>1 DEF Cleared
<1>8. RecsCleared'
  BY <1>5, <1>7 DEF RecsKept, RecsCleared, Beginning
<1> QED BY <1>3, <1>4, <1>6, <1>8 DEF RecsKept

LEMMA RecsPosted ==
  ASSUME TypeOK, TypeOK', RowIds, RecsKept, NEW r \in Requests, Served(r), PostedBy(r)
  PROVE  RecsKept'
<1>1. PICK n \in Nat, e \in Entry : Posts(n, e, req[r].kind) /\ Writes(r, e) /\ Aside
  BY DEF PostedBy
<1>2. PICK kind \in KindMap : kind = req[r].kind
  BY <1>1 DEF Writes
<1> DEFINE N == NewRows(db, n, e, kind)
<1>3. db'.rows = db.rows \cup N /\ db'.recs = db.recs
  BY <1>1, <1>2 DEF Posts, Aside
<1>4. \A x \in N : x.rec = 0
  <2>1. db \in Database /\ IsFiniteSet(db.rows)
    BY DEF TypeOK
  <2>2. \A a \in Touched(e.lines) : NewRow(db, n, e, kind, a).rec = 0
    BY <2>1, NewRowFields
  <2> QED BY <2>2 DEF NewRows
<1> HIDE DEF N
<1>5. \A id \in Nat \ {0} : Marks(id)' = Marks(id)
  BY <1>3, <1>4 DEF Marks
<1>6. \A row \in db'.rows : row.rec # 0 => row \in db.rows
  BY <1>3, <1>4
<1>7. writes <= writes'
  BY DEF Served, Finished, TypeOK
<1> QED BY <1>3, <1>5, <1>6, <1>7, RecsUntouched

LEMMA RecsQuiet ==
  ASSUME TypeOK, TypeOK', RecsKept, db'.rows = db.rows, db'.recs = db.recs, writes <= writes'
  PROVE  RecsKept'
<1>1. \A id \in Nat \ {0} : Marks(id)' = Marks(id)
  BY DEF Marks
<1> QED BY <1>1, RecsUntouched

(* The order of an account's reconciliations. *)
LEMMA EarlierOrders ==
  ASSUME TypeOK, NEW x \in db.recs, NEW y \in db.recs, x.id # y.id
  PROVE  Earlier(x, y) <=> ~Earlier(y, x)
<1>1. x.id \in Nat /\ y.id \in Nat /\ x.day \in Nat /\ y.day \in Nat
  BY RecFields
<1> QED BY <1>1 DEF Earlier

(* A set of rows is marked anew.                                            *)
LEMMA RemarkedSet ==
  ASSUME TypeOK, RowIds, NEW M, Remarked(M), NEW S \in SUBSET db.rows,
         NEW T, \A row \in db.rows : Marked(row, M) \in T <=> row \in S, T \subseteq db'.rows
  PROVE  Amounts(T) = Amounts(S)
<1>1. T = {Marked(row, M) : row \in S}
  <2>1. db'.rows = {Marked(row, M) : row \in db.rows}
    BY DEF Remarked
  <2>2. \A row \in db.rows : Marked(row, M) \in T <=> row \in S
    OBVIOUS
  <2> QED BY <2>1, <2>2
<1>2. Amounts({Marked(row, M) : row \in S}) = Amounts(S)
  BY AmountsRemarked
<1> QED BY <1>1, <1>2

LEMMA RecsReconciled ==
  ASSUME TypeOK, TypeOK', RowIds, RecsKept, NEW r \in Requests, ReadNow(req[r]),
         req[r].op = "reconcile", Served(r), ReconcileEffect(r)
  PROVE  RecsKept'
<1>0. PICK c : c = req[r]
  OBVIOUS
<1>1. /\ c.S \subseteq db.rows /\ (\A row \in c.S : row.acct = c.a /\ row.rec = 0)
      /\ c.from = Beginning(db, c.a) /\ \A x \in OfAccount(db, c.a) : x.day <= c.day
  BY <1>0 DEF ReadNow, MayReconcile
<1>2. PICK w : w = writes + 1
  OBVIOUS
<1>3. writes \in Nat /\ w \in Nat /\ w # 0 /\ writes' = w
  BY <1>2 DEF TypeOK, Served, Finished
<1>4. PICK S \in SUBSET db.rows : S = c.S
  BY <1>1
<1>5. PICK M : M = MarkOf(c, w)
  OBVIOUS
<1>6. Remarked(M) /\ c \in ReconcileCall
  BY <1>0, <1>2, <1>5 DEF ReconcileEffect
<1>7. PICK rec \in Rec : /\ db'.recs = db.recs \cup {rec}
                         /\ rec.id = w /\ rec.acct = c.a /\ rec.day = c.day
                         /\ rec.from = c.from /\ rec.to = c.from + Amounts(S)
  BY <1>0, <1>2, <1>4 DEF ReconcileEffect
<1>8. \A row \in db.rows : M[row] = IF row \in S THEN w ELSE row.rec
  <2> TAKE row \in db.rows
  <2>1. row.id \in {x.id : x \in c.S} <=> row \in S
    BY <1>4 DEF RowIds
  <2> QED BY <1>5, <2>1 DEF MarkOf
<1>9. \A row \in db.rows : /\ Marked(row, M).rec = M[row] /\ Marked(row, M).acct = row.acct
                           /\ Marked(row, M) \in db'.rows
                           /\ row.rec \in Nat
  BY <1>6, DbFields, MarkedFields, RowFields DEF TypeOK, Remarked
<1>10. \A x \in db.recs : /\ x.id \in Nat /\ 1 <= x.id /\ x.id <= writes /\ x.id # w /\ x.id # 0
  BY <1>2, <1>3, RecFields DEF RecsKept, RecsNumbered
<1>11. \A row \in db.rows : row.rec # w /\ (row.rec # 0 => row \notin S)
  BY <1>1, <1>3, <1>4, <1>10 DEF RecsKept, RecsNumbered
<1>12. rec \notin db.recs
  BY <1>7, <1>10
<1>13. db'.rows = {Marked(row, M) : row \in db.rows}
  BY <1>6 DEF Remarked
<1>14. RecsNumbered'
  <2>1. \A x, y \in db'.recs : x.id = y.id => x = y
    BY <1>7, <1>10 DEF RecsKept, RecsNumbered
  <2>2. \A x \in db'.recs : 1 <= x.id /\ x.id <= writes'
    BY <1>3, <1>2, <1>7, <1>10
  <2>3. ASSUME NEW row \in db.rows, Marked(row, M).rec # 0
        PROVE  \E x \in db'.recs : x.id = Marked(row, M).rec /\ x.acct = Marked(row, M).acct
    BY <1>1, <1>4, <1>7, <1>8, <1>9, <2>3 DEF RecsKept, RecsNumbered
  <2> QED BY <1>13, <2>1, <2>2, <2>3 DEF RecsNumbered
<1>15. ASSUME NEW x \in db.recs
       PROVE  Amounts(Marks(x.id)') = Amounts(Marks(x.id))
  <2>1. \A row \in db.rows : Marked(row, M) \in Marks(x.id)' <=> row \in Marks(x.id)
    BY <1>8, <1>9, <1>10, <1>11 DEF Marks
  <2>2. Marks(x.id) \in SUBSET db.rows /\ Marks(x.id)' \subseteq db'.rows
    BY DEF Marks
  <2> QED BY <1>6, <2>1, <2>2, RemarkedSet
<1>16. Amounts(Marks(w)') = Amounts(S)
  <2>1. \A row \in db.rows : Marked(row, M) \in Marks(w)' <=> row \in S
    BY <1>8, <1>9, <1>11 DEF Marks
  <2>2. Marks(w)' \subseteq db'.rows
    BY DEF Marks
  <2> QED BY <1>6, <2>1, <2>2, RemarkedSet
<1>17. RecsMarked'
  BY <1>7, <1>15, <1>16 DEF RecsKept, RecsMarked
<1>18. \A x \in db.recs : Before(x)' = Before(x)
  <2> SUFFICES ASSUME NEW x \in db.recs PROVE Before(x)' = Before(x)
    OBVIOUS
  <2>1. ~(rec.acct = x.acct /\ Earlier(rec, x))
    <3> SUFFICES ASSUME rec.acct = x.acct PROVE ~Earlier(rec, x)
      OBVIOUS
    <3>1. x.day <= rec.day /\ x.id < rec.id
      <4>1. x \in OfAccount(db, c.a)
        BY <1>7 DEF OfAccount
      <4>2. x.day <= rec.day
        BY <1>1, <1>7, <4>1
      <4>3. x.id < rec.id
        BY <1>2, <1>3, <1>7, <1>10
      <4> QED BY <4>2, <4>3
    <3>2. x.day \in Nat /\ rec.day \in Nat /\ x.id \in Nat /\ rec.id \in Nat
      BY <1>3, <1>7, RecFields, GeneralLedgerAssumption DEF Rec
    <3> QED BY <3>1, <3>2 DEF Earlier
  <2> QED BY <1>7, <2>1 DEF Before, OfAccount
<1>19. Before(rec)' = OfAccount(db, c.a)
  <2>1. \A x \in OfAccount(db, c.a) : Earlier(x, rec)
    <3> TAKE x \in OfAccount(db, c.a)
    <3>1. x \in db.recs /\ x.day <= rec.day /\ x.id < rec.id
      BY <1>1, <1>2, <1>3, <1>7, <1>10 DEF OfAccount
    <3>2. x.day \in Nat /\ rec.day \in Nat /\ x.id \in Nat /\ rec.id \in Nat
      BY <1>3, <1>7, <3>1, RecFields, GeneralLedgerAssumption DEF Rec
    <3> QED BY <3>1, <3>2 DEF Earlier
  <2>2. ~Earlier(rec, rec)
    <3>1. rec.day \in Nat /\ rec.id \in Nat
      BY <1>3, <1>7, GeneralLedgerAssumption DEF Rec
    <3> QED BY <3>1 DEF Earlier
  <2> QED BY <1>7, <2>1, <2>2 DEF Before, OfAccount
<1>20. RecsBegin'
  <2>1. rec.from = Moves(OfAccount(db, c.a))
    <3>1. c.a \in Accounts
      BY <1>6 DEF ReconcileCall
    <3> QED BY <1>1, <1>7, <3>1 DEF RecsKept, RecsCleared
  <2> QED BY <1>7, <1>18, <1>19, <2>1 DEF RecsKept, RecsBegin
<1>21. RecsCleared'
  <2> SUFFICES ASSUME NEW a \in Accounts PROVE Beginning(db', a) = Moves(OfAccount(db', a))
    BY DEF RecsCleared
  <2>1. Beginning(db, a) = Moves(OfAccount(db, a))
    BY DEF RecsKept, RecsCleared
  <2>2. Cleared(db, a) \in SUBSET db.rows /\ Cleared(db', a) \subseteq db'.rows
    BY DEF Cleared
  <2>3. CASE a # c.a
    <3>1. OfAccount(db', a) = OfAccount(db, a)
      BY <1>7, <2>3 DEF OfAccount
    <3>2. \A row \in db.rows : Marked(row, M) \in Cleared(db', a) <=> row \in Cleared(db, a)
      BY <1>1, <1>4, <1>8, <1>9, <2>3 DEF Cleared
    <3>3. Amounts(Cleared(db', a)) = Amounts(Cleared(db, a))
      BY <1>6, <2>2, <3>2, RemarkedSet
    <3> QED BY <2>1, <3>1, <3>3 DEF Beginning
  <2>4. CASE a = c.a
    <3>1. OfAccount(db', a) = OfAccount(db, a) \cup {rec} /\ rec \notin OfAccount(db, a)
      BY <1>7, <1>12, <2>4 DEF OfAccount
    <3>2. \A row \in db.rows :
            Marked(row, M) \in Cleared(db', a) <=> row \in Cleared(db, a) \cup S
      BY <1>1, <1>3, <1>4, <1>8, <1>9, <2>4 DEF Cleared
    <3>3. Amounts(Cleared(db', a)) = Amounts(Cleared(db, a) \cup S)
      <4>1. Cleared(db, a) \cup S \in SUBSET db.rows
        BY <2>2
      <4> QED BY <1>6, <2>2, <3>2, <4>1, RemarkedSet
    <3>4. Cleared(db, a) \cap S = {}
      BY <1>11 DEF Cleared
    <3>5. /\ Amounts(Cleared(db, a) \cup S) = Amounts(Cleared(db, a)) + Amounts(S)
          /\ Amounts(S) \in Int
      BY <2>2, <3>4, RowSets, AmountsUnion
    <3>6. /\ Moves(OfAccount(db, a) \cup {rec}) = Moves(OfAccount(db, a)) + (rec.to - rec.from)
          /\ Moves(OfAccount(db, a)) \in Int
      <4>1. IsFiniteSet(OfAccount(db, a))
        <5>1. OfAccount(db, a) \in SUBSET db.recs
          BY DEF OfAccount
        <5> QED BY <5>1, RecFields, FS_Subset
      <4>2. \A y \in OfAccount(db, a) \cup {rec} : y.from \in Int /\ y.to \in Int
        BY RecFields DEF OfAccount, Rec
      <4> QED BY <3>1, <4>1, <4>2, MovesAdd
    <3>7. rec.to - rec.from = Amounts(S)
      <4>1. c.from \in Int
        BY <1>6 DEF ReconcileCall
      <4> QED BY <1>7, <3>5, <4>1
    <3> QED BY <2>1, <3>1, <3>3, <3>5, <3>6, <3>7 DEF Beginning
  <2> QED BY <2>3, <2>4
<1> QED BY <1>14, <1>17, <1>20, <1>21 DEF RecsKept

LEMMA RecsUndone ==
  ASSUME TypeOK, TypeOK', RowIds, RecsKept, NEW r \in Requests, ReadNow(req[r]),
         req[r].op = "undo", Served(r), UndoEffect(r)
  PROVE  RecsKept'
<1>0. PICK c : c = req[r]
  OBVIOUS
<1>1. PICK rec \in db.recs : rec.id = c.id /\ IsLast(db, rec)
  BY <1>0 DEF ReadNow
<1>2. PICK M : M = UnmarkOf(c)
  OBVIOUS
<1>3. Remarked(M) /\ db'.recs = {x \in db.recs : x.id # c.id}
  BY <1>0, <1>2 DEF UndoEffect
<1>4. writes \in Nat /\ writes' = writes + 1
  BY DEF TypeOK, Served, Finished
<1>5. /\ \A x, y \in db.recs : x.id = y.id => x = y
      /\ \A x \in db.recs : 1 <= x.id /\ x.id <= writes /\ x.id \in Nat /\ x.id # 0
      /\ \A row \in db.rows : row.rec # 0 => \E x \in db.recs : x.id = row.rec /\ x.acct = row.acct
  BY RecFields DEF RecsKept, RecsNumbered
<1>6. db'.recs = db.recs \ {rec}
  BY <1>1, <1>3, <1>5
<1>7. \A row \in db.rows : /\ Marked(row, M).rec = IF row.rec = rec.id THEN 0 ELSE row.rec
                           /\ Marked(row, M).acct = row.acct
                           /\ Marked(row, M) \in db'.rows
  <2>1. \A row \in db.rows : M[row] = IF row.rec = rec.id THEN 0 ELSE row.rec
    BY <1>1, <1>2 DEF UnmarkOf
  <2> QED BY <1>3, <2>1, DbFields, MarkedFields DEF TypeOK, Remarked
<1>8. db'.rows = {Marked(row, M) : row \in db.rows}
  BY <1>3 DEF Remarked
<1>9. RecsNumbered'
  <2>1. ASSUME NEW row \in db.rows, Marked(row, M).rec # 0
        PROVE  \E x \in db'.recs : x.id = Marked(row, M).rec /\ x.acct = Marked(row, M).acct
    BY <1>5, <1>6, <1>7, <2>1
  <2>2. \A x \in db'.recs : 1 <= x.id /\ x.id <= writes'
    BY <1>4, <1>5, <1>6
  <2>3. \A x, y \in db'.recs : x.id = y.id => x = y
    BY <1>5, <1>6
  <2> QED BY <1>8, <2>1, <2>2, <2>3 DEF RecsNumbered
<1>10. RecsMarked'
  <2> SUFFICES ASSUME NEW x \in db'.recs PROVE x.to = x.from + Amounts(Marks(x.id)')
    BY DEF RecsMarked
  <2>1. x \in db.recs /\ x.id # rec.id /\ x.id # 0
    BY <1>1, <1>3, <1>5, <1>6
  <2>2. \A row \in db.rows : Marked(row, M) \in Marks(x.id)' <=> row \in Marks(x.id)
    BY <1>7, <2>1 DEF Marks
  <2>3. Marks(x.id) \in SUBSET db.rows /\ Marks(x.id)' \subseteq db'.rows
    BY DEF Marks
  <2>4. Amounts(Marks(x.id)') = Amounts(Marks(x.id))
    BY <1>3, <2>2, <2>3, RemarkedSet
  <2> QED BY <2>1, <2>4 DEF RecsKept, RecsMarked
<1>11. RecsBegin'
  <2> SUFFICES ASSUME NEW x \in db'.recs PROVE x.from = Moves(Before(x)')
    BY DEF RecsBegin
  <2>1. x \in db.recs
    BY <1>6
  <2>2. rec.acct = x.acct => ~Earlier(rec, x)
    BY <1>1, <2>1 DEF IsLast, OfAccount
  <2>3. Before(x)' = Before(x)
    BY <1>6, <2>2 DEF Before, OfAccount
  <2> QED BY <2>1, <2>3 DEF RecsKept, RecsBegin
<1>12. RecsCleared'
  <2> SUFFICES ASSUME NEW a \in Accounts PROVE Beginning(db', a) = Moves(OfAccount(db', a))
    BY DEF RecsCleared
  <2>1. Beginning(db, a) = Moves(OfAccount(db, a))
    BY DEF RecsKept, RecsCleared
  <2>2. Cleared(db, a) \in SUBSET db.rows /\ Cleared(db', a) \subseteq db'.rows
    BY DEF Cleared
  <2>3. CASE a # rec.acct
    <3>1. OfAccount(db', a) = OfAccount(db, a)
      BY <1>6, <2>3 DEF OfAccount
    <3>2. \A row \in db.rows : row.acct = a => row.rec # rec.id
      BY <1>5, <2>3
    <3>3. \A row \in db.rows : Marked(row, M) \in Cleared(db', a) <=> row \in Cleared(db, a)
      BY <1>7, <3>2 DEF Cleared
    <3>4. Amounts(Cleared(db', a)) = Amounts(Cleared(db, a))
      BY <1>3, <2>2, <3>3, RemarkedSet
    <3> QED BY <2>1, <3>1, <3>4 DEF Beginning
  <2>4. CASE a = rec.acct
    <3> DEFINE S == Cleared(db, a) \ Marks(rec.id)
               O == OfAccount(db, a) \ {rec}
    <3>1. OfAccount(db', a) = O /\ rec \notin O /\ OfAccount(db, a) = O \cup {rec}
      BY <1>6, <2>4 DEF OfAccount
    <3>2. \A row \in db.rows : Marked(row, M) \in Cleared(db', a) <=> row \in S
      BY <1>7 DEF Cleared, Marks
    <3>3. \A row \in db.rows : row.rec = rec.id => row.acct = a
      BY <1>5, <2>4
    <3>4. /\ S \in SUBSET db.rows /\ Marks(rec.id) \in SUBSET db.rows /\ S \cap Marks(rec.id) = {}
          /\ Cleared(db, a) = S \cup Marks(rec.id)
      BY <1>5, <3>3 DEF Cleared, Marks
    <3>5. \A y \in O \cup {rec} : y.from \in Int /\ y.to \in Int
      BY RecFields DEF OfAccount
    <3>6. IsFiniteSet(O)
      <4>1. O \in SUBSET db.recs
        BY DEF OfAccount
      <4> QED BY <4>1, RecFields, FS_Subset
    <3> HIDE DEF S, O
    <3>7. Amounts(Cleared(db', a)) = Amounts(S)
      BY <1>3, <2>2, <3>2, <3>4, RemarkedSet
    <3>8. /\ Amounts(Cleared(db, a)) = Amounts(S) + Amounts(Marks(rec.id))
          /\ Amounts(S) \in Int /\ Amounts(Marks(rec.id)) \in Int
      BY <3>4, RowSets, AmountsUnion
    <3>9. Moves(O \cup {rec}) = Moves(O) + (rec.to - rec.from) /\ Moves(O) \in Int
      BY <3>1, <3>5, <3>6, MovesAdd
    <3>10. rec.to = rec.from + Amounts(Marks(rec.id)) /\ rec.from \in Int
      BY RecFields DEF RecsKept, RecsMarked
    <3>11. Amounts(S) + Amounts(Marks(rec.id)) = Moves(O) + (rec.to - rec.from)
      BY <2>1, <3>1, <3>8, <3>9 DEF Beginning
    <3>12. rec.to - rec.from = Amounts(Marks(rec.id))
      BY <3>8, <3>10
    <3>13. Amounts(S) = Moves(O)
      <4>1. Amounts(S) + Amounts(Marks(rec.id)) = Moves(O) + Amounts(Marks(rec.id))
        BY <3>11, <3>12
      <4>2. PICK i \in Int, j \in Int, k \in Int :
              i = Amounts(S) /\ j = Moves(O) /\ k = Amounts(Marks(rec.id))
        BY <3>8, <3>9
      <4>3. i + k = j + k
        BY <4>1, <4>2
      <4>4. i = j
        BY <4>3
      <4> QED BY <4>2, <4>4
    <3> QED BY <3>1, <3>7, <3>13 DEF Beginning
  <2> QED BY <2>3, <2>4
<1> QED BY <1>9, <1>10, <1>11, <1>12 DEF RecsKept

LEMMA RecsStep ==
  ASSUME TypeOK, TypeOK', RowIds, Exclusive, Current, apart => RecsKept, [Next]_vars
  PROVE  apart' => RecsKept'
<1> SUFFICES ASSUME apart' PROVE RecsKept'
  OBVIOUS
<1>a. writes \in Nat
  BY DEF TypeOK
<1>1. ASSUME db' = db, apart, writes' = writes
      PROVE  RecsKept'
  BY <1>1, <1>a, RecsQuiet
<1>2. CASE UNCHANGED vars
  BY <1>1, <1>2 DEF vars
<1>3. CASE Next
  <2>1. PICK r \in Requests :
          (\E c : AskedFor(r, c)) \/ (\E x : Drawn(r, x)) \/ Served(r) \/ Dropped(r)
    BY <1>3, Steps
  <2>2. ASSUME NEW c, AskedFor(r, c) PROVE RecsKept'
    <3>1. writes' = writes
      BY <2>2 DEF AskedFor, Ask
    <3> QED BY <1>1, <2>2, <3>1, AfterAsking
  <2>3. ASSUME NEW x, Drawn(r, x) PROVE RecsKept'
    <3>1. writes' = writes
      BY <2>3 DEF Drawn
    <3> QED BY <1>1, <2>3, <3>1, AfterDrawing
  <2>4. CASE Dropped(r)
    <3>1. writes' = writes
      BY <2>4 DEF Dropped
    <3> QED BY <1>1, <2>4, <3>1, AfterServing
  <2>5. CASE Served(r)
    <3>1. apart /\ ReadNow(req[r]) /\ RecsKept
      BY <2>5, AfterServing DEF Current
    <3>2. CASE req[r].op = "reconcile"
      <4>1. ReconcileEffect(r)
        BY <2>5, <3>2 DEF Served, Effect
      <4> QED BY <2>5, <3>1, <3>2, <4>1, RecsReconciled
    <3>3. CASE req[r].op = "undo"
      <4>1. UndoEffect(r)
        BY <2>5, <3>3 DEF Served, Effect
      <4> QED BY <2>5, <3>1, <3>3, <4>1, RecsUndone
    <3>4. CASE req[r].op \notin {"reconcile", "undo"}
      <4>1. db'.recs = db.recs
        BY <2>5, <3>4 DEF Served, Effect, Aside, CloseEffect
      <4>2. CASE PostedBy(r)
        BY <2>5, <3>1, <4>2, RecsPosted
      <4>3. CASE Quiet(r)
        <5>1. writes <= writes'
          BY <1>a, <2>5 DEF Served, Finished
        <5> QED BY <3>1, <4>1, <4>3, <5>1, RecsQuiet DEF Quiet
      <4> QED BY <2>5, <3>4, <4>2, <4>3, RowEffects
    <3> QED BY <3>2, <3>3, <3>4
  <2> QED BY <2>1, <2>2, <2>3, <2>4, <2>5
<1> QED BY <1>2, <1>3

LEMMA RecsInit == ASSUME Init PROVE RecsKept
<1>1. db.recs = {} /\ db.rows = {}
  BY DEF Init
<1>2. \A a : OfAccount(db, a) = {} /\ Cleared(db, a) = {}
  BY <1>1 DEF OfAccount, Cleared
<1>3. Moves({}) = 0 /\ Amounts({}) = 0
  BY SumEmpty DEF Moves, Amounts
<1> QED BY <1>1, <1>2, <1>3
        DEF RecsKept, RecsNumbered, RecsMarked, RecsBegin, RecsCleared, Beginning

LEMMA RollsForward ==
  ASSUME TypeOK, RecsKept
  PROVE  \A rec \in db.recs :
           /\ rec.from = Sum([x \in db.recs |-> x.to - x.from], Before(rec))
           /\ IsLast(db, rec) => Beginning(db, rec.acct) = rec.to
<1> SUFFICES ASSUME NEW rec \in db.recs
             PROVE  /\ rec.from = Sum([x \in db.recs |-> x.to - x.from], Before(rec))
                    /\ IsLast(db, rec) => Beginning(db, rec.acct) = rec.to
  OBVIOUS
<1> DEFINE B == Before(rec)
           f == [x \in db.recs |-> x.to - x.from]
           g == [x \in B |-> x.to - x.from]
<1>1. B \in SUBSET db.recs
  BY DEF Before, OfAccount
<1>2. IsFiniteSet(B)
  BY <1>1, RecFields, FS_Subset
<1>3. \A x \in B : f[x] = g[x]
  BY <1>1
<1>4. rec.from = Moves(B)
  BY DEF RecsKept, RecsBegin
<1>5. ~Earlier(rec, rec)
  BY RecFields DEF Earlier
<1>6. rec \notin B
  BY <1>5 DEF Before
<1>7. IsLast(db, rec) => OfAccount(db, rec.acct) = B \cup {rec}
  <2> SUFFICES ASSUME IsLast(db, rec) PROVE OfAccount(db, rec.acct) = B \cup {rec}
    OBVIOUS
  <2>1. \A x \in OfAccount(db, rec.acct) \ {rec} : Earlier(x, rec)
    <3> TAKE x \in OfAccount(db, rec.acct) \ {rec}
    <3>1. x \in db.recs /\ x.id # rec.id /\ ~Earlier(rec, x)
      BY DEF OfAccount, IsLast, RecsKept, RecsNumbered
    <3> QED BY <3>1, EarlierOrders
  <2>2. rec \in OfAccount(db, rec.acct)
    BY DEF OfAccount
  <2> QED BY <2>1, <2>2 DEF Before
<1>8. Moves(B) = Sum(g, B)
  BY DEF Moves
<1> HIDE DEF B, f, g
<1>9. Sum(f, B) = Sum(g, B)
  BY <1>2, <1>3, SumSame
<1>10. Moves(B \cup {rec}) = Moves(B) + (rec.to - rec.from) /\ Moves(B) \in Int
  <2>1. \A y \in B \cup {rec} : y.from \in Int /\ y.to \in Int
    BY <1>1, RecFields
  <2> QED BY <1>2, <1>6, <2>1, MovesAdd
<1>11. IsLast(db, rec) => Beginning(db, rec.acct) = rec.to
  <2> SUFFICES ASSUME IsLast(db, rec) PROVE Beginning(db, rec.acct) = rec.to
    OBVIOUS
  <2>1. Beginning(db, rec.acct) = Moves(B \cup {rec})
    BY <1>7, RecFields DEF RecsKept, RecsCleared
  <2>2. rec.from \in Int /\ rec.to \in Int
    BY RecFields
  <2> QED BY <1>4, <1>10, <2>1, <2>2
<1> QED BY <1>4, <1>8, <1>9, <1>11 DEF B, f

(* Served one by one, a reconciliation begins where the one before it ended *)
(* and the last ends at what is cleared: an undo takes back exactly the     *)
(* rows that its reconciliation marked.                                     *)
THEOREM ReconciliationsRollForward == Spec => []ReconciliationRollsForward
<1>1. TypeOK /\ Exclusive /\ [Next]_vars => Exclusive'
  BY ExclusiveStep
<1>2. TypeOK /\ Exclusive /\ Current /\ [Next]_vars => Current'
  BY CurrentStep
<1>3. /\ TypeOK /\ TypeOK' /\ RowIds /\ Exclusive /\ Current /\ (apart => RecsKept)
      /\ [Next]_vars
      => (apart => RecsKept)'
  BY RecsStep
<1>4. Init => Exclusive /\ Current /\ RecsKept
  BY ExclusiveInit, CurrentInit, RecsInit
<1>5. TypeOK /\ (apart => RecsKept) => ReconciliationRollsForward
  BY RollsForward DEF ReconciliationRollsForward
<1> QED BY <1>1, <1>2, <1>3, <1>4, <1>5, LedgerTypes, RowsNumbered, PTL DEF Spec

-----------------------------------------------------------------------------
(* The statements, as equations between sums over any set of ledger rows    *)
(* in which every span of days is in balance.                               *)

Rows(L) ==
  IsFiniteSet(L) /\ \A r \in L : r.acct \in Accounts /\ r.day \in Nat /\ r.amt \in Int
Span(L, s, e) == {r \in L : s <= r.day /\ r.day <= e}
InBalance(L) == \A s, e \in Int : Amounts(Span(L, s, e)) = 0
Pnl == Revenue \cup Expense

LEMMA AmountsSplit ==
  ASSUME NEW S, NEW T, IsFiniteSet(S), IsFiniteSet(T), S \cap T = {},
         \A r \in S \cup T : r.amt \in Int
  PROVE  /\ Amounts(S \cup T) = Amounts(S) + Amounts(T)
         /\ Amounts(S) \in Int /\ Amounts(T) \in Int
<1> DEFINE f == [r \in S \cup T |-> r.amt]
           g == [r \in S |-> r.amt]
           h == [r \in T |-> r.amt]
<1>1. /\ \A r \in S \cup T : f[r] \in Int
      /\ \A r \in S : f[r] = g[r] /\ g[r] \in Int
      /\ \A r \in T : f[r] = h[r] /\ h[r] \in Int
  OBVIOUS
<1>2. Amounts(S \cup T) = Sum(f, S \cup T) /\ Amounts(S) = Sum(g, S) /\ Amounts(T) = Sum(h, T)
  BY DEF Amounts
<1> HIDE DEF f, g, h
<1>3. Sum(f, S \cup T) = Sum(f, S) + Sum(f, T)
  BY <1>1, SumDisjoint
<1>4. Sum(f, S) = Sum(g, S) /\ Sum(f, T) = Sum(h, T)
  BY <1>1, SumSame
<1>5. Sum(g, S) \in Int /\ Sum(h, T) \in Int
  BY <1>1, SumInt
<1> QED BY <1>2, <1>3, <1>4, <1>5

(* Rows of two sorts of accounts, and rows of two spans of days.            *)
LEMMA NetSplit ==
  ASSUME NEW L, Rows(L), NEW kind, NEW K, NEW J, K \cap J = {}, NEW s, NEW e
  PROVE  /\ Net(L, kind, K \cup J, s, e) = Net(L, kind, K, s, e) + Net(L, kind, J, s, e)
         /\ Net(L, kind, K, s, e) \in Int /\ Net(L, kind, J, s, e) \in Int
<1> DEFINE S == In(L, kind, K, s, e)
           T == In(L, kind, J, s, e)
<1>1. S \in SUBSET L /\ T \in SUBSET L /\ S \cap T = {}
      /\ In(L, kind, K \cup J, s, e) = S \cup T
  BY DEF In
<1> HIDE DEF S, T
<1>2. IsFiniteSet(S) /\ IsFiniteSet(T) /\ \A r \in S \cup T : r.amt \in Int
  BY <1>1, FS_Subset DEF Rows
<1>3. /\ Amounts(S \cup T) = Amounts(S) + Amounts(T)
      /\ Amounts(S) \in Int /\ Amounts(T) \in Int
  BY <1>1, <1>2, AmountsSplit
<1> QED BY <1>1, <1>3 DEF Net, S, T

LEMMA NetSpans ==
  ASSUME NEW L, Rows(L), NEW kind, NEW K, NEW s \in Int, NEW m \in Int, NEW e \in Int,
         s <= m, m <= e + 1
  PROVE  /\ Net(L, kind, K, s, e) = Net(L, kind, K, s, m - 1) + Net(L, kind, K, m, e)
         /\ Net(L, kind, K, s, m - 1) \in Int /\ Net(L, kind, K, m, e) \in Int
<1> DEFINE S == In(L, kind, K, s, m - 1)
           T == In(L, kind, K, m, e)
<1>1. \A r \in L : r.day \in Int
  BY DEF Rows
<1>2. S \in SUBSET L /\ T \in SUBSET L
  BY DEF In
<1>3. S \cap T = {} /\ In(L, kind, K, s, e) = S \cup T
  BY <1>1 DEF In
<1> HIDE DEF S, T
<1>4. IsFiniteSet(S) /\ IsFiniteSet(T) /\ \A r \in S \cup T : r.amt \in Int
  BY <1>2, FS_Subset DEF Rows
<1>5. /\ Amounts(S \cup T) = Amounts(S) + Amounts(T)
      /\ Amounts(S) \in Int /\ Amounts(T) \in Int
  BY <1>3, <1>4, AmountsSplit
<1> QED BY <1>3, <1>5 DEF Net, S, T

LEMMA NetOfSpans ==
  ASSUME NEW L, Rows(L), NEW a, NEW s \in Int, NEW m \in Int, NEW e \in Int, s <= m, m <= e + 1
  PROVE  NetOf(L, a, s, e) = NetOf(L, a, s, m - 1) + NetOf(L, a, m, e)
<1> DEFINE S == {r \in L : r.acct = a /\ s <= r.day /\ r.day <= m - 1}
           T == {r \in L : r.acct = a /\ m <= r.day /\ r.day <= e}
<1>1. \A r \in L : r.day \in Int
  BY DEF Rows
<1>2. S \in SUBSET L /\ T \in SUBSET L
  OBVIOUS
<1>3. S \cap T = {} /\ {r \in L : r.acct = a /\ s <= r.day /\ r.day <= e} = S \cup T
  BY <1>1
<1> HIDE DEF S, T
<1>4. IsFiniteSet(S) /\ IsFiniteSet(T) /\ \A r \in S \cup T : r.amt \in Int
  BY <1>2, FS_Subset DEF Rows
<1>5. Amounts(S \cup T) = Amounts(S) + Amounts(T)
  BY <1>3, <1>4, AmountsSplit
<1> QED BY <1>3, <1>5 DEF NetOf, S, T

(* Double entry: over any span of days, assets are matched by liabilities,  *)
(* equity and earnings.                                                     *)
LEMMA KindsBalance ==
  ASSUME NEW L, Rows(L), InBalance(L), NEW kind \in [Accounts -> Kinds], NEW s \in Int, NEW e \in Int
  PROVE  /\ Net(L, kind, Assets, s, e) + Net(L, kind, Liabilities, s, e)
              + Net(L, kind, {"equity"}, s, e) + Net(L, kind, {"retained"}, s, e)
              + Net(L, kind, Pnl, s, e) = 0
         /\ Net(L, kind, Assets, s, e) \in Int /\ Net(L, kind, Liabilities, s, e) \in Int
         /\ Net(L, kind, {"equity"}, s, e) \in Int /\ Net(L, kind, {"retained"}, s, e) \in Int
         /\ Net(L, kind, Pnl, s, e) \in Int
<1> DEFINE A == Assets \cup Liabilities
           B == A \cup {"equity"}
           C == B \cup {"retained"}
<1>1. /\ Assets \cap Liabilities = {} /\ A \cap {"equity"} = {} /\ B \cap {"retained"} = {}
      /\ C \cap Pnl = {} /\ C \cup Pnl = Kinds
  BY DEF Assets, CashKinds, OtherAssets, Liabilities, Pnl, Revenue, Expense, Kinds, Equity
<1>2. Net(L, kind, Kinds, s, e) = 0
  <2>1. In(L, kind, Kinds, s, e) = Span(L, s, e)
    BY DEF In, Span, Rows
  <2> QED BY <2>1 DEF Net, InBalance
<1> HIDE DEF A, B, C
<1>3. /\ Net(L, kind, C \cup Pnl, s, e) = Net(L, kind, C, s, e) + Net(L, kind, Pnl, s, e)
      /\ Net(L, kind, C, s, e) \in Int /\ Net(L, kind, Pnl, s, e) \in Int
  BY <1>1, NetSplit
<1>4. /\ Net(L, kind, B \cup {"retained"}, s, e)
           = Net(L, kind, B, s, e) + Net(L, kind, {"retained"}, s, e)
      /\ Net(L, kind, B, s, e) \in Int /\ Net(L, kind, {"retained"}, s, e) \in Int
  BY <1>1, NetSplit
<1>5. /\ Net(L, kind, A \cup {"equity"}, s, e)
           = Net(L, kind, A, s, e) + Net(L, kind, {"equity"}, s, e)
      /\ Net(L, kind, A, s, e) \in Int /\ Net(L, kind, {"equity"}, s, e) \in Int
  BY <1>1, NetSplit
<1>6. /\ Net(L, kind, Assets \cup Liabilities, s, e)
           = Net(L, kind, Assets, s, e) + Net(L, kind, Liabilities, s, e)
      /\ Net(L, kind, Assets, s, e) \in Int /\ Net(L, kind, Liabilities, s, e) \in Int
  BY <1>1, NetSplit
<1>7. /\ Net(L, kind, A, s, e) = Net(L, kind, Assets \cup Liabilities, s, e)
      /\ Net(L, kind, B, s, e) = Net(L, kind, A \cup {"equity"}, s, e)
      /\ Net(L, kind, C, s, e) = Net(L, kind, B \cup {"retained"}, s, e)
      /\ Net(L, kind, C \cup Pnl, s, e) = 0
  BY <1>1, <1>2 DEF A, B, C
<1> QED BY <1>3, <1>4, <1>5, <1>6, <1>7

(* Rows by group, each group's amounts added up.                            *)
LEMMA AmountsByGroup ==
  ASSUME NEW S, IsFiniteSet(S), \A r \in S : r.amt \in Int, NEW G, IsFiniteSet(G),
         NEW group, \A r \in S : group[r] \in G
  PROVE  /\ Amounts(S) = Sum([k \in G |-> Amounts({r \in S : group[r] = k})], G)
         /\ \A k \in G : Amounts({r \in S : group[r] = k}) \in Int
<1> DEFINE f == [r \in S |-> r.amt]
           Of(k) == {r \in S : group[r] = k}
           g(k) == [r \in Of(k) |-> r.amt]
           p == [k \in G |-> Sum(f, Of(k))]
           q == [k \in G |-> Amounts(Of(k))]
<1>1. Sum(f, S) = Sum(p, G)
  <2>1. \A r \in S : f[r] \in Int
    OBVIOUS
  <2> HIDE DEF f
  <2> QED BY <2>1, SumByGroup
<1>2. \A k \in G : Amounts(Of(k)) = Sum(f, Of(k)) /\ Amounts(Of(k)) \in Int
  <2> TAKE k \in G
  <2>1. Of(k) \in SUBSET S
    OBVIOUS
  <2>2. IsFiniteSet(Of(k))
    BY <2>1, FS_Subset
  <2>3. \A r \in Of(k) : g(k)[r] = f[r] /\ g(k)[r] \in Int
    BY <2>1
  <2>4. Amounts(Of(k)) = Sum(g(k), Of(k))
    BY DEF Amounts
  <2> HIDE DEF f, g, Of
  <2>5. Sum(g(k), Of(k)) = Sum(f, Of(k)) /\ Sum(g(k), Of(k)) \in Int
    BY <2>2, <2>3, SumSame, SumInt
  <2> QED BY <2>4, <2>5
<1>3. Amounts(S) = Sum(f, S)
  BY DEF Amounts
<1>4. p = q
  BY <1>2
<1> QED BY <1>1, <1>2, <1>3, <1>4

-----------------------------------------------------------------------------
(* Fiscal years: day d is in year FiscalYear(d), and in no other.           *)

LEMMA YearStarts ==
  ASSUME NEW k \in Int, NEW n \in Int, k < n
  PROVE  /\ k * YearLength \in Int /\ n * YearLength \in Int
         /\ (k + 1) * YearLength = k * YearLength + YearLength
         /\ k * YearLength + YearLength <= n * YearLength
         /\ YearLength \in Int /\ YearLength > 0
<1>1. PICK y \in Nat \ {0} : y = YearLength
  BY FinancialStatementsAssumption
<1>2. PICK x \in Nat : x = n - k - 1
  OBVIOUS
<1>3. n * y = k * y + y + x * y
  BY <1>2
<1>4. x * y >= 0 /\ x * y \in Int /\ k * y \in Int
  OBVIOUS
<1>5. (k + 1) * y = k * y + y
  OBVIOUS
<1> QED BY <1>1, <1>3, <1>4, <1>5

LEMMA YearOf ==
  ASSUME NEW d \in Nat
  PROVE  /\ FiscalYear(d) \in Nat /\ FiscalYearStart(d) \in Nat
         /\ FiscalYearStart(d) <= d /\ d < FiscalYearStart(d) + YearLength
         /\ \A k \in Int : k * YearLength <= d /\ d < k * YearLength + YearLength
                             <=> k = FiscalYear(d)
<1>1. PICK y \in Nat \ {0} : y = YearLength
  BY FinancialStatementsAssumption
<1>2. PICK n \in Int : n = d \div y
  OBVIOUS
<1>3. n * y <= d /\ d < n * y + y
  BY <1>2, d = y * (d \div y) + (d % y), d % y \in 0 .. (y - 1)
<1>4. n >= 0 /\ n * y >= 0 /\ n * y \in Int
  <2>1. CASE n < 0
    <3>1. n * y + y <= 0 * y
      BY <1>1, <2>1, YearStarts
    <3> QED BY <1>3, <3>1
  <2>2. CASE n >= 0
    BY <2>2
  <2> QED BY <2>1, <2>2
<1>5. ASSUME NEW k \in Int, k * y <= d, d < k * y + y
      PROVE  k = n
  <2>1. CASE k < n
    BY <1>1, <1>3, <1>5, <2>1, YearStarts
  <2>2. CASE n < k
    BY <1>1, <1>3, <1>5, <2>2, YearStarts
  <2> QED BY <2>1, <2>2
<1> QED BY <1>1, <1>2, <1>3, <1>4, <1>5 DEF FiscalYear, FiscalYearStart

(* What earlier years earned is what each of them earned, added up.         *)
LEMMA YearsAddUp ==
  ASSUME NEW L, Rows(L), NEW kind \in KindMap, NEW day \in Nat
  PROVE  LET years == 0 .. (FiscalYear(day) - 1)
             earned == [fy \in years |->
                          Earnings(L, kind, fy * YearLength, (fy + 1) * YearLength - 1)]
         IN /\ Sum(earned, years) = -Net(L, kind, Pnl, 0, FiscalYearStart(day) - 1)
            /\ PriorEarnings(L, kind, day) = Sum(earned, years)
            /\ PriorEarnings(L, kind, day) \in Int
<1> DEFINE n == FiscalYear(day)
           m == FiscalYearStart(day)
           G == 0 .. (n - 1)
           earned == [fy \in G |-> Earnings(L, kind, fy * YearLength, (fy + 1) * YearLength - 1)]
           S == In(L, kind, Pnl, 0, m - 1)
           group == [r \in S |-> FiscalYear(r.day)]
           Of(k) == {r \in S : group[r] = k}
           g == [k \in G |-> Amounts(Of(k))]
           zero == [k \in G |-> 0]
<1>1. n \in Nat /\ m \in Nat /\ m <= day /\ m = n * YearLength
  BY YearOf DEF FiscalYearStart
<1>2. IsFiniteSet(G)
  BY <1>1, FS_Interval
<1>3. S \in SUBSET L /\ IsFiniteSet(S) /\ \A r \in S : r.day \in Nat /\ r.amt \in Int
  <2>1. S \in SUBSET L
    BY DEF In
  <2> QED BY <2>1, FS_Subset DEF Rows
<1>4. \A r \in S : group[r] \in G
  <2> SUFFICES ASSUME NEW r \in S PROVE FiscalYear(r.day) \in G
    OBVIOUS
  <2>1. r.day \in Nat /\ r.day <= m - 1
    BY <1>3 DEF In
  <2>2. FiscalYear(r.day) \in Nat /\ FiscalYearStart(r.day) <= r.day
    BY <2>1, YearOf
  <2>3. ASSUME n <= FiscalYear(r.day) PROVE FALSE
    <3>1. n * YearLength <= FiscalYear(r.day) * YearLength
      BY <1>1, <2>2, <2>3, YearStarts
    <3>2. m <= FiscalYearStart(r.day)
      BY <1>1, <3>1 DEF FiscalYearStart
    <3>3. FiscalYearStart(r.day) \in Nat
      BY <2>1, YearOf
    <3> HIDE DEF m
    <3> QED BY <1>1, <2>1, <2>2, <3>2, <3>3
  <2> QED BY <1>1, <2>2, <2>3
<1>5. \A k \in G : Of(k) = In(L, kind, Pnl, k * YearLength, (k + 1) * YearLength - 1)
  <2> TAKE k \in G
  <2>1. /\ k \in Int /\ n \in Int /\ 0 <= k /\ k < n
    BY <1>1
  <2>2. /\ k * YearLength \in Int /\ (k + 1) * YearLength = k * YearLength + YearLength
        /\ k * YearLength + YearLength <= m /\ YearLength \in Int
    BY <1>1, <2>1, YearStarts
  <2>3. 0 <= k * YearLength
    <3>1. CASE k = 0
      BY <2>2, <3>1, FinancialStatementsAssumption
    <3>2. CASE 0 < k
      BY <2>1, <2>2, <3>2, YearStarts, FinancialStatementsAssumption
    <3> QED BY <2>1, <3>1, <3>2
  <2>4. \A r \in L : r.day \in Nat
    BY DEF Rows
  <2>5. \A r \in L : k * YearLength <= r.day /\ r.day < k * YearLength + YearLength
                       <=> k = FiscalYear(r.day)
    BY <2>1, <2>4, YearOf
  <2>6. \A r \in L : r.day <= (k + 1) * YearLength - 1 <=> r.day < k * YearLength + YearLength
    BY <2>2, <2>4
  <2>7. \A r \in L : k = FiscalYear(r.day) => 0 <= r.day /\ r.day <= m - 1
    BY <1>1, <2>2, <2>4, <2>5
  <2>8. Of(k) = {r \in In(L, kind, Pnl, 0, m - 1) : FiscalYear(r.day) = k}
    OBVIOUS
  <2> QED BY <2>5, <2>6, <2>7, <2>8 DEF In
<1> HIDE DEF n, m, S, group, G
<1>6. Amounts(S) = Sum(g, G) /\ \A k \in G : Amounts(Of(k)) \in Int
  BY <1>2, <1>3, <1>4, AmountsByGroup
<1>7. \A k \in G : earned[k] = -Net(L, kind, Pnl, k * YearLength, (k + 1) * YearLength - 1)
  BY DEF Earnings, Pnl
<1>8. \A k \in G : g[k] = Net(L, kind, Pnl, k * YearLength, (k + 1) * YearLength - 1)
  BY <1>5 DEF Net
<1>a. \A k \in G : g[k] \in Int
  BY <1>6
<1>9. \A k \in G : g[k] \in Int /\ earned[k] \in Int /\ zero[k] = g[k] + earned[k] /\ zero[k] = 0
  BY <1>a, <1>7, <1>8
<1> HIDE DEF earned, g, zero
<1>10. Sum(zero, G) = Sum(g, G) + Sum(earned, G) /\ Sum(zero, G) = 0
       /\ Sum(g, G) \in Int /\ Sum(earned, G) \in Int
  BY <1>2, <1>9, SumPlus, SumZero, SumInt
<1>11. Sum(earned, G) = -Net(L, kind, Pnl, 0, m - 1)
  BY <1>6, <1>10 DEF Net, S
<1>12. /\ Net(L, kind, Pnl, 0, day) = Net(L, kind, Pnl, 0, m - 1) + Net(L, kind, Pnl, m, day)
       /\ Net(L, kind, Pnl, 0, m - 1) \in Int /\ Net(L, kind, Pnl, m, day) \in Int
  BY <1>1, NetSpans
<1>13. PriorEarnings(L, kind, day) = -Net(L, kind, Pnl, 0, day) + Net(L, kind, Pnl, m, day)
  BY <1>12 DEF PriorEarnings, Earnings, Pnl, m
<1> QED BY <1>10, <1>11, <1>12, <1>13 DEF G, earned, n, m

(* A trial balance that takes revenue and expense from day y on foots with  *)
(* what these came to before.                                               *)
LEMMA TrialFoots ==
  ASSUME NEW L, Rows(L), InBalance(L), NEW kind \in KindMap, NEW y \in Int, NEW e \in Int
  PROVE  Sum([a \in Accounts |-> NetOf(L, a, IF IsPnl(kind[a]) THEN y ELSE 0, e)], Accounts)
           + (Net(L, kind, Pnl, 0, e) - Net(L, kind, Pnl, y, e)) = 0
<1> DEFINE K == Kinds \ Pnl
           from(a) == IF IsPnl(kind[a]) THEN y ELSE 0
           S == In(L, kind, K, 0, e)
           T == In(L, kind, Pnl, y, e)
           group == [r \in S \cup T |-> r.acct]
           Of(a) == {r \in S \cup T : group[r] = a}
           g == [a \in Accounts |-> Amounts(Of(a))]
           f == [a \in Accounts |-> NetOf(L, a, from(a), e)]
<1>1. S \in SUBSET L /\ T \in SUBSET L /\ S \cap T = {}
  BY DEF In
<1>2. /\ IsFiniteSet(S) /\ IsFiniteSet(T) /\ IsFiniteSet(S \cup T) /\ IsFiniteSet(Accounts)
      /\ \A r \in S \cup T : r.amt \in Int /\ r.acct \in Accounts
  <2>1. IsFiniteSet(S) /\ IsFiniteSet(T)
    BY <1>1, FS_Subset DEF Rows
  <2> QED BY <1>1, <2>1, FS_Union, GeneralLedgerAssumption DEF Rows
<1>3. \A a \in Accounts : Of(a) = {r \in L : r.acct = a /\ from(a) <= r.day /\ r.day <= e}
  <2> TAKE a \in Accounts
  <2>1. kind[a] \in Kinds /\ (IsPnl(kind[a]) <=> kind[a] \in Pnl)
    BY DEF KindMap, IsPnl, Pnl
  <2>2. \A r \in L : r.acct = a => (r \in S \cup T <=> from(a) <= r.day /\ r.day <= e)
    BY <2>1 DEF In
  <2> QED BY <1>1, <2>2
<1>4. f = g
  BY <1>3 DEF NetOf
<1>5. \A r \in S \cup T : group[r] \in Accounts
  BY <1>2
<1> HIDE DEF S, T, group
<1>6. Amounts(S \cup T) = Sum(g, Accounts)
  BY <1>2, <1>5, AmountsByGroup
<1>7. /\ Amounts(S \cup T) = Amounts(S) + Amounts(T)
      /\ Amounts(S) \in Int /\ Amounts(T) \in Int
  BY <1>1, <1>2, AmountsSplit
<1>8. Amounts(S) = Net(L, kind, K, 0, e) /\ Amounts(T) = Net(L, kind, Pnl, y, e)
  BY DEF S, T, Net
<1>9. K \cap Pnl = {} /\ K \cup Pnl = Kinds
  BY DEF Pnl, Revenue, Expense, Kinds
<1> HIDE DEF K
<1>10. /\ Net(L, kind, K \cup Pnl, 0, e) = Net(L, kind, K, 0, e) + Net(L, kind, Pnl, 0, e)
       /\ Net(L, kind, K, 0, e) \in Int /\ Net(L, kind, Pnl, 0, e) \in Int
  BY <1>9, NetSplit
<1>11. Net(L, kind, K \cup Pnl, 0, e) = 0
  <2>1. In(L, kind, Kinds, 0, e) = Span(L, 0, e)
    BY DEF In, Span, Rows, KindMap
  <2> QED BY <1>9, <2>1 DEF Net, InBalance
<1> HIDE DEF g, f
<1>12. Sum(f, Accounts) + (Net(L, kind, Pnl, 0, e) - Net(L, kind, Pnl, y, e)) = 0
  BY <1>4, <1>6, <1>7, <1>8, <1>10, <1>11
<1> QED BY <1>12 DEF f

LEMMA BalanceSheetBalances ==
  ASSUME NEW L, Rows(L), InBalance(L), NEW kind \in KindMap, NEW day \in Nat
  PROVE  LET bs == BalanceSheet(L, kind, day)
         IN /\ bs.assets = bs.liabilities + bs.equity + bs.retained + bs.current
            /\ bs.retained = RetainedEarnings(L, kind, day)
<1> DEFINE net(K) == Net(L, kind, K, 0, day)
           prior == PriorEarnings(L, kind, day)
           current == Earnings(L, kind, FiscalYearStart(day), day)
<1>1. /\ net(Assets) + net(Liabilities) + net({"equity"}) + net({"retained"}) + net(Pnl) = 0
      /\ net(Assets) \in Int /\ net(Liabilities) \in Int /\ net({"equity"}) \in Int
      /\ net({"retained"}) \in Int /\ net(Pnl) \in Int
  BY KindsBalance DEF KindMap
<1>2. prior = -net(Pnl) - current /\ current \in Int /\ prior \in Int
  <2>1. FiscalYearStart(day) \in Nat /\ FiscalYearStart(day) <= day
    BY YearOf
  <2>2. Net(L, kind, Pnl, FiscalYearStart(day), day) \in Int
    BY <2>1, NetSpans
  <2> QED BY <1>1, <2>2, YearsAddUp DEF PriorEarnings, Earnings, Pnl
<1>3. RetainedEarnings(L, kind, day) = prior - net({"retained"})
  BY YearsAddUp DEF RetainedEarnings
<1>4. PICK bs : bs = BalanceSheet(L, kind, day)
  OBVIOUS
<1>5. /\ bs.assets = net(Assets) /\ bs.liabilities = -net(Liabilities)
      /\ bs.equity = -net({"equity"}) /\ bs.retained = -net({"retained"}) + prior
      /\ bs.current = current
  BY <1>4 DEF BalanceSheet
<1> HIDE DEF net, prior, current
<1>6. bs.assets = bs.liabilities + bs.equity + bs.retained + bs.current
  <2>1. PICK i \in Int, j \in Int, k \in Int, l \in Int, m \in Int :
          /\ i = net(Assets) /\ j = net(Liabilities) /\ k = net({"equity"})
          /\ l = net({"retained"}) /\ m = net(Pnl)
    BY <1>1
  <2>2. PICK c \in Int : c = current /\ prior = -m - c
    BY <1>2, <2>1
  <2>3. i + j + k + l + m = 0
    BY <1>1, <2>1
  <2>4. i = (-j) + (-k) + ((-l) + (-m - c)) + c
    BY <2>3
  <2> QED BY <1>5, <2>1, <2>2, <2>4
<1>7. bs.retained = RetainedEarnings(L, kind, day)
  BY <1>1, <1>2, <1>3, <1>5
<1> QED BY <1>4, <1>6, <1>7

LEMMA ProfitLossAdds ==
  ASSUME NEW L, Rows(L), NEW kind, NEW s, NEW e
  PROVE  LET pl == ProfitLoss(L, kind, s, e) IN pl.operating + pl.other = pl.net
<1> DEFINE net(K) == Net(L, kind, K, s, e)
           E1 == {"expense", "depreciation"}
           E2 == {"cogs"} \cup E1
           E3 == E2 \cup {"otherExpense"}
           I2 == {"income"} \cup {"otherIncome"}
           O2 == {"otherIncome"} \cup {"otherExpense"}
<1>1. /\ {"cogs"} \cap E1 = {} /\ E2 \cap {"otherExpense"} = {} /\ {"income"} \cap {"otherIncome"} = {}
      /\ {"otherIncome"} \cap {"otherExpense"} = {}
      /\ E3 = Expense /\ I2 = Revenue /\ O2 = {"otherIncome", "otherExpense"}
  BY DEF Expense, Revenue
<1>2. net(E2) = net({"cogs"}) + net(E1) /\ net({"cogs"}) \in Int /\ net(E1) \in Int
  <2>1. {"cogs"} \cap E1 = {}
    BY <1>1
  <2> HIDE DEF E1
  <2> QED BY <2>1, NetSplit
<1>3. net(E3) = net(E2) + net({"otherExpense"}) /\ net({"otherExpense"}) \in Int
  <2>1. PICK K, J : K = E2 /\ J = {"otherExpense"} /\ K \cap J = {} /\ K \cup J = E3
    BY <1>1
  <2> HIDE DEF E2, E3
  <2>2. K \cap J = {}
    BY <2>1
  <2>3. /\ Net(L, kind, K \cup J, s, e) = Net(L, kind, K, s, e) + Net(L, kind, J, s, e)
        /\ Net(L, kind, K, s, e) \in Int /\ Net(L, kind, J, s, e) \in Int
    BY <2>2, NetSplit
  <2> QED BY <2>1, <2>3
<1> HIDE DEF E1, E2
<1>4. net(I2) = net({"income"}) + net({"otherIncome"}) /\ net({"income"}) \in Int
      /\ net({"otherIncome"}) \in Int
  BY <1>1, NetSplit
<1>5. net(O2) = net({"otherIncome"}) + net({"otherExpense"})
  BY <1>1, NetSplit
<1> HIDE DEF E3, I2, O2
<1>6. PICK pl : pl = ProfitLoss(L, kind, s, e)
  OBVIOUS
<1>7. /\ pl.operating = -net({"income"}) - net({"cogs"}) - net(E1)
      /\ pl.other = -net(O2) /\ pl.net = -net(I2) - net(E3)
  <2>1. /\ pl.operating = -net({"income"}) - net({"cogs"}) - net({"expense", "depreciation"})
        /\ pl.other = -net({"otherIncome", "otherExpense"}) /\ pl.net = -net(Revenue) - net(Expense)
    BY <1>6 DEF ProfitLoss
  <2> QED BY <1>1, <2>1 DEF E1
<1> HIDE DEF net
<1>8. pl.operating + pl.other = pl.net
  BY <1>2, <1>3, <1>4, <1>5, <1>7
<1> QED BY <1>6, <1>8

(* A register that starts within the fiscal year closes where the trial     *)
(* balance does.                                                            *)
LEMMA RegisterCloses ==
  ASSUME NEW L, Rows(L), NEW kind, NEW a, NEW s \in Nat, NEW e \in Nat, s <= e,
         FiscalYear(s) = FiscalYear(e)
  PROVE  Register(L, kind, a, s, e).closing = Signed(kind[a], Closing(L, kind, a, e))
<1>1. PICK y \in Int : y = IF IsPnl(kind[a]) THEN FiscalYearStart(s) ELSE 0
  BY YearOf
<1>2. y <= s /\ FiscalYearStart(s) = FiscalYearStart(e)
  BY <1>1, YearOf DEF FiscalYearStart
<1>3. NetOf(L, a, y, e) = NetOf(L, a, y, s - 1) + NetOf(L, a, s, e)
  BY <1>2, NetOfSpans
<1> QED BY <1>1, <1>2, <1>3 DEF Register, Closing, Opening

LEMMA StatementsHold ==
  ASSUME NEW L, Rows(L), InBalance(L), NEW kind \in KindMap
  PROVE  /\ \A day \in Days :
              LET bs == BalanceSheet(L, kind, day)
              IN /\ bs.assets = bs.liabilities + bs.equity + bs.retained + bs.current
                 /\ bs.retained = RetainedEarnings(L, kind, day)
                 /\ Sum([a \in Accounts |-> Closing(L, kind, a, day)], Accounts)
                      + ClosingPrior(L, kind, day) = 0
         /\ \A p \in Periods :
              /\ Sum([a \in Accounts |-> Opening(L, kind, a, p[1])], Accounts)
                   + OpeningPrior(L, kind, p[1]) = 0
              /\ LET pl == ProfitLoss(L, kind, p[1], p[2])
                 IN pl.operating + pl.other = pl.net
              /\ FiscalYear(p[1]) = FiscalYear(p[2]) =>
                   \A a \in Accounts :
                     Register(L, kind, a, p[1], p[2]).closing
                       = Signed(kind[a], Closing(L, kind, a, p[2]))
<1>1. Days \subseteq Nat
  BY GeneralLedgerAssumption
<1>2. ASSUME NEW day \in Nat
      PROVE  Sum([a \in Accounts |-> Closing(L, kind, a, day)], Accounts)
               + ClosingPrior(L, kind, day) = 0
  <2>1. PICK y \in Int : y = FiscalYearStart(day) /\ y <= day
    BY YearOf
  <2>2. Sum([a \in Accounts |-> NetOf(L, a, IF IsPnl(kind[a]) THEN y ELSE 0, day)], Accounts)
          + (Net(L, kind, Pnl, 0, day) - Net(L, kind, Pnl, y, day)) = 0
    BY TrialFoots
  <2>3. Net(L, kind, Pnl, 0, day) \in Int /\ Net(L, kind, Pnl, y, day) \in Int
    BY KindsBalance DEF KindMap
  <2>4. ClosingPrior(L, kind, day) = Net(L, kind, Pnl, 0, day) - Net(L, kind, Pnl, y, day)
    BY <2>1, <2>3 DEF ClosingPrior, PriorEarnings, Earnings, Pnl
  <2> QED BY <2>1, <2>2, <2>4 DEF Closing
<1>3. ASSUME NEW s \in Nat
      PROVE  Sum([a \in Accounts |-> Opening(L, kind, a, s)], Accounts)
               + OpeningPrior(L, kind, s) = 0
  <2>1. PICK y \in Int, e \in Int : y = FiscalYearStart(s) /\ e = s - 1
    BY YearOf
  <2>2. Sum([a \in Accounts |-> NetOf(L, a, IF IsPnl(kind[a]) THEN y ELSE 0, e)], Accounts)
          + (Net(L, kind, Pnl, 0, e) - Net(L, kind, Pnl, y, e)) = 0
    BY TrialFoots
  <2> QED BY <2>1, <2>2 DEF Opening, OpeningPrior, Pnl
<1>4. \A p \in Periods : p[1] \in Nat /\ p[2] \in Nat /\ p[1] <= p[2]
  BY <1>1 DEF Periods
<1>5. \A day \in Days :
        LET bs == BalanceSheet(L, kind, day)
        IN /\ bs.assets = bs.liabilities + bs.equity + bs.retained + bs.current
           /\ bs.retained = RetainedEarnings(L, kind, day)
           /\ Sum([a \in Accounts |-> Closing(L, kind, a, day)], Accounts)
                + ClosingPrior(L, kind, day) = 0
  BY <1>1, <1>2, BalanceSheetBalances
<1>6. \A p \in Periods :
        /\ Sum([a \in Accounts |-> Opening(L, kind, a, p[1])], Accounts)
             + OpeningPrior(L, kind, p[1]) = 0
        /\ LET pl == ProfitLoss(L, kind, p[1], p[2])
           IN pl.operating + pl.other = pl.net
        /\ FiscalYear(p[1]) = FiscalYear(p[2]) =>
             \A a \in Accounts :
               Register(L, kind, a, p[1], p[2]).closing
                 = Signed(kind[a], Closing(L, kind, a, p[2]))
  <2> TAKE p \in Periods
  <2>1. PICK s \in Nat, e \in Nat : s = p[1] /\ e = p[2] /\ s <= e
    BY <1>4
  <2>2. LET pl == ProfitLoss(L, kind, s, e) IN pl.operating + pl.other = pl.net
    BY ProfitLossAdds
  <2>3. FiscalYear(s) = FiscalYear(e) =>
          \A a \in Accounts :
            Register(L, kind, a, s, e).closing = Signed(kind[a], Closing(L, kind, a, e))
    <3> SUFFICES ASSUME FiscalYear(s) = FiscalYear(e), NEW a \in Accounts
                 PROVE  Register(L, kind, a, s, e).closing = Signed(kind[a], Closing(L, kind, a, e))
      OBVIOUS
    <3>1. s <= e
      BY <2>1
    <3> QED BY <3>1, RegisterCloses
  <2> QED BY <1>3, <2>1, <2>2, <2>3
<1> QED BY <1>5, <1>6

-----------------------------------------------------------------------------
(* Double entry: what is posted, and what is about to be, is balanced.      *)

PostsLines(c) ==
  \/ c.op = "create" /\ c.e.status = "posted"
  \/ c.op \in {"post", "reverse"}
PostedBalances ==
  /\ \A n \in 1 .. Count : db.entries[n].status = "posted" => Balanced(db.entries[n].lines)
  /\ \A r \in Requests : PostsLines(req[r]) => Balanced(req[r].e.lines)

LEMMA NegatedBalances ==
  ASSUME NEW lines \in [Accounts -> Int], NEW neg \in [Accounts -> Int],
         \A a \in Accounts : neg[a] = -lines[a], Balanced(lines)
  PROVE  Balanced(neg)
<1> DEFINE zero == [a \in Accounts |-> 0]
<1>1. \A a \in Accounts : /\ lines[a] \in Int /\ neg[a] \in Int
                          /\ zero[a] = lines[a] + neg[a] /\ zero[a] = 0
  OBVIOUS
<1>2. IsFiniteSet(Accounts)
  BY GeneralLedgerAssumption
<1> HIDE DEF zero
<1>3. Sum(zero, Accounts) = Sum(lines, Accounts) + Sum(neg, Accounts)
  BY <1>1, <1>2, SumPlus
<1>4. Sum(zero, Accounts) = 0
  BY <1>1, <1>2, SumZero
<1>5. Sum(neg, Accounts) \in Int
  BY <1>1, <1>2, SumInt
<1> QED BY <1>3, <1>4, <1>5 DEF Balanced

(* Each way of posting writes balanced lines.                               *)
LEMMA ServedBalances ==
  ASSUME TypeOK, Numbered, PostedBalances, NEW r \in Requests, Served(r)
  PROVE  /\ \A n \in 1 .. Count' :
              db'.entries[n].status = "posted" => Balanced(db'.entries[n].lines)
         /\ \/ db'.rows = db.rows
            \/ \E M : Remarked(M)
            \/ \E n \in Nat, e \in Entry, kind \in KindMap :
                 Balanced(e.lines) /\ Posts(n, e, kind)
<1>1. EntriesGo(r)
  BY EntriesDo
<1>2. Count \in Nat /\ Count + 1 \in Nat
  BY CountIs
<1>3. PICK c : c = req[r] /\ (PostsLines(c) => Balanced(c.e.lines))
               /\ (c.op \in {"post", "reverse", "discard"} => c.n \in 1 .. Count)
  BY DEF PostedBalances, Numbered
<1>4. \A n \in 1 .. Count : db.entries[n].status = "posted" => Balanced(db.entries[n].lines)
  BY DEF PostedBalances
<1>5. CASE c.op = "create"
  <2>1. PICK e \in Entry : /\ e.lines = c.e.lines /\ e.status = c.e.status /\ OneMore(e)
                           /\ c.kind \in KindMap
                           /\ IF e.status = "posted" THEN Posts(Count + 1, e, c.kind) ELSE Unposted
    BY <1>1, <1>3, <1>5 DEF EntriesGo
  <2>2. e.status = "posted" => Balanced(e.lines)
    BY <1>3, <1>5, <2>1 DEF PostsLines
  <2>3. \A n \in 1 .. Count' :
          db'.entries[n].status = "posted" => Balanced(db'.entries[n].lines)
    BY <1>2, <1>4, <2>1, <2>2 DEF OneMore, Count
  <2> QED BY <1>2, <2>1, <2>2, <2>3 DEF Unposted
<1>6. CASE c.op = "post"
  <2>1. PICK e \in Entry : /\ e.lines = c.e.lines /\ OneReplaced(c.n, e) /\ c.kind \in KindMap
                           /\ Posts(c.n, e, c.kind)
    BY <1>1, <1>3, <1>6 DEF EntriesGo, Like
  <2>2. Balanced(e.lines) /\ c.n \in Nat
    BY <1>3, <1>6, <2>1 DEF PostsLines
  <2>3. \A n \in 1 .. Count' :
          db'.entries[n].status = "posted" => Balanced(db'.entries[n].lines)
    BY <1>2, <1>4, <2>1, <2>2 DEF OneReplaced, Count
  <2> QED BY <2>1, <2>2, <2>3
<1>7. CASE c.op = "reverse"
  <2>1. PICK e \in Entry, void \in Entry :
          /\ void.lines = c.e.lines /\ void.status = "void" /\ c.kind \in KindMap
          /\ \A a \in Accounts : e.lines[a] = -c.e.lines[a]
          /\ c.n # Count + 1 => OneReversed(c.n, void, e)
          /\ Posts(Count + 1, e, c.kind)
    BY <1>1, <1>3, <1>7 DEF EntriesGo, Like
  <2>2. Balanced(void.lines)
    BY <1>3, <1>7, <2>1 DEF PostsLines
  <2>3. void.lines \in [Accounts -> Int] /\ e.lines \in [Accounts -> Int]
        /\ \A a \in Accounts : e.lines[a] = -void.lines[a]
    BY <2>1, EntryFields
  <2>4. Balanced(e.lines)
    BY <2>2, <2>3, NegatedBalances
  <2>5. OneReversed(c.n, void, e)
    BY <1>2, <1>3, <1>7, <2>1
  <2>6. \A n \in 1 .. Count' :
          db'.entries[n].status = "posted" => Balanced(db'.entries[n].lines)
    BY <1>2, <1>4, <2>1, <2>4, <2>5 DEF OneReversed, Count
  <2> QED BY <1>2, <2>1, <2>4, <2>6
<1>8. CASE c.op = "discard"
  <2>1. PICK e \in Entry : e.status = "void" /\ OneReplaced(c.n, e) /\ Unposted
    BY <1>1, <1>3, <1>8 DEF EntriesGo
  <2>2. \A n \in 1 .. Count' :
          db'.entries[n].status = "posted" => Balanced(db'.entries[n].lines)
    BY <1>2, <1>4, <2>1 DEF OneReplaced, Count
  <2> QED BY <2>1, <2>2 DEF Unposted
<1>9. CASE c.op \notin {"create", "post", "reverse", "discard"}
  <2>1. db'.entries = db.entries /\ (db'.rows = db.rows \/ \E M : Remarked(M))
    BY <1>1, <1>3, <1>9 DEF EntriesGo
  <2> QED BY <1>4, <2>1 DEF Count
<1> QED BY <1>5, <1>6, <1>7, <1>8, <1>9

LEMMA PostedBalancesStep ==
  ASSUME TypeOK, Numbered, PostedBalances, [Next]_vars
  PROVE  PostedBalances'
<1>1. CASE UNCHANGED vars
  BY <1>1 DEF PostedBalances, PostsLines, Count, Balanced, vars
<1>2. CASE Next
  <2>1. PICK r \in Requests :
          (\E c : AskedFor(r, c)) \/ (\E x : Drawn(r, x)) \/ Served(r) \/ Dropped(r)
    BY <1>2, Steps
  <2>2. ASSUME NEW c, AskedFor(r, c)
        PROVE  PostedBalances'
    <3>1. /\ db' = db /\ Count' = Count /\ req'[r] = c
          /\ \A q \in Requests \ {r} : req'[q] = req[q]
      BY <2>2, AfterAsking DEF Count
    <3>2. PostsLines(c) => Balanced(c.e.lines)
      <4>1. ReadNow(c)
        BY <2>2 DEF AskedFor
      <4>2. CASE c.op \in {"create", "post"}
        BY <4>1, <4>2 DEF ReadNow, CanPost, PostsLines
      <4>3. CASE c.op = "reverse"
        <5>1. c.n \in 1 .. Count /\ c.e = db.entries[c.n] /\ c.e.status = "posted"
          BY <4>1, <4>3, CountIs DEF ReadNow
        <5> QED BY <5>1 DEF PostedBalances
      <4> QED BY <4>2, <4>3 DEF PostsLines
    <3>3. \A q \in Requests : PostsLines(req'[q]) => Balanced(req'[q].e.lines)
      BY <3>1, <3>2 DEF PostedBalances
    <3> QED BY <3>1, <3>3 DEF PostedBalances, PostsLines, Balanced
  <2>3. ASSUME NEW x, Drawn(r, x)
        PROVE  PostedBalances'
    <3>1. /\ db' = db /\ Count' = Count /\ req'[r] = x
          /\ \A q \in Requests \ {r} : req'[q] = req[q]
          /\ x.op = req[r].op /\ x.e = req[r].e
      BY <2>3, AfterDrawing DEF Count
    <3>2. \A q \in Requests : PostsLines(req'[q]) => Balanced(req'[q].e.lines)
      BY <3>1 DEF PostedBalances, PostsLines
    <3> QED BY <3>1, <3>2 DEF PostedBalances, PostsLines, Balanced
  <2>4. CASE Served(r) \/ Dropped(r)
    <3>1. \A q \in Requests : PostsLines(req'[q]) => Balanced(req'[q].e.lines)
      BY <2>4, AfterServing DEF PostedBalances, PostsLines, Busy
    <3>2. \A n \in 1 .. Count' :
            db'.entries[n].status = "posted" => Balanced(db'.entries[n].lines)
      BY <2>4, AfterServing, ServedBalances DEF PostedBalances, Count
    <3> QED BY <3>1, <3>2 DEF PostedBalances, PostsLines, Balanced
  <2> QED BY <2>1, <2>2, <2>3, <2>4
<1> QED BY <1>1, <1>2

LEMMA PostedBalancesInit == ASSUME Init PROVE PostedBalances
<1>1. Count = 0
  BY DEF Init, Count
<1> QED BY <1>1, IdleIs DEF Init, PostedBalances, PostsLines

LEMMA NewRowsAmounts ==
  ASSUME TypeOK, RowIds, NEW n \in Nat, NEW e \in Entry, NEW kind \in KindMap
  PROVE  Amounts(NewRows(db, n, e, kind)) = Sum(e.lines, Accounts)
<1> DEFINE T == Touched(e.lines)
           N == NewRows(db, n, e, kind)
           F == [a \in T |-> NewRow(db, n, e, kind, a)]
           g == [x \in N |-> x.amt]
           lines == e.lines
<1>1. /\ T \in SUBSET Accounts /\ IsFiniteSet(T) /\ IsFiniteSet(Accounts)
      /\ lines \in [Accounts -> Int]
  BY TouchedFinite, EntryFields, GeneralLedgerAssumption
<1>2. \A a \in T : NewRow(db, n, e, kind, a).acct = a /\ NewRow(db, n, e, kind, a).amt = lines[a]
  <2>1. db \in Database /\ IsFiniteSet(db.rows)
    BY DEF TypeOK
  <2> QED BY <2>1, NewRowFields
<1>3. N = {F[a] : a \in T}
  BY DEF NewRows
<1>4. \A a, b \in T : F[a] = F[b] => a = b
  BY <1>2
<1>5. \A a \in T : lines[a] \in Int /\ g[F[a]] = lines[a]
  <2> TAKE a \in T
  <2>1. F[a] \in N /\ F[a].amt = lines[a]
    BY <1>2, <1>3
  <2> HIDE DEF F, N
  <2> QED BY <1>1, <2>1
<1>6. \A a \in Accounts \ T : lines[a] = 0
  BY DEF Touched
<1>7. Amounts(N) = Sum(g, N)
  BY DEF Amounts
<1> HIDE DEF T, N, F, g, lines
<1>8. Sum(g, {F[a] : a \in T}) = Sum(lines, T)
  BY <1>1, <1>4, <1>5, SumRenamed
<1>9. Sum(lines, Accounts) = Sum(lines, T)
  <2>1. \A a \in Accounts : lines[a] \in Int
    BY <1>1
  <2> QED BY <1>1, <1>6, <2>1, SumWithin
<1>10. Amounts(N) = Sum(lines, Accounts)
  BY <1>3, <1>7, <1>8, <1>9
<1> QED BY <1>10 DEF N, lines

LEMMA InBalancePosted ==
  ASSUME TypeOK, RowIds, NEW n \in Nat, NEW e \in Entry, NEW kind \in KindMap,
         Posts(n, e, kind), Balanced(e.lines), InBalance(db.rows)
  PROVE  InBalance(db'.rows)
<1> SUFFICES ASSUME NEW s \in Int, NEW t \in Int
             PROVE  Amounts(Span(db'.rows, s, t)) = 0
  BY DEF InBalance
<1> DEFINE N == NewRows(db, n, e, kind)
           S == Span(db.rows, s, t)
<1>1. db'.rows = db.rows \cup N /\ IsFiniteSet(N) /\ N \cap db.rows = {} /\ N \subseteq LedgerRow
  BY NewRowsFinite, NewIds DEF Posts
<1>2. \A x \in N : x.day = e.day
  <2>1. db \in Database /\ IsFiniteSet(db.rows)
    BY DEF TypeOK
  <2>2. \A a \in Touched(e.lines) : NewRow(db, n, e, kind, a).day = e.day
    BY <2>1, NewRowFields
  <2> QED BY <2>2 DEF NewRows
<1>3. S \in SUBSET db.rows /\ Amounts(S) = 0
  BY DEF Span, InBalance
<1>4. Amounts(N) = 0
  BY NewRowsAmounts DEF Balanced
<1> HIDE DEF N
<1>5. CASE s <= e.day /\ e.day <= t
  <2>1. Span(db'.rows, s, t) = S \cup N
    BY <1>1, <1>2, <1>5 DEF Span
  <2>2. S \cap N = {} /\ S \subseteq LedgerRow /\ IsFiniteSet(S)
    BY <1>1, <1>3, RowSets
  <2> HIDE DEF S
  <2>3. Amounts(S \cup N) = Amounts(S) + Amounts(N)
    BY <1>1, <2>2, AmountsUnion
  <2> QED BY <1>3, <1>4, <2>1, <2>3
<1>6. CASE ~(s <= e.day /\ e.day <= t)
  <2>1. Span(db'.rows, s, t) = S
    BY <1>1, <1>2, <1>6 DEF Span
  <2> QED BY <1>3, <2>1
<1> QED BY <1>5, <1>6

LEMMA InBalanceRemarked ==
  ASSUME TypeOK, RowIds, NEW M, Remarked(M), InBalance(db.rows)
  PROVE  InBalance(db'.rows)
<1> SUFFICES ASSUME NEW s \in Int, NEW t \in Int
             PROVE  Amounts(Span(db'.rows, s, t)) = 0
  BY DEF InBalance
<1>1. \A row \in db.rows : Marked(row, M) \in db'.rows /\ Marked(row, M).day = row.day
  BY DbFields, MarkedFields DEF TypeOK, Remarked
<1>2. \A row \in db.rows : Marked(row, M) \in Span(db'.rows, s, t) <=> row \in Span(db.rows, s, t)
  BY <1>1 DEF Span
<1>3. Span(db.rows, s, t) \in SUBSET db.rows /\ Span(db'.rows, s, t) \subseteq db'.rows
  BY DEF Span
<1>4. Amounts(Span(db'.rows, s, t)) = Amounts(Span(db.rows, s, t))
  BY <1>2, <1>3, RemarkedSet
<1> QED BY <1>4 DEF InBalance

LEMMA InBalanceStep ==
  ASSUME TypeOK, RowIds, Numbered, PostedBalances, InBalance(db.rows), [Next]_vars
  PROVE  InBalance(db.rows)'
<1>1. CASE db' = db
  BY <1>1
<1>2. ASSUME NEW r \in Requests, Served(r)
      PROVE  InBalance(db'.rows)
  BY <1>2, ServedBalances, InBalancePosted, InBalanceRemarked
<1>3. CASE Next
  <2>1. PICK r \in Requests :
          (\E c : AskedFor(r, c)) \/ (\E x : Drawn(r, x)) \/ Served(r) \/ Dropped(r)
    BY <1>3, Steps
  <2>2. CASE Served(r)
    BY <1>2, <2>2
  <2> QED BY <1>1, <2>1, <2>2 DEF AskedFor, Ask, Drawn, Dropped
<1> QED BY <1>1, <1>3 DEF vars

LEMMA InBalanceInit == ASSUME Init PROVE InBalance(db.rows)
<1>1. \A s, e : Span(db.rows, s, e) = {}
  BY DEF Init, Span
<1>2. Amounts({}) = 0
  BY SumEmpty DEF Amounts
<1> QED BY <1>1, <1>2 DEF InBalance

(* The ledger of the reports is the rows, without what the reports ignore.  *)
LEMMA LedgerIsRows ==
  ASSUME TypeOK, RowIds, InBalance(db.rows)
  PROVE  Rows(Ledger) /\ InBalance(Ledger)
<1> DEFINE F == [x \in db.rows |-> [id |-> x.id, ref |-> x.ref, day |-> x.day, src |-> x.src,
                                    acct |-> x.acct, amt |-> x.amt]]
<1>1. Ledger = {F[x] : x \in db.rows}
  BY DEF Ledger
<1>2. \A x \in db.rows : /\ F[x].id = x.id /\ F[x].day = x.day /\ F[x].acct = x.acct
                         /\ F[x].amt = x.amt
  OBVIOUS
<1>3. \A x \in db.rows : x.acct \in Accounts /\ x.day \in Nat /\ x.amt \in Int
  BY DbFields, RowFields, GeneralLedgerAssumption DEF TypeOK
<1> HIDE DEF F
<1>4. \A x, y \in db.rows : F[x] = F[y] => x = y
  BY <1>2 DEF RowIds
<1>5. IsFiniteSet(db.rows)
  BY DEF TypeOK
<1>6. Rows(Ledger)
  <2>1. IsFiniteSet(Ledger)
    BY <1>1, <1>5, ImageFinite
  <2> QED BY <1>1, <1>2, <1>3, <2>1 DEF Rows
<1>7. ASSUME NEW s \in Int, NEW e \in Int
      PROVE  Amounts(Span(Ledger, s, e)) = 0
  <2> DEFINE S == Span(db.rows, s, e)
             T == Span(Ledger, s, e)
             f == [x \in S |-> x.amt]
             g == [x \in T |-> x.amt]
  <2>1. S \in SUBSET db.rows
    BY DEF Span
  <2>2. T = {F[x] : x \in S}
    BY <1>1, <1>2 DEF Span
  <2>3. \A x \in S : f[x] = x.amt /\ F[x] \in T /\ f[x] \in Int
    BY <1>3, <2>1, <2>2
  <2>4. \A x \in T : g[x] = x.amt
    OBVIOUS
  <2>5. Amounts(T) = Sum(g, T) /\ Amounts(S) = Sum(f, S) /\ Amounts(S) = 0
    BY DEF Amounts, InBalance
  <2> HIDE DEF S, T, f, g
  <2>6. \A x \in S : f[x] \in Int /\ g[F[x]] = f[x]
    BY <1>2, <2>1, <2>3, <2>4
  <2>7. IsFiniteSet(S) /\ \A x, y \in S : F[x] = F[y] => x = y
    BY <1>4, <1>5, <2>1, FS_Subset
  <2>8. Sum(g, {F[x] : x \in S}) = Sum(f, S)
    BY <2>6, <2>7, SumRenamed
  <2> QED BY <2>2, <2>5, <2>8 DEF T
<1> QED BY <1>6, <1>7 DEF InBalance

LEMMA StatementsFollow ==
  ASSUME TypeOK, RowIds, InBalance(db.rows)
  PROVE  StatementsAgree
<1>1. Rows(Ledger) /\ InBalance(Ledger) /\ KindOf(db) \in KindMap
  BY LedgerIsRows, EntriesTyped DEF KindNow
<1> HIDE DEF Ledger
<1> QED BY <1>1, StatementsHold DEF StatementsAgree

(* Whatever requests overlap, whatever is voided, retyped or posted on any  *)
(* day: on every day the balance sheet balances, Retained Earnings is what  *)
(* the years before earned, and the trial balances foot to zero.  Only      *)
(* balanced lines are ever posted, all of them on one day.                  *)
THEOREM StatementsAlwaysAgree == Spec => []StatementsAgree
<1>1. TypeOK /\ Numbered /\ [Next]_vars => Numbered'
  BY NumberedStep
<1>2. TypeOK /\ Numbered /\ PostedBalances /\ [Next]_vars => PostedBalances'
  BY PostedBalancesStep
<1>3. TypeOK /\ RowIds /\ Numbered /\ PostedBalances /\ InBalance(db.rows) /\ [Next]_vars
      => InBalance(db.rows)'
  BY InBalanceStep
<1>4. Init => Numbered /\ PostedBalances /\ InBalance(db.rows)
  BY NumberedInit, PostedBalancesInit, InBalanceInit
<1>5. TypeOK /\ RowIds /\ InBalance(db.rows) => StatementsAgree
  BY StatementsFollow
<1> QED BY <1>1, <1>2, <1>3, <1>4, <1>5, LedgerTypes, RowsNumbered, PTL DEF Spec
=============================================================================
