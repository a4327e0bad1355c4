----------------------------- MODULE StaffProofs -----------------------------
(***************************************************************************)
(* Theorems about the people of a company and what they ask for: about     *)
(* Membership, for any number of users, companies and sessions and every   *)
(* limit, and about SalesDocuments, for any number of orders, estimates,   *)
(* keys, requests and runs, and whatever fails or dies in between.         *)
(***************************************************************************)
EXTENDS Membership, SalesDocuments, FiniteSumTheorems

-----------------------------------------------------------------------------
(* Membership: types *)

Roles == {"admin", "staff", "delivery"}
UserRow == [role : Roles \cup {None}, mail : BOOLEAN, password : Passwords \cup {None},
            active : BOOLEAN, verified : BOOLEAN, home : Companies \cup {None}]
TokenRow == [user : Users, company : Companies \cup {None}, role : Roles \cup {None},
             live : BOOLEAN, denied : BOOLEAN]
CodeRow == [user : Users, used : BOOLEAN, verified : BOOLEAN, attempts : Nat]

MembersTyped ==
  /\ user \in [Users -> UserRow]
  /\ member \in [Companies -> [Users -> Roles \cup {None}]]
  /\ kept \in [Users -> Passwords \cup {None}]
  /\ link \in [Users -> {None, "sent", "used"}]
  /\ tokens \in Seq(TokenRow)
  /\ codes \in Seq(CodeRow)
  /\ offBy \in [Users -> Companies \cup {None}]
  /\ out \in SUBSET Users /\ halted \in SUBSET Users
  /\ changes \in Nat

LEMMA RolesDiffer ==
  None \notin Roles /\ None = "none"
  BY DEF Roles, None

(* A changed row is a row. *)
LEMMA UserRowChanged ==
  ASSUME NEW row \in UserRow
  PROVE  /\ \A b \in BOOLEAN : /\ [row EXCEPT !.active = b] \in UserRow
                               /\ [row EXCEPT !.verified = b] \in UserRow
         /\ \A p \in Passwords : [row EXCEPT !.password = p] \in UserRow
         /\ \A k \in Companies \cup {None} : [row EXCEPT !.home = k] \in UserRow
         /\ row.home \in Companies \cup {None}
  BY DEF UserRow

LEMMA NewUserRow ==
  ASSUME NEW role \in Roles, NEW mail \in BOOLEAN, NEW p \in Passwords,
         NEW verified \in BOOLEAN, NEW k \in Companies \cup {None}
  PROVE  [role |-> role, mail |-> mail, password |-> p, active |-> TRUE,
          verified |-> verified, home |-> k] \in UserRow
  BY DEF UserRow

LEMMA TokenRowChanged ==
  ASSUME NEW row \in TokenRow
  PROVE  /\ row.user \in Users /\ row.company \in Companies \cup {None}
         /\ row.role \in Roles \cup {None}
         /\ \A b \in BOOLEAN : /\ [row EXCEPT !.live = b] \in TokenRow
                               /\ [row EXCEPT !.denied = b] \in TokenRow
  BY DEF TokenRow

LEMMA CodeRowChanged ==
  ASSUME NEW row \in CodeRow
  PROVE  /\ row.user \in Users /\ row.attempts \in Nat
         /\ [row EXCEPT !.used = TRUE] \in CodeRow
         /\ [row EXCEPT !.verified = TRUE] \in CodeRow
         /\ \A n \in Nat : [row EXCEPT !.attempts = n] \in CodeRow
  BY DEF CodeRow

LEMMA CodeIsRow == \A u \in Users : Code(u) \in CodeRow
  BY DEF Code, CodeRow

LEMMA PairIsToken ==
  ASSUME NEW u \in Users, NEW k \in Companies \cup {None}, NEW role \in Roles \cup {None}
  PROVE  Pair(u, k, role) \in TokenRow
  BY DEF Pair, TokenRow

LEMMA RevokedIsTokens ==
  ASSUME NEW toks \in Seq(TokenRow), NEW u
  PROVE  /\ Revoked(u, toks) \in Seq(TokenRow)
         /\ DOMAIN Revoked(u, toks) = DOMAIN toks
         /\ \A i \in DOMAIN toks :
              /\ Revoked(u, toks)[i].user = toks[i].user
              /\ Revoked(u, toks)[i].company = toks[i].company
              /\ Revoked(u, toks)[i].role = toks[i].role
              /\ Revoked(u, toks)[i].denied = toks[i].denied
              /\ Revoked(u, toks)[i].live <=> toks[i].live /\ toks[i].user # u
<1>1. \A i \in DOMAIN toks : toks[i] \in TokenRow
  OBVIOUS
<1>2. \A i \in DOMAIN toks : Revoked(u, toks)[i] \in TokenRow
  BY <1>1 DEF Revoked, TokenRow
<1>3. DOMAIN toks = 1..Len(toks) /\ Len(toks) \in Nat
  OBVIOUS
<1>4. Revoked(u, toks) \in [1..Len(toks) -> TokenRow]
  BY <1>2, <1>3 DEF Revoked
<1> QED BY <1>1, <1>3, <1>4 DEF Revoked, TokenRow

LEMMA UsedIsCodes ==
  ASSUME NEW sent \in Seq(CodeRow), NEW u
  PROVE  Used(u, sent) \in Seq(CodeRow)
<1>0. \A i \in DOMAIN sent : sent[i] \in CodeRow
  OBVIOUS
<1>1. \A i \in DOMAIN sent : Used(u, sent)[i] \in CodeRow
  BY <1>0 DEF Used, CodeRow
<1>2. DOMAIN sent = 1..Len(sent) /\ Len(sent) \in Nat
  OBVIOUS
<1>3. Used(u, sent) \in [1..Len(sent) -> CodeRow]
  BY <1>1, <1>2 DEF Used
<1> QED BY <1>2, <1>3

(* A session is opened for a company the user belongs to, or for none.      *)
LEMMA HomesType ==
  ASSUME NEW u \in Users, MembersTyped, NEW k \in HomesOf(u)
  PROVE  /\ k \in Companies \cup {None}
         /\ k # None => k \in Companies /\ member[k][u] # None
         /\ RoleAt(u, k) \in Roles \cup {None}
  BY MembershipAssumption DEF HomesOf, RoleAt, MembersTyped, UserRow

(* Putting a row in the place of another keeps the types of the table.      *)
LEMMA TablesChanged ==
  ASSUME MembersTyped
  PROVE  /\ \A u \in Users, row \in UserRow : [user EXCEPT ![u] = row] \in [Users -> UserRow]
         /\ \A u \in Users, b \in BOOLEAN :
              /\ [user EXCEPT ![u].active = b] \in [Users -> UserRow]
              /\ [user EXCEPT ![u].verified = b] \in [Users -> UserRow]
         /\ \A u \in Users, p \in Passwords : [user EXCEPT ![u].password = p] \in [Users -> UserRow]
         /\ \A u \in Users, k \in Companies \cup {None} :
              [user EXCEPT ![u].home = k] \in [Users -> UserRow]
         /\ \A k \in Companies, u \in Users, role \in Roles \cup {None} :
              [member EXCEPT ![k][u] = role] \in [Companies -> [Users -> Roles \cup {None}]]
         /\ \A i \in DOMAIN tokens, row \in TokenRow : [tokens EXCEPT ![i] = row] \in Seq(TokenRow)
         /\ \A n \in DOMAIN codes :
              /\ [codes EXCEPT ![n].used = TRUE] \in Seq(CodeRow)
              /\ [codes EXCEPT ![n].verified = TRUE] \in Seq(CodeRow)
              /\ [codes EXCEPT ![n].attempts = codes[n].attempts + 1] \in Seq(CodeRow)
         /\ \A u \in Users, p \in Passwords \cup {None} :
              [kept EXCEPT ![u] = p] \in [Users -> Passwords \cup {None}]
<1>1. ASSUME NEW u \in Users
      PROVE  /\ \A row \in UserRow : [user EXCEPT ![u] = row] \in [Users -> UserRow]
             /\ user[u] \in UserRow
  BY DEF MembersTyped
<1>2. ASSUME NEW u \in Users, NEW b \in BOOLEAN
      PROVE  /\ [user EXCEPT ![u].active = b] \in [Users -> UserRow]
             /\ [user EXCEPT ![u].verified = b] \in [Users -> UserRow]
  <2>1. [user[u] EXCEPT !.active = b] \in UserRow /\ [user[u] EXCEPT !.verified = b] \in UserRow
    BY <1>1, UserRowChanged
  <2> QED BY <2>1, <1>1
<1>3. ASSUME NEW u \in Users, NEW p \in Passwords
      PROVE  [user EXCEPT ![u].password = p] \in [Users -> UserRow]
  <2>1. [user[u] EXCEPT !.password = p] \in UserRow
    BY <1>1, UserRowChanged
  <2> QED BY <2>1, <1>1
<1>4. ASSUME NEW u \in Users, NEW k \in Companies \cup {None}
      PROVE  [user EXCEPT ![u].home = k] \in [Users -> UserRow]
  <2>1. [user[u] EXCEPT !.home = k] \in UserRow
    BY <1>1, UserRowChanged
  <2> QED BY <2>1, <1>1
<1>5. /\ \A k \in Companies, u \in Users, role \in Roles \cup {None} :
           [member EXCEPT ![k][u] = role] \in [Companies -> [Users -> Roles \cup {None}]]
      /\ \A i \in DOMAIN tokens, row \in TokenRow : [tokens EXCEPT ![i] = row] \in Seq(TokenRow)
      /\ \A u \in Users, p \in Passwords \cup {None} :
           [kept EXCEPT ![u] = p] \in [Users -> Passwords \cup {None}]
  BY DEF MembersTyped
<1>6. ASSUME NEW n \in DOMAIN codes
      PROVE  /\ [codes EXCEPT ![n].used = TRUE] \in Seq(CodeRow)
             /\ [codes EXCEPT ![n].verified = TRUE] \in Seq(CodeRow)
             /\ [codes EXCEPT ![n].attempts = codes[n].attempts + 1] \in Seq(CodeRow)
  <2>1. codes[n] \in CodeRow
    BY DEF MembersTyped
  <2>2. codes[n].attempts + 1 \in Nat
    BY <2>1 DEF CodeRow
  <2>3. /\ [codes[n] EXCEPT !.used = TRUE] \in CodeRow
        /\ [codes[n] EXCEPT !.verified = TRUE] \in CodeRow
        /\ [codes[n] EXCEPT !.attempts = codes[n].attempts + 1] \in CodeRow
    BY <2>1, <2>2, CodeRowChanged
  <2>4. \A row \in CodeRow : [codes EXCEPT ![n] = row] \in Seq(CodeRow)
    BY DEF MembersTyped
  <2>5. [codes EXCEPT ![n].attempts = codes[n].attempts + 1] \in Seq(CodeRow)
    BY <2>3, <2>4
  <2> QED BY <2>3, <2>4, <2>5
<1> QED BY <1>1, <1>2, <1>3, <1>4, <1>5, <1>6

(* Every action keeps the types. *)
LEMMA MembersStep ==
  ASSUME MembersTyped, [MembershipNext]_membershipVars
  PROVE  MembersTyped'
<1> USE MembershipAssumption, RolesDiffer
<1>a. /\ \A i \in DOMAIN tokens : tokens[i] \in TokenRow
      /\ \A n \in DOMAIN codes : codes[n] \in CodeRow
      /\ \A u \in Users : user[u] \in UserRow
  BY DEF MembersTyped
<1>b. ASSUME NEW i \in DOMAIN tokens
      PROVE  CallerOf(i) \in Users /\ tokens[i].company \in Companies \cup {None}
  BY <1>a, TokenRowChanged DEF CallerOf
<1>1. ASSUME NEW u \in Users, NEW role \in {"admin", "delivery"}, NEW k \in Companies \cup {None},
             NEW p \in Passwords, SignUp(u, role, k, p)
      PROVE  MembersTyped'
  <2> DEFINE row == [role |-> role, mail |-> TRUE, password |-> p, active |-> TRUE,
                     verified |-> role # "admin", home |-> k]
  <2>0. row \in UserRow
    BY NewUserRow DEF Roles
  <2>1. user' \in [Users -> UserRow]
    <3>1. user' = [user EXCEPT ![u] = row]
      BY <1>1 DEF SignUp
    <3> HIDE DEF row
    <3> QED BY <3>1, <2>0, TablesChanged
  <2>2. tokens' \in Seq(TokenRow)
    BY <1>1, PairIsToken DEF SignUp, IssueTokens, Roles, MembersTyped
  <2> QED BY <1>1, <2>1, <2>2 DEF SignUp, Served, MembersTyped, Roles
<1>2. ASSUME NEW u \in Users, VerifyEmail(u) PROVE MembersTyped'
  <2>1. user' \in [Users -> UserRow]
    BY <1>2, TablesChanged DEF VerifyEmail
  <2> QED BY <1>2, <2>1 DEF VerifyEmail, Served, MembersTyped
<1>3. ASSUME NEW u \in Users, SignIn(u) PROVE MembersTyped'
  <2>1. PICK k \in HomesOf(u) :
          /\ IssueTokens(u, k, RoleAt(u, k))
          /\ user' = [user EXCEPT ![u].home = IF k = None THEN @ ELSE k]
    BY <1>3 DEF SignIn
  <2>2. k \in Companies \cup {None} /\ RoleAt(u, k) \in Roles \cup {None}
    BY HomesType
  <2> DEFINE home == IF k = None THEN user[u].home ELSE k
  <2>3. user' \in [Users -> UserRow]
    <3>1. home \in Companies \cup {None}
      BY <2>2, <1>a, UserRowChanged
    <3>2. user' = [user EXCEPT ![u].home = home]
      BY <2>1
    <3> QED BY <3>1, <3>2, TablesChanged
  <2>4. tokens' \in Seq(TokenRow)
    BY <2>1, <2>2, PairIsToken DEF IssueTokens, MembersTyped
  <2> QED BY <1>3, <2>3, <2>4 DEF SignIn, Served, MembersTyped
<1>4. ASSUME NEW u \in Users, ForgotPassword(u) PROVE MembersTyped'
  <2>1. codes' \in Seq(CodeRow)
    BY <1>4, UsedIsCodes, CodeIsRow DEF ForgotPassword, MembersTyped
  <2> QED BY <1>4, <2>1 DEF ForgotPassword, Served, MembersTyped
<1>5. ASSUME NEW i \in DOMAIN tokens, NEW k \in Companies, Found(i, k) PROVE MembersTyped'
  <2>1. user' \in [Users -> UserRow]
    BY <1>5, <1>a, <1>b, TablesChanged, UserRowChanged DEF Found
  <2>2. member' \in [Companies -> [Users -> Roles \cup {None}]]
    BY <1>5, <1>b, TablesChanged DEF Found, Roles
  <2> QED BY <1>5, <2>1, <2>2 DEF Found, Served, MembersTyped
<1>6. ASSUME NEW i \in DOMAIN tokens, NEW k \in Companies, Join(i, k) PROVE MembersTyped'
  <2>1. user' \in [Users -> UserRow]
    BY <1>6, <1>a, <1>b, TablesChanged, UserRowChanged DEF Join
  <2>2. member' \in [Companies -> [Users -> Roles \cup {None}]]
    BY <1>6, <1>b, TablesChanged DEF Join, Roles
  <2> QED BY <1>6, <2>1, <2>2 DEF Join, Served, MembersTyped
<1>7. ASSUME NEW i \in DOMAIN tokens, NEW u \in Users, NEW role \in Roles,
             NEW mail \in BOOLEAN, NEW p \in Passwords, CreateUser(i, u, role, mail, p)
      PROVE  MembersTyped'
  <2>1. tokens[i].company \in Companies
    BY <1>7, <1>b DEF CreateUser, OwnerCalls
  <2>2. user' \in [Users -> UserRow]
    BY <1>7, <2>1, NewUserRow, TablesChanged DEF CreateUser
  <2>3. member' \in [Companies -> [Users -> Roles \cup {None}]]
    BY <1>7, <2>1, TablesChanged DEF CreateUser
  <2> QED BY <1>7, <2>2, <2>3 DEF CreateUser, StoreCredential, Served, MembersTyped
<1>8. ASSUME NEW i \in DOMAIN tokens, NEW u \in Users, NEW role \in {"admin", "staff"}, ChangeRole(i, u, role)
      PROVE  MembersTyped'
  <2>1. tokens[i].company \in Companies
    BY <1>8, <1>b DEF ChangeRole, OwnerCalls
  <2>2. member' \in [Companies -> [Users -> Roles \cup {None}]]
    BY <1>8, <2>1, TablesChanged DEF ChangeRole, Roles
  <2> QED BY <1>8, <2>2 DEF ChangeRole, Served, MembersTyped
<1>9. ASSUME NEW i \in DOMAIN tokens, NEW u \in Users, Deactivate(i, u) PROVE MembersTyped'
  <2>1. user' \in [Users -> UserRow]
    BY <1>9, TablesChanged DEF Deactivate
  <2> QED BY <1>9, <2>1, <1>b DEF Deactivate, Served, MembersTyped
<1>10. ASSUME NEW i \in DOMAIN tokens, NEW u \in Users, Activate(i, u) PROVE MembersTyped'
  <2>1. user' \in [Users -> UserRow]
    BY <1>10, TablesChanged DEF Activate
  <2> QED BY <1>10, <2>1 DEF Activate, Served, MembersTyped
<1>11. ASSUME NEW i \in DOMAIN tokens, NEW u \in Users, NEW k \in Companies, RemoveMember(i, k, u)
       PROVE  MembersTyped'
  <2>1. member' \in [Companies -> [Users -> Roles \cup {None}]]
    BY <1>11, TablesChanged DEF RemoveMember
  <2> QED BY <1>11, <2>1 DEF RemoveMember, Served, MembersTyped
<1>12. ASSUME NEW i \in DOMAIN tokens, NEW u \in Users, NEW p \in Passwords, ResetByOwner(i, u, p)
       PROVE  MembersTyped'
  <2>1. user' \in [Users -> UserRow]
    BY <1>12, TablesChanged DEF ResetByOwner
  <2> QED BY <1>12, <2>1 DEF ResetByOwner, StoreCredential, Served, MembersTyped
<1>13. ASSUME NEW i \in DOMAIN tokens, Refresh(i) PROVE MembersTyped'
  <2> DEFINE u == CallerOf(i)
  <2>1. PICK k \in IF tokens[i].company # None THEN {tokens[i].company} ELSE HomesOf(u) :
          /\ tokens' = Append([tokens EXCEPT ![i].live = FALSE],
                              Pair(u, k, IF k = tokens[i].company THEN tokens[i].role ELSE member[k][u]))
          /\ user' = [user EXCEPT ![u].home = IF tokens[i].company # None \/ k = None THEN @ ELSE k]
    BY <1>13 DEF Refresh
  <2>2. k \in Companies \cup {None} /\ u \in Users
    BY <1>b, <2>1, HomesType
  <2> DEFINE home == IF tokens[i].company # None \/ k = None THEN user[u].home ELSE k
  <2>3. user' \in [Users -> UserRow]
    <3>1. home \in Companies \cup {None}
      BY <2>2, <1>a, UserRowChanged
    <3>2. user' = [user EXCEPT ![u].home = home]
      BY <2>1
    <3> HIDE DEF home
    <3> QED BY <2>2, <3>1, <3>2, TablesChanged
  <2>4. (IF k = tokens[i].company THEN tokens[i].role ELSE member[k][u]) \in Roles \cup {None}
    BY <1>a, <1>b, <2>1, <2>2, TokenRowChanged DEF MembersTyped
  <2>5. [tokens EXCEPT ![i].live = FALSE] \in Seq(TokenRow)
    BY <1>a, TokenRowChanged, TablesChanged
  <2>6. tokens' \in Seq(TokenRow)
    BY <2>1, <2>2, <2>4, <2>5, PairIsToken
  <2> QED BY <1>13, <2>3, <2>6 DEF Refresh, Served, MembersTyped
<1>14. ASSUME NEW i \in DOMAIN tokens, NEW whole \in BOOLEAN, SignOut(i, whole) PROVE MembersTyped'
  <2> DEFINE u == CallerOf(i)
             toks == IF whole THEN Revoked(u, tokens) ELSE tokens
  <2>1. toks \in Seq(TokenRow) /\ DOMAIN toks = DOMAIN tokens
    BY RevokedIsTokens DEF MembersTyped
  <2>2. toks[i] \in TokenRow
    BY <2>1
  <2>3. [toks[i] EXCEPT !.denied = TRUE] \in TokenRow
    BY <2>2, TokenRowChanged
  <2>4. /\ tokens' = [toks EXCEPT ![i] = [toks[i] EXCEPT !.denied = TRUE]]
          /\ out' \in SUBSET Users
    BY <1>14, <1>b DEF SignOut, MembersTyped
  <2> HIDE DEF toks
  <2>5. tokens' \in Seq(TokenRow)
    BY <2>1, <2>3, <2>4
  <2> QED BY <1>14, <1>b, <2>4, <2>5 DEF SignOut, Served, MembersTyped
<1>15. ASSUME NEW u \in Users, NEW right \in BOOLEAN, VerifyOtp(u, right) PROVE MembersTyped'
  <2>1. PICK n \in Unused(u) :
          IF codes[n].attempts >= MaxAttempts THEN codes' = [codes EXCEPT ![n].used = TRUE]
          ELSE IF right THEN codes' = [codes EXCEPT ![n].verified = TRUE]
          ELSE codes' = [codes EXCEPT ![n].attempts = @ + 1]
    BY <1>15 DEF VerifyOtp
  <2>2. n \in DOMAIN codes
    BY DEF Unused
  <2>3. \/ codes' = [codes EXCEPT ![n].used = TRUE]
        \/ codes' = [codes EXCEPT ![n].verified = TRUE]
        \/ codes' = [codes EXCEPT ![n].attempts = codes[n].attempts + 1]
    BY <2>1, Zenon
  <2>4. /\ [codes EXCEPT ![n].used = TRUE] \in Seq(CodeRow)
        /\ [codes EXCEPT ![n].verified = TRUE] \in Seq(CodeRow)
        /\ [codes EXCEPT ![n].attempts = codes[n].attempts + 1] \in Seq(CodeRow)
    BY <2>2, TablesChanged, Zenon
  <2>5. codes' \in Seq(CodeRow)
    BY <2>3, <2>4, Zenon
  <2> QED BY <1>15, <2>5 DEF VerifyOtp, Served, MembersTyped
<1>16. ASSUME NEW n \in DOMAIN codes, NEW p \in Passwords, NEW done \in 1..4, ResetPassword(n, p, done) PROVE MembersTyped'
  <2> DEFINE u == codes[n].user
  <2>1. u \in Users
    BY <1>a, CodeRowChanged
  <2>2. user' \in [Users -> UserRow]
    BY <1>16, <2>1, TablesChanged DEF ResetPassword
  <2>3. [codes EXCEPT ![n].used = TRUE] \in Seq(CodeRow)
    BY <1>a, CodeRowChanged, TablesChanged
  <2>4. codes' \in Seq(CodeRow)
    BY <1>16, <2>3 DEF ResetPassword, MembersTyped
  <2>5. tokens' \in Seq(TokenRow) /\ out' \in SUBSET Users
    BY <1>16, <2>1, RevokedIsTokens DEF ResetPassword, MembersTyped
  <2>6. kept' \in [Users -> Passwords \cup {None}] /\ halted' \in SUBSET Users
    BY <1>16, <2>1 DEF ResetPassword, ForgetCredential, MembersTyped
  <2> QED BY <1>16, <2>2, <2>4, <2>5, <2>6 DEF ResetPassword, Served, MembersTyped
<1>17. CASE UNCHANGED membershipVars
  BY <1>17 DEF membershipVars, MembersTyped
<1> QED
  BY <1>1, <1>2, <1>3, <1>4, <1>5, <1>6, <1>7, <1>8, <1>9, <1>10, <1>11, <1>12, <1>13,
     <1>14, <1>15, <1>16, <1>17 DEF MembershipNext, Roles

-----------------------------------------------------------------------------
(* The inductive invariant *)

(* Nobody who is not registered is active, managed or a member.             *)
Strangers ==
  \A u \in Users : user[u].role = None =>
    ~user[u].active /\ kept[u] = None /\ \A k \in Companies : member[k][u] = None

(* A company somebody holds a token of has members.                         *)
Peopled ==
  \A i \in DOMAIN tokens : tokens[i].company # None =>
    \E u \in Users : member[tokens[i].company][u] # None

IInv ==
  /\ MembersTyped /\ Strangers /\ Peopled
  /\ OwnerRemains /\ KeptPasswordOpens /\ SignedOutStaysOut

(* What a change of one field leaves of the others.                         *)
LEMMA UserFields ==
  ASSUME MembersTyped, NEW u \in Users, NEW x
  PROVE  /\ \A v \in Users :
              /\ [user EXCEPT ![u].verified = x][v].role = user[v].role
              /\ [user EXCEPT ![u].verified = x][v].active = user[v].active
              /\ [user EXCEPT ![u].verified = x][v].password = user[v].password
              /\ [user EXCEPT ![u].home = x][v].role = user[v].role
              /\ [user EXCEPT ![u].home = x][v].active = user[v].active
              /\ [user EXCEPT ![u].home = x][v].password = user[v].password
              /\ [user EXCEPT ![u].active = x][v].role = user[v].role
              /\ [user EXCEPT ![u].active = x][v].active = IF v = u THEN x ELSE user[v].active
              /\ [user EXCEPT ![u].active = x][v].password = user[v].password
              /\ [user EXCEPT ![u].password = x][v].role = user[v].role
              /\ [user EXCEPT ![u].password = x][v].active = user[v].active
              /\ [user EXCEPT ![u].password = x][v].password = IF v = u THEN x ELSE user[v].password
  BY DEF MembersTyped, UserRow

LEMMA MemberFields ==
  ASSUME MembersTyped, NEW k \in Companies, NEW u \in Users, NEW x
  PROVE  \A c \in Companies, v \in Users :
           [member EXCEPT ![k][u] = x][c][v] = IF c = k /\ v = u THEN x ELSE member[c][v]
  BY DEF MembersTyped

(* A sequence with one more element.                                        *)
LEMMA TokensAppended ==
  ASSUME NEW toks \in Seq(TokenRow), NEW row
  PROVE  /\ DOMAIN Append(toks, row) = DOMAIN toks \cup {Len(toks) + 1}
         /\ Append(toks, row)[Len(toks) + 1] = row
         /\ \A i \in DOMAIN toks : Append(toks, row)[i] = toks[i]
         /\ Len(toks) + 1 \notin DOMAIN toks
  OBVIOUS

(* What a token names.                                                      *)
LEMMA TokensTyped ==
  ASSUME MembersTyped
  PROVE  \A i \in DOMAIN tokens : /\ tokens[i] \in TokenRow
                                  /\ CallerOf(i) \in Users
                                  /\ tokens[i].user \in Users
                                  /\ tokens[i].company \in Companies \cup {None}
<1>1. \A i \in DOMAIN tokens : tokens[i] \in TokenRow
  BY DEF MembersTyped
<1> QED BY <1>1 DEF CallerOf, TokenRow

(* Registering is the only way in. *)
LEMMA StrangersStep ==
  ASSUME MembersTyped, Strangers, [MembershipNext]_membershipVars
  PROVE  Strangers'
<1> USE MembershipAssumption, RolesDiffer
<1>a. /\ \A i \in DOMAIN tokens : /\ CallerOf(i) \in Users
                                  /\ tokens[i].company \in Companies \cup {None}
  BY TokensTyped
<1>b. \A u \in Users : NoUser.role = None /\ (user[u] # NoUser \/ user[u].role = None)
  BY DEF NoUser
<1>1. ASSUME NEW u \in Users, NEW role \in {"admin", "delivery"}, NEW k \in Companies \cup {None},
             NEW p \in Passwords, SignUp(u, role, k, p)
      PROVE  Strangers'
  BY <1>1, <1>a, UserFields, MemberFields, <1>b DEF SignUp, Strangers, Registered, MembersTyped
<1>2. ASSUME NEW u \in Users, VerifyEmail(u)
      PROVE  Strangers'
  BY <1>2, <1>a, UserFields, MemberFields DEF VerifyEmail, Strangers
<1>3. ASSUME NEW u \in Users, SignIn(u)
      PROVE  Strangers'
  BY <1>3, <1>a, UserFields, MemberFields DEF SignIn, Strangers
<1>4. ASSUME NEW u \in Users, ForgotPassword(u)
      PROVE  Strangers'
  BY <1>4, <1>a, UserFields, MemberFields DEF ForgotPassword, Strangers
<1>5. ASSUME NEW i \in DOMAIN tokens, NEW k \in Companies, Found(i, k)
      PROVE  Strangers'
  BY <1>5, <1>a, UserFields, MemberFields DEF Found, Strangers, Admitted, CallerOf
<1>6. ASSUME NEW i \in DOMAIN tokens, NEW k \in Companies, Join(i, k)
      PROVE  Strangers'
  BY <1>6, <1>a, UserFields, MemberFields DEF Join, Strangers, Admitted, CallerOf
<1>7. ASSUME NEW i \in DOMAIN tokens, NEW u \in Users, NEW role \in Roles,
             NEW mail \in BOOLEAN, NEW p \in Passwords, CreateUser(i, u, role, mail, p)
      PROVE  Strangers'
  BY <1>7, <1>a, UserFields, MemberFields, <1>b DEF CreateUser, Strangers, Registered, OwnerCalls, Admitted, StoreCredential, MembersTyped
<1>8. ASSUME NEW i \in DOMAIN tokens, NEW u \in Users, NEW role \in {"admin", "staff"}, ChangeRole(i, u, role)
      PROVE  Strangers'
  BY <1>8, <1>a, UserFields, MemberFields DEF ChangeRole, Strangers, Managed, OwnerCalls
<1>9. ASSUME NEW i \in DOMAIN tokens, NEW u \in Users, Deactivate(i, u)
      PROVE  Strangers'
  BY <1>9, <1>a, UserFields, MemberFields DEF Deactivate, Strangers, Managed, OwnerCalls
<1>10. ASSUME NEW i \in DOMAIN tokens, NEW u \in Users, Activate(i, u)
      PROVE  Strangers'
  BY <1>10, <1>a, UserFields, MemberFields DEF Activate, Strangers, Managed, OwnerCalls
<1>11. ASSUME NEW i \in DOMAIN tokens, NEW u \in Users, NEW k \in Companies, RemoveMember(i, k, u)
      PROVE  Strangers'
  BY <1>11, <1>a, UserFields, MemberFields DEF RemoveMember, Strangers
<1>12. ASSUME NEW i \in DOMAIN tokens, NEW u \in Users, NEW p \in Passwords, ResetByOwner(i, u, p)
      PROVE  Strangers'
  BY <1>12, <1>a, UserFields, MemberFields DEF ResetByOwner, Strangers, StoreCredential, OwnerCalls, MembersTyped
<1>13. ASSUME NEW i \in DOMAIN tokens, Refresh(i)
      PROVE  Strangers'
  BY <1>13, <1>a, UserFields, MemberFields DEF Refresh, Strangers
<1>14. ASSUME NEW i \in DOMAIN tokens, NEW whole \in BOOLEAN, SignOut(i, whole)
      PROVE  Strangers'
  BY <1>14, <1>a, UserFields, MemberFields DEF SignOut, Strangers
<1>15. ASSUME NEW u \in Users, NEW right \in BOOLEAN, VerifyOtp(u, right)
      PROVE  Strangers'
  BY <1>15, <1>a, UserFields, MemberFields DEF VerifyOtp, Strangers
<1>16. ASSUME NEW n \in DOMAIN codes, NEW p \in Passwords, NEW done \in 1..4, ResetPassword(n, p, done)
      PROVE  Strangers'
  BY <1>16, <1>a, UserFields, MemberFields DEF ResetPassword, Strangers, ForgetCredential, MembersTyped
<1>17. CASE UNCHANGED membershipVars
  BY <1>17 DEF membershipVars, Strangers
<1> QED
  BY <1>1, <1>2, <1>3, <1>4, <1>5, <1>6, <1>7, <1>8, <1>9, <1>10, <1>11, <1>12, <1>13, <1>14, <1>15, <1>16, <1>17 DEF MembershipNext, Roles

(* The credential a company keeps is written with the password. *)
LEMMA KeptStep ==
  ASSUME MembersTyped, Strangers, KeptPasswordOpens, [MembershipNext]_membershipVars
  PROVE  KeptPasswordOpens'
<1> USE MembershipAssumption, RolesDiffer
<1>a. \A i \in DOMAIN tokens : /\ CallerOf(i) \in Users
                                /\ tokens[i].company \in Companies \cup {None}
  BY TokensTyped
<1>b. \A u \in Users : NoUser.role = None /\ (user[u] # NoUser \/ user[u].role = None)
  BY DEF NoUser
<1>1. ASSUME NEW u \in Users, NEW role \in {"admin", "delivery"}, NEW k \in Companies \cup {None},
             NEW p \in Passwords, SignUp(u, role, k, p)
      PROVE  KeptPasswordOpens'
  BY <1>1, <1>a, UserFields, <1>b DEF SignUp, KeptPasswordOpens, Registered, Strangers, MembersTyped
<1>2. ASSUME NEW u \in Users, VerifyEmail(u)
      PROVE  KeptPasswordOpens'
  BY <1>2, <1>a, UserFields DEF VerifyEmail, KeptPasswordOpens
<1>3. ASSUME NEW u \in Users, SignIn(u)
      PROVE  KeptPasswordOpens'
  BY <1>3, <1>a, UserFields DEF SignIn, KeptPasswordOpens
<1>4. ASSUME NEW u \in Users, ForgotPassword(u)
      PROVE  KeptPasswordOpens'
  BY <1>4, <1>a, UserFields DEF ForgotPassword, KeptPasswordOpens
<1>5. ASSUME NEW i \in DOMAIN tokens, NEW k \in Companies, Found(i, k)
      PROVE  KeptPasswordOpens'
  BY <1>5, <1>a, UserFields DEF Found, KeptPasswordOpens
<1>6. ASSUME NEW i \in DOMAIN tokens, NEW k \in Companies, Join(i, k)
      PROVE  KeptPasswordOpens'
  BY <1>6, <1>a, UserFields DEF Join, KeptPasswordOpens
<1>7. ASSUME NEW i \in DOMAIN tokens, NEW u \in Users, NEW role \in Roles,
             NEW mail \in BOOLEAN, NEW p \in Passwords, CreateUser(i, u, role, mail, p)
      PROVE  KeptPasswordOpens'
  BY <1>7, <1>a, UserFields DEF CreateUser, KeptPasswordOpens, StoreCredential, MembersTyped
<1>8. ASSUME NEW i \in DOMAIN tokens, NEW u \in Users, NEW role \in {"admin", "staff"}, ChangeRole(i, u, role)
      PROVE  KeptPasswordOpens'
  BY <1>8, <1>a, UserFields DEF ChangeRole, KeptPasswordOpens
<1>9. ASSUME NEW i \in DOMAIN tokens, NEW u \in Users, Deactivate(i, u)
      PROVE  KeptPasswordOpens'
  BY <1>9, <1>a, UserFields DEF Deactivate, KeptPasswordOpens
<1>10. ASSUME NEW i \in DOMAIN tokens, NEW u \in Users, Activate(i, u)
      PROVE  KeptPasswordOpens'
  BY <1>10, <1>a, UserFields DEF Activate, KeptPasswordOpens
<1>11. ASSUME NEW i \in DOMAIN tokens, NEW u \in Users, NEW k \in Companies, RemoveMember(i, k, u)
      PROVE  KeptPasswordOpens'
  BY <1>11, <1>a, UserFields DEF RemoveMember, KeptPasswordOpens
<1>12. ASSUME NEW i \in DOMAIN tokens, NEW u \in Users, NEW p \in Passwords, ResetByOwner(i, u, p)
      PROVE  KeptPasswordOpens'
  BY <1>12, <1>a, UserFields DEF ResetByOwner, KeptPasswordOpens, StoreCredential, MembersTyped
<1>13. ASSUME NEW i \in DOMAIN tokens, Refresh(i)
      PROVE  KeptPasswordOpens'
  BY <1>13, <1>a, UserFields DEF Refresh, KeptPasswordOpens
<1>14. ASSUME NEW i \in DOMAIN tokens, NEW whole \in BOOLEAN, SignOut(i, whole)
      PROVE  KeptPasswordOpens'
  BY <1>14, <1>a, UserFields DEF SignOut, KeptPasswordOpens
<1>15. ASSUME NEW u \in Users, NEW right \in BOOLEAN, VerifyOtp(u, right)
      PROVE  KeptPasswordOpens'
  BY <1>15, <1>a, UserFields DEF VerifyOtp, KeptPasswordOpens
<1>16. ASSUME NEW n \in DOMAIN codes, NEW p \in Passwords, NEW done \in 1..4, ResetPassword(n, p, done)
      PROVE  KeptPasswordOpens'
  BY <1>16, <1>a, UserFields DEF ResetPassword, KeptPasswordOpens, ForgetCredential, MembersTyped
<1>17. CASE UNCHANGED membershipVars
  BY <1>17 DEF membershipVars, KeptPasswordOpens
<1> QED
  BY <1>1, <1>2, <1>3, <1>4, <1>5, <1>6, <1>7, <1>8, <1>9, <1>10, <1>11, <1>12, <1>13, <1>14, <1>15, <1>16, <1>17 DEF MembershipNext, Roles

(* A session that can be refreshed belongs to somebody who is in. *)
LEMMA OutStep ==
  ASSUME MembersTyped, SignedOutStaysOut, [MembershipNext]_membershipVars
  PROVE  SignedOutStaysOut'
<1> USE MembershipAssumption, RolesDiffer
<1>a. \A i \in DOMAIN tokens : /\ CallerOf(i) \in Users
                                /\ tokens[i].company \in Companies \cup {None}
  BY TokensTyped
<1>b. \A u \in Users : NoUser.role = None /\ (user[u] # NoUser \/ user[u].role = None)
  BY DEF NoUser
<1>1. ASSUME NEW u \in Users, NEW role \in {"admin", "delivery"}, NEW k \in Companies \cup {None},
             NEW p \in Passwords, SignUp(u, role, k, p)
      PROVE  SignedOutStaysOut'
  BY <1>1, <1>a, TokensTyped DEF SignUp, SignedOutStaysOut, CallerOf, MembersTyped, IssueTokens, Pair
<1>2. ASSUME NEW u \in Users, VerifyEmail(u)
      PROVE  SignedOutStaysOut'
  BY <1>2, <1>a, TokensTyped DEF VerifyEmail, SignedOutStaysOut, CallerOf, MembersTyped
<1>3. ASSUME NEW u \in Users, SignIn(u)
      PROVE  SignedOutStaysOut'
  BY <1>3, <1>a, TokensTyped DEF SignIn, SignedOutStaysOut, CallerOf, MembersTyped, IssueTokens, Pair
<1>4. ASSUME NEW u \in Users, ForgotPassword(u)
      PROVE  SignedOutStaysOut'
  BY <1>4, <1>a, TokensTyped DEF ForgotPassword, SignedOutStaysOut, CallerOf, MembersTyped
<1>5. ASSUME NEW i \in DOMAIN tokens, NEW k \in Companies, Found(i, k)
      PROVE  SignedOutStaysOut'
  BY <1>5, <1>a, TokensTyped DEF Found, SignedOutStaysOut, CallerOf, MembersTyped
<1>6. ASSUME NEW i \in DOMAIN tokens, NEW k \in Companies, Join(i, k)
      PROVE  SignedOutStaysOut'
  BY <1>6, <1>a, TokensTyped DEF Join, SignedOutStaysOut, CallerOf, MembersTyped
<1>7. ASSUME NEW i \in DOMAIN tokens, NEW u \in Users, NEW role \in Roles,
             NEW mail \in BOOLEAN, NEW p \in Passwords, CreateUser(i, u, role, mail, p)
      PROVE  SignedOutStaysOut'
  BY <1>7, <1>a, TokensTyped DEF CreateUser, SignedOutStaysOut, CallerOf, MembersTyped
<1>8. ASSUME NEW i \in DOMAIN tokens, NEW u \in Users, NEW role \in {"admin", "staff"}, ChangeRole(i, u, role)
      PROVE  SignedOutStaysOut'
  BY <1>8, <1>a, TokensTyped DEF ChangeRole, SignedOutStaysOut, CallerOf, MembersTyped
<1>9. ASSUME NEW i \in DOMAIN tokens, NEW u \in Users, Deactivate(i, u)
      PROVE  SignedOutStaysOut'
  BY <1>9, <1>a, TokensTyped DEF Deactivate, SignedOutStaysOut, CallerOf, MembersTyped
<1>10. ASSUME NEW i \in DOMAIN tokens, NEW u \in Users, Activate(i, u)
      PROVE  SignedOutStaysOut'
  BY <1>10, <1>a, TokensTyped DEF Activate, SignedOutStaysOut, CallerOf, MembersTyped
<1>11. ASSUME NEW i \in DOMAIN tokens, NEW u \in Users, NEW k \in Companies, RemoveMember(i, k, u)
      PROVE  SignedOutStaysOut'
  BY <1>11, <1>a, TokensTyped DEF RemoveMember, SignedOutStaysOut, CallerOf, MembersTyped
<1>12. ASSUME NEW i \in DOMAIN tokens, NEW u \in Users, NEW p \in Passwords, ResetByOwner(i, u, p)
      PROVE  SignedOutStaysOut'
  BY <1>12, <1>a, TokensTyped DEF ResetByOwner, SignedOutStaysOut, CallerOf, MembersTyped
<1>13. ASSUME NEW i \in DOMAIN tokens, Refresh(i)
      PROVE  SignedOutStaysOut'
  BY <1>13, <1>a, TokensTyped DEF Refresh, SignedOutStaysOut, CallerOf, MembersTyped, Refreshable, Pair
<1>14. ASSUME NEW i \in DOMAIN tokens, NEW whole \in BOOLEAN, SignOut(i, whole)
      PROVE  SignedOutStaysOut'
  <2> DEFINE u == CallerOf(i)
             toks == IF whole THEN Revoked(u, tokens) ELSE tokens
  <2>1. /\ toks \in Seq(TokenRow) /\ DOMAIN toks = DOMAIN tokens
        /\ \A j \in DOMAIN tokens : /\ toks[j].user = tokens[j].user
                                    /\ toks[j].live => tokens[j].live /\ (whole => tokens[j].user # u)
    BY RevokedIsTokens DEF MembersTyped
  <2>2. tokens' = [toks EXCEPT ![i].denied = TRUE] /\ out' = IF whole THEN out \cup {u} ELSE out
    BY <1>14 DEF SignOut
  <2>3. \A j \in DOMAIN toks : toks[j] \in TokenRow
    BY <2>1
  <2> HIDE DEF toks
  <2>4. /\ DOMAIN tokens' = DOMAIN tokens
        /\ \A j \in DOMAIN tokens : tokens'[j].user = toks[j].user /\ tokens'[j].live = toks[j].live
    BY <2>1, <2>2, <2>3 DEF TokenRow
  <2> QED BY <2>1, <2>2, <2>4 DEF SignedOutStaysOut, CallerOf
<1>15. ASSUME NEW u \in Users, NEW right \in BOOLEAN, VerifyOtp(u, right)
      PROVE  SignedOutStaysOut'
  BY <1>15, <1>a, TokensTyped DEF VerifyOtp, SignedOutStaysOut, CallerOf, MembersTyped
<1>16. ASSUME NEW n \in DOMAIN codes, NEW p \in Passwords, NEW done \in 1..4, ResetPassword(n, p, done)
      PROVE  SignedOutStaysOut'
  <2> DEFINE u == codes[n].user
             toks == IF done < 4 THEN tokens ELSE Revoked(u, tokens)
  <2>1. /\ DOMAIN toks = DOMAIN tokens
        /\ \A j \in DOMAIN tokens : /\ toks[j].user = tokens[j].user
                                    /\ toks[j].live => tokens[j].live /\ (done = 4 => tokens[j].user # u)
    BY RevokedIsTokens DEF MembersTyped
  <2>2. tokens' = toks /\ out' = IF done = 4 THEN out \cup {u} ELSE out
    BY <1>16 DEF ResetPassword
  <2> HIDE DEF toks, u
  <2> QED BY <2>1, <2>2 DEF SignedOutStaysOut, CallerOf
<1>17. CASE UNCHANGED membershipVars
  BY <1>17 DEF membershipVars, SignedOutStaysOut, CallerOf, MembersTyped
<1> QED
  BY <1>1, <1>2, <1>3, <1>4, <1>5, <1>6, <1>7, <1>8, <1>9, <1>10, <1>11, <1>12, <1>13, <1>14, <1>15, <1>16, <1>17 DEF MembershipNext, Roles

(* A company keeps a member. *)
LEMMA PeopledStep ==
  ASSUME MembersTyped, Peopled, [MembershipNext]_membershipVars
  PROVE  Peopled'
<1> USE MembershipAssumption, RolesDiffer
<1>a. \A i \in DOMAIN tokens : /\ CallerOf(i) \in Users
                                /\ tokens[i].company \in Companies \cup {None}
  BY TokensTyped
<1>b. \A u \in Users : NoUser.role = None /\ (user[u] # NoUser \/ user[u].role = None)
  BY DEF NoUser
<1>1. ASSUME NEW u \in Users, NEW role \in {"admin", "delivery"}, NEW k \in Companies \cup {None},
             NEW p \in Passwords, SignUp(u, role, k, p)
      PROVE  Peopled'
  BY <1>1, <1>a, TokensTyped, MemberFields DEF SignUp, Peopled, CallerOf, MembersTyped, IssueTokens, Pair, Founded
<1>2. ASSUME NEW u \in Users, VerifyEmail(u)
      PROVE  Peopled'
  BY <1>2, <1>a, TokensTyped, MemberFields DEF VerifyEmail, Peopled, CallerOf, MembersTyped
<1>3. ASSUME NEW u \in Users, SignIn(u)
      PROVE  Peopled'
  <2>1. PICK k \in HomesOf(u) : tokens' = Append(tokens, Pair(u, k, RoleAt(u, k)))
    BY <1>3 DEF SignIn, IssueTokens
  <2>2. k # None => k \in Companies /\ member[k][u] # None
    BY HomesType
  <2>3. member' = member
    BY <1>3 DEF SignIn
  <2> DEFINE pair == Pair(u, k, RoleAt(u, k))
  <2>4. pair.company = k
    BY DEF Pair
  <2>5. tokens' = Append(tokens, pair)
    BY <2>1
  <2> HIDE DEF pair
  <2>6. tokens \in Seq(TokenRow)
    BY DEF MembersTyped
  <2>7. \A i \in DOMAIN tokens' : IF i \in DOMAIN tokens THEN tokens'[i] = tokens[i] ELSE tokens'[i] = pair
    BY <2>5, <2>6, TokensAppended
  <2> QED BY <2>2, <2>3, <2>4, <2>7 DEF Peopled
<1>4. ASSUME NEW u \in Users, ForgotPassword(u)
      PROVE  Peopled'
  BY <1>4, <1>a, TokensTyped, MemberFields DEF ForgotPassword, Peopled, CallerOf, MembersTyped
<1>5. ASSUME NEW i \in DOMAIN tokens, NEW k \in Companies, Found(i, k)
      PROVE  Peopled'
  BY <1>5, <1>a, TokensTyped, MemberFields DEF Found, Peopled, CallerOf, MembersTyped
<1>6. ASSUME NEW i \in DOMAIN tokens, NEW k \in Companies, Join(i, k)
      PROVE  Peopled'
  BY <1>6, <1>a, TokensTyped, MemberFields DEF Join, Peopled, CallerOf, MembersTyped
<1>7. ASSUME NEW i \in DOMAIN tokens, NEW u \in Users, NEW role \in Roles,
             NEW mail \in BOOLEAN, NEW p \in Passwords, CreateUser(i, u, role, mail, p)
      PROVE  Peopled'
  BY <1>7, <1>a, TokensTyped, MemberFields DEF CreateUser, Peopled, CallerOf, MembersTyped, OwnerCalls
<1>8. ASSUME NEW i \in DOMAIN tokens, NEW u \in Users, NEW role \in {"admin", "staff"}, ChangeRole(i, u, role)
      PROVE  Peopled'
  BY <1>8, <1>a, TokensTyped, MemberFields DEF ChangeRole, Peopled, CallerOf, MembersTyped, OwnerCalls, Managed
<1>9. ASSUME NEW i \in DOMAIN tokens, NEW u \in Users, Deactivate(i, u)
      PROVE  Peopled'
  BY <1>9, <1>a, TokensTyped, MemberFields DEF Deactivate, Peopled, CallerOf, MembersTyped
<1>10. ASSUME NEW i \in DOMAIN tokens, NEW u \in Users, Activate(i, u)
      PROVE  Peopled'
  BY <1>10, <1>a, TokensTyped, MemberFields DEF Activate, Peopled, CallerOf, MembersTyped
<1>11. ASSUME NEW i \in DOMAIN tokens, NEW u \in Users, NEW k \in Companies, RemoveMember(i, k, u)
      PROVE  Peopled'
  BY <1>11, <1>a, TokensTyped, MemberFields DEF RemoveMember, Peopled, CallerOf, MembersTyped
<1>12. ASSUME NEW i \in DOMAIN tokens, NEW u \in Users, NEW p \in Passwords, ResetByOwner(i, u, p)
      PROVE  Peopled'
  BY <1>12, <1>a, TokensTyped, MemberFields DEF ResetByOwner, Peopled, CallerOf, MembersTyped
<1>13. ASSUME NEW i \in DOMAIN tokens, Refresh(i)
      PROVE  Peopled'
  <2> DEFINE u == CallerOf(i)
             toks == [tokens EXCEPT ![i].live = FALSE]
  <2>a. PICK k \in IF tokens[i].company # None THEN {tokens[i].company} ELSE HomesOf(u) :
             \E role : tokens' = Append(toks, Pair(u, k, role))
    BY <1>13 DEF Refresh
  <2>1. PICK role : tokens' = Append(toks, Pair(u, k, role))
    BY <2>a
  <2>2. k # None => \E v \in Users : member[k][v] # None
    BY <2>1, <1>a, HomesType DEF Peopled
  <2>3. /\ toks \in Seq(TokenRow) /\ DOMAIN toks = DOMAIN tokens
        /\ \A j \in DOMAIN tokens : toks[j].company = tokens[j].company
    <3>1. tokens[i] \in TokenRow
      BY TokensTyped
    <3>2. /\ [tokens[i] EXCEPT !.live = FALSE] \in TokenRow
          /\ [tokens[i] EXCEPT !.live = FALSE].company = tokens[i].company
      BY <3>1 DEF TokenRow
    <3> QED BY <3>2 DEF MembersTyped
  <2>4. member' = member
    BY <1>13 DEF Refresh
  <2> DEFINE pair == Pair(u, k, role)
  <2>5. pair.company = k
    BY DEF Pair
  <2> HIDE DEF toks, pair
  <2>6. tokens' = Append(toks, pair)
    BY <2>1 DEF toks, pair
  <2> QED BY <2>2, <2>3, <2>4, <2>5, <2>6, TokensAppended DEF Peopled
<1>14. ASSUME NEW i \in DOMAIN tokens, NEW whole \in BOOLEAN, SignOut(i, whole)
      PROVE  Peopled'
  <2> DEFINE toks == IF whole THEN Revoked(CallerOf(i), tokens) ELSE tokens
  <2>1. /\ toks \in Seq(TokenRow) /\ DOMAIN toks = DOMAIN tokens
        /\ \A j \in DOMAIN tokens : toks[j].company = tokens[j].company
    BY RevokedIsTokens DEF MembersTyped
  <2>2. tokens' = [toks EXCEPT ![i].denied = TRUE] /\ member' = member
    BY <1>14 DEF SignOut
  <2>3. \A j \in DOMAIN toks : toks[j] \in TokenRow
    BY <2>1
  <2> HIDE DEF toks
  <2>4. /\ DOMAIN tokens' = DOMAIN tokens
        /\ \A j \in DOMAIN tokens : tokens'[j].company = toks[j].company
    BY <2>1, <2>2, <2>3 DEF TokenRow
  <2> QED BY <2>1, <2>2, <2>4 DEF Peopled
<1>15. ASSUME NEW u \in Users, NEW right \in BOOLEAN, VerifyOtp(u, right)
      PROVE  Peopled'
  BY <1>15, <1>a, TokensTyped, MemberFields DEF VerifyOtp, Peopled, CallerOf, MembersTyped
<1>16. ASSUME NEW n \in DOMAIN codes, NEW p \in Passwords, NEW done \in 1..4, ResetPassword(n, p, done)
      PROVE  Peopled'
  BY <1>16, <1>a, TokensTyped, MemberFields, RevokedIsTokens DEF ResetPassword, Peopled, CallerOf, MembersTyped
<1>17. CASE UNCHANGED membershipVars
  BY <1>17 DEF membershipVars, Peopled, CallerOf, MembersTyped
<1> QED
  BY <1>1, <1>2, <1>3, <1>4, <1>5, <1>6, <1>7, <1>8, <1>9, <1>10, <1>11, <1>12, <1>13, <1>14, <1>15, <1>16, <1>17 DEF MembershipNext, Roles

(* Every founded company keeps an owner who can act. *)
LEMMA OwnerStep ==
  ASSUME MembersTyped, Strangers, Peopled, OwnerRemains, [MembershipNext]_membershipVars
  PROVE  OwnerRemains'
<1> USE MembershipAssumption, RolesDiffer
<1>a. \A i \in DOMAIN tokens : /\ CallerOf(i) \in Users
                                /\ tokens[i].company \in Companies \cup {None}
  BY TokensTyped
<1>b. \A u \in Users : NoUser.role = None /\ (user[u] # NoUser \/ user[u].role = None)
  BY DEF NoUser
<1>1. ASSUME NEW u \in Users, NEW role \in {"admin", "delivery"}, NEW k \in Companies \cup {None},
             NEW p \in Passwords, SignUp(u, role, k, p)
      PROVE  OwnerRemains'
  <2>1. ~user[u].active /\ \A c \in Companies : member[c][u] = None
    BY <1>1, <1>b DEF SignUp, Registered, Strangers
  <2>2. \A v \in Users : /\ user'[v].active = IF v = u THEN TRUE ELSE user[v].active
                         /\ offBy'[v] = offBy[v]
    BY <1>1 DEF SignUp, MembersTyped
  <2>3. \A c \in Companies, v \in Users :
          member'[c][v] = IF c = k /\ v = u THEN "delivery" ELSE member[c][v]
    BY <1>1 DEF SignUp, MembersTyped
  <2>4. k \in Companies => \E v \in Users : member[k][v] = "admin"
    BY <1>1 DEF SignUp, Founded
  <2>5. ASSUME NEW c \in Companies
       PROVE  \/ \A v \in Users : member'[c][v] = None
              \/ \E v \in Users : member'[c][v] = "admin" /\ user'[v].active
              \/ \E v \in Users : member'[c][v] = "admin" /\ ~user'[v].active /\ offBy'[v] # c
    <3>1. CASE \A v \in Users : member[c][v] = None
      BY <3>1, <2>1, <2>2, <2>3, <2>4
    <3>2. CASE \E v \in Users : member[c][v] = "admin" /\ user[v].active
      BY <3>2, <2>1, <2>2, <2>3, <2>4, ZenonT(40)
    <3>3. CASE \E v \in Users : member[c][v] = "admin" /\ ~user[v].active /\ offBy[v] # c
      BY <3>3, <2>1, <2>2, <2>3, <2>4
    <3> QED BY <3>1, <3>2, <3>3 DEF OwnerRemains, Admins
  <2> QED BY <2>5 DEF OwnerRemains, Admins
<1>2. ASSUME NEW u \in Users, VerifyEmail(u)
      PROVE  OwnerRemains'
  BY <1>2, <1>a, UserFields, MemberFields DEF VerifyEmail, OwnerRemains, Admins
<1>3. ASSUME NEW u \in Users, SignIn(u)
      PROVE  OwnerRemains'
  BY <1>3, <1>a, UserFields, MemberFields DEF SignIn, OwnerRemains, Admins
<1>4. ASSUME NEW u \in Users, ForgotPassword(u)
      PROVE  OwnerRemains'
  BY <1>4, <1>a, UserFields, MemberFields DEF ForgotPassword, OwnerRemains, Admins
<1>5. ASSUME NEW i \in DOMAIN tokens, NEW k \in Companies, Found(i, k)
      PROVE  OwnerRemains'
  BY <1>5, <1>a, UserFields, MemberFields DEF Found, OwnerRemains, Admins, Admitted, CallerOf
<1>6. ASSUME NEW i \in DOMAIN tokens, NEW k \in Companies, Join(i, k)
      PROVE  OwnerRemains'
  BY <1>6, <1>a, UserFields, MemberFields DEF Join, OwnerRemains, Admins, Admitted, CallerOf, Founded
<1>7. ASSUME NEW i \in DOMAIN tokens, NEW u \in Users, NEW role \in Roles,
             NEW mail \in BOOLEAN, NEW p \in Passwords, CreateUser(i, u, role, mail, p)
      PROVE  OwnerRemains'
  <2> DEFINE k == tokens[i].company
  <2>1. ~user[u].active /\ \A c \in Companies : member[c][u] = None
    BY <1>7, <1>b DEF CreateUser, Registered, Strangers
  <2>2. k \in Companies /\ \E v \in Users : member[k][v] # None
    BY <1>7, <1>a DEF CreateUser, OwnerCalls, Peopled
  <2>3. \A v \in Users : /\ user'[v].active = IF v = u THEN TRUE ELSE user[v].active
                         /\ offBy'[v] = offBy[v]
    BY <1>7 DEF CreateUser, MembersTyped
  <2>4. \A c \in Companies, v \in Users :
          member'[c][v] = IF c = k /\ v = u THEN role ELSE member[c][v]
    <3>1. member' = [member EXCEPT ![k][u] = role]
      BY <1>7 DEF CreateUser
    <3> HIDE DEF k
    <3> QED BY <2>2, <3>1, MemberFields
  <2> HIDE DEF k
  <2>5. ASSUME NEW c \in Companies
       PROVE  \/ \A v \in Users : member'[c][v] = None
              \/ \E v \in Users : member'[c][v] = "admin" /\ user'[v].active
              \/ \E v \in Users : member'[c][v] = "admin" /\ ~user'[v].active /\ offBy'[v] # c
    <3>1. CASE \A v \in Users : member[c][v] = None
      BY <3>1, <2>1, <2>2, <2>3, <2>4
    <3>2. CASE \E v \in Users : member[c][v] = "admin" /\ user[v].active
      BY <3>2, <2>1, <2>2, <2>3, <2>4, ZenonT(40)
    <3>3. CASE \E v \in Users : member[c][v] = "admin" /\ ~user[v].active /\ offBy[v] # c
      BY <3>3, <2>1, <2>2, <2>3, <2>4
    <3> QED BY <3>1, <3>2, <3>3 DEF OwnerRemains, Admins
  <2> QED BY <2>5 DEF OwnerRemains, Admins
<1>8. ASSUME NEW i \in DOMAIN tokens, NEW u \in Users, NEW role \in {"admin", "staff"}, ChangeRole(i, u, role)
      PROVE  OwnerRemains'
  BY <1>8, <1>a, UserFields, MemberFields DEF ChangeRole, OwnerRemains, Admins, OwnerCalls, Managed, NotLastAdmin
<1>9. ASSUME NEW i \in DOMAIN tokens, NEW u \in Users, Deactivate(i, u)
      PROVE  OwnerRemains'
  BY <1>9, <1>a, UserFields, MemberFields, SMTT(60) DEF Deactivate, OwnerRemains, Admins, OwnerCalls, Managed, NotLastAdmin, MembersTyped
<1>10. ASSUME NEW i \in DOMAIN tokens, NEW u \in Users, Activate(i, u)
      PROVE  OwnerRemains'
  BY <1>10, <1>a, UserFields, MemberFields DEF Activate, OwnerRemains, Admins, OwnerCalls, Managed
<1>11. ASSUME NEW i \in DOMAIN tokens, NEW u \in Users, NEW k \in Companies, RemoveMember(i, k, u)
      PROVE  OwnerRemains'
  BY <1>11, <1>a, UserFields, MemberFields DEF RemoveMember, OwnerRemains, Admins, Admitted, CallerOf
<1>12. ASSUME NEW i \in DOMAIN tokens, NEW u \in Users, NEW p \in Passwords, ResetByOwner(i, u, p)
      PROVE  OwnerRemains'
  BY <1>12, <1>a, UserFields, MemberFields DEF ResetByOwner, OwnerRemains, Admins
<1>13. ASSUME NEW i \in DOMAIN tokens, Refresh(i)
      PROVE  OwnerRemains'
  BY <1>13, <1>a, UserFields, MemberFields DEF Refresh, OwnerRemains, Admins
<1>14. ASSUME NEW i \in DOMAIN tokens, NEW whole \in BOOLEAN, SignOut(i, whole)
      PROVE  OwnerRemains'
  BY <1>14, <1>a, UserFields, MemberFields DEF SignOut, OwnerRemains, Admins
<1>15. ASSUME NEW u \in Users, NEW right \in BOOLEAN, VerifyOtp(u, right)
      PROVE  OwnerRemains'
  BY <1>15, <1>a, UserFields, MemberFields DEF VerifyOtp, OwnerRemains, Admins
<1>16. ASSUME NEW n \in DOMAIN codes, NEW p \in Passwords, NEW done \in 1..4, ResetPassword(n, p, done)
      PROVE  OwnerRemains'
  BY <1>16, <1>a, UserFields, MemberFields DEF ResetPassword, OwnerRemains, Admins
<1>17. CASE UNCHANGED membershipVars
  BY <1>17 DEF membershipVars, OwnerRemains, Admins
<1> QED
  BY <1>1, <1>2, <1>3, <1>4, <1>5, <1>6, <1>7, <1>8, <1>9, <1>10, <1>11, <1>12, <1>13, <1>14, <1>15, <1>16, <1>17 DEF MembershipNext, Roles

-----------------------------------------------------------------------------
(* The theorems *)

LEMMA InitIInv == MembershipInit => IInv
<1> SUFFICES ASSUME MembershipInit PROVE IInv
  OBVIOUS
<1> USE MembershipAssumption, RolesDiffer
<1>1. PICK owner \in Users, k \in Companies, p \in Passwords :
        /\ user = [u \in Users |-> IF u = owner
                     THEN [role |-> "admin", mail |-> TRUE, password |-> p, active |-> TRUE,
                           verified |-> TRUE, home |-> k]
                     ELSE NoUser]
        /\ member = [c \in Companies |-> [u \in Users |->
                       IF c = k /\ u = owner THEN "admin" ELSE None]]
  BY DEF MembershipInit
<1>2. MembersTyped
  BY <1>1 DEF MembershipInit, MembersTyped, NoUser, UserRow, Roles
<1>3. Strangers
  BY <1>1 DEF MembershipInit, Strangers, NoUser
<1>4. OwnerRemains
  BY <1>1 DEF OwnerRemains, Admins
<1>5. Peopled /\ KeptPasswordOpens /\ SignedOutStaysOut
  BY DEF MembershipInit, Peopled, KeptPasswordOpens, SignedOutStaysOut
<1> QED BY <1>2, <1>3, <1>4, <1>5 DEF IInv

LEMMA NextIInv == IInv /\ [MembershipNext]_membershipVars => IInv'
  BY MembersStep, StrangersStep, PeopledStep, OwnerStep, KeptStep, OutStep DEF IInv

(* Who is not registered holds nothing, a company somebody has a session of *)
(* has members, and the three properties below hold: together each step of  *)
(* AuthService and CompanyUsersService keeps them.                          *)
THEOREM MembershipInvariant == MembershipSpec => []IInv
  BY InitIInv, NextIInv, PTL DEF MembershipSpec

(* Sessions, credentials and memberships keep their shape.                  *)
THEOREM MembershipTypes == MembershipSpec => []MembersTyped
<1>1. IInv => MembersTyped
  BY DEF IInv
<1> QED BY MembershipInvariant, <1>1, PTL

(* However many owners remove, demote and deactivate each other, and        *)
(* whatever the claims of an old token still say, a company that was        *)
(* founded keeps an active owner; what can leave it with none is another    *)
(* company deactivating its owner's account.                                *)
THEOREM OwnersRemain == MembershipSpec => []OwnerRemains
<1>1. IInv => OwnerRemains
  BY DEF IInv
<1> QED BY MembershipInvariant, <1>1, PTL

(* The password a company reads back opens the account it is kept for.      *)
THEOREM KeptPasswordsOpen == MembershipSpec => []KeptPasswordOpens
<1>1. IInv => KeptPasswordOpens
  BY DEF IInv
<1> QED BY MembershipInvariant, <1>1, PTL

(* After signing out, or after a reset by code, no session is left that a   *)
(* refresh could extend, however many were open.                            *)
THEOREM SignedOutStayOut == MembershipSpec => []SignedOutStaysOut
<1>1. IInv => SignedOutStaysOut
  BY DEF IInv
<1> QED BY MembershipInvariant, <1>1, PTL

-----------------------------------------------------------------------------
(* SalesDocuments: types *)

Senders == Keys \cup Approvals
OrderRow == [status : {"none", "open", "partial", "fulfilled", "cancelled", "invoiced", "gone"},
             from : Estimates \cup {"none"}, delivery : BOOLEAN, shipped : 0..Ordered]
EstimateStatuses == {"draft", "sent", "accepted", "declined", "gone", "converted"}
KeyStatuses == {"none", "pending", "completed"}
Decided == {"pending", "approving", "approved", "rejected", "cancelled"}
RequestRow == {[status |-> "none", call |-> NoCall]} \cup [status : Decided, call : Calls]

(* A run of a handler, and the saves of rows that were read before.         *)
Stages == {"reserve", "claim", "run", "make", "mark", "posted"}
Run == [at : Stages, kind : {"estimate", "call"}, by : Senders, call : Calls]
Dismissal == [at : {"dismiss"}, kind : {"dismiss"}, by : Approvals, status : {"rejected", "cancelled"}]
OrderSave == [at : {"saveOrder"}, kind : {"saveOrder"}, o : Orders, row : OrderRow]
EstimateSave == [at : {"saveEstimate"}, kind : {"saveEstimate"}, e : Estimates,
                 status : EstimateStatuses]
Job == {NoJob} \cup Run \cup Dismissal \cup OrderSave \cup EstimateSave

JobOK(row) ==
  /\ row.at = "reserve" => row.by \in Keys
  /\ row.at = "claim" => row.by \in Approvals
  /\ row.at \in {"make", "mark"} => row.call.do = "estimate"
  /\ row.at \in Stages => row.kind = KindOf(row.call)

JobsOK == job \in [Jobs -> Job] /\ \A j \in Jobs : JobOK(job[j])

(* A request somebody decides has been filed.                               *)
Filed == \A j \in Jobs : job[j].at \in Stages \cup {"dismiss"} /\ By(j) \in Approvals
                         => approval[By(j)].status # "none"

TypeOK ==
  /\ order \in [Orders -> OrderRow]
  /\ estimate \in [Estimates -> EstimateStatuses]
  /\ key \in [Keys -> KeyStatuses]
  /\ approval \in [Approvals -> RequestRow]
  /\ call \in [Keys -> Calls \cup {NoCall}]
  /\ JobsOK
  /\ billed \in [Orders \cup Estimates -> Nat]
  /\ effects \in [Senders -> Nat]
  /\ late \in SUBSET Senders /\ torn \in SUBSET Estimates
  /\ writes \in Nat
  /\ Filed

(* What a stage says of the job.                                            *)
LEMMA JobShapes ==
  ASSUME NEW row \in Job
  PROVE  /\ row.at \in Stages => row \in Run
         /\ row.at = "dismiss" => row \in Dismissal
         /\ row.at = "saveOrder" => row \in OrderSave
         /\ row.at = "saveEstimate" => row \in EstimateSave
         /\ row.at = "idle" <=> row = NoJob
  BY DEF Job, NoJob, Stages, Run, Dismissal, OrderSave, EstimateSave

LEMMA CallShapes ==
  ASSUME NEW c \in Calls
  PROVE  /\ c.do \in {"invoice", "order", "convert", "estimate"}
         /\ c.do = "convert" => c.o \in Orders
         /\ c.do = "estimate" => c.e \in Estimates /\ c.to \in {"invoice", "order"}
         /\ KindOf(c) \in {"estimate", "call"}
         /\ KindOf(c) = "estimate" <=> c.do = "estimate"
  BY DEF Calls, KindOf

LEMMA RunMoves ==
  ASSUME NEW row \in Run, NEW stage \in Stages
  PROVE  /\ [row EXCEPT !.at = stage] \in Run
         /\ [row EXCEPT !.at = stage].at = stage
         /\ [row EXCEPT !.at = stage].by = row.by
         /\ [row EXCEPT !.at = stage].call = row.call
         /\ [row EXCEPT !.at = stage].kind = row.kind
  BY DEF Run

LEMMA NewOrders ==
  /\ [NoOrder EXCEPT !.status = "gone"] \in OrderRow
  /\ [NoOrder EXCEPT !.status = "open"] \in OrderRow
  /\ \A e \in Estimates : [NoOrder EXCEPT !.status = "open", !.from = e] \in OrderRow
<1>1. 0 \in 0..Ordered
  BY SalesAssumption
<1> QED BY <1>1 DEF NoOrder, OrderRow

LEMMA NoJobIdle == NoJob.at = "idle" /\ NoJob \in Job /\ JobOK(NoJob)
  BY DEF NoJob, Job, JobOK, Stages

(* What starting, moving and ending a run leave of the others.              *)
LEMMA RunStarted ==
  ASSUME JobsOK, NEW j \in Jobs, NEW kind, NEW new \in Job, JobOK(new), Start(j, kind, new)
  PROVE  /\ JobsOK' /\ job'[j] = new /\ job[j].at = "idle"
         /\ \A i \in Jobs : i # j => job'[i] = job[i]
         /\ \A i \in Jobs : job[i].at # "idle" => {kind, job[i].kind} \subseteq Overlapping
  BY DEF JobsOK, Start, Idle

LEMMA RunMoved ==
  ASSUME JobsOK, NEW j \in Jobs, job[j].at \in Stages,
         NEW stage \in {"run", "make", "mark", "posted"},
         stage \in {"make", "mark"} => job[j].call.do = "estimate",
         Move(j, stage)
  PROVE  /\ JobsOK' /\ \A i \in Jobs : i # j => job'[i] = job[i]
         /\ job'[j].at = stage /\ job'[j].by = job[j].by
         /\ job'[j].call = job[j].call /\ job'[j].kind = job[j].kind
<1> DEFINE row == [job[j] EXCEPT !.at = stage]
<1>1. job[j] \in Run
  BY JobShapes DEF JobsOK
<1>2. /\ row \in Run /\ row.at = stage /\ row.by = job[j].by
      /\ row.call = job[j].call /\ row.kind = job[j].kind
  <2>1. stage \in Stages
    BY DEF Stages
  <2> QED BY <1>1, <2>1, RunMoves
<1>3. job' = [job EXCEPT ![j] = row]
  BY DEF Move
<1> HIDE DEF row
<1>4. row \in Job /\ JobOK(row)
  BY <1>2 DEF Job, JobOK, JobsOK, Stages
<1>5. JobsOK' /\ job'[j] = row /\ \A i \in Jobs : i # j => job'[i] = job[i]
  BY <1>3, <1>4 DEF JobsOK
<1> QED BY <1>2, <1>5

LEMMA RunEnded ==
  ASSUME JobsOK, NEW j \in Jobs, End(j)
  PROVE  /\ JobsOK' /\ job'[j] = NoJob /\ \A i \in Jobs : i # j => job'[i] = job[i]
  BY NoJobIdle DEF JobsOK, End

(* Every step of a job keeps the types.                                     *)
LEMMA JobTypeStep ==
  ASSUME TypeOK, NEW j \in Jobs, JobStep(j)
  PROVE  TypeOK'
<1> USE SalesAssumption
<1>a. JobsOK /\ job[j] \in Job /\ JobOK(job[j])
  BY DEF TypeOK, JobsOK
<1>b. job[j].at \in Stages => job[j] \in Run /\ By(j) \in Senders /\ job[j].call \in Calls
  BY <1>a, JobShapes DEF Run, By
<1>c. /\ \A a \in Approvals : approval[a] \in RequestRow
      /\ \A o \in Orders : order[o] \in OrderRow
  BY DEF TypeOK
<1>d. ASSUME NEW a \in Approvals, approval[a].status # "none", NEW status \in Decided
      PROVE  /\ [approval EXCEPT ![a].status = status] \in [Approvals -> RequestRow]
             /\ \A b \in Approvals : approval[b].status # "none" =>
                  [approval EXCEPT ![a].status = status][b].status # "none"
  <2>1. approval[a] \in [status : Decided, call : Calls]
    BY <1>c, <1>d DEF RequestRow
  <2>2. /\ [approval[a] EXCEPT !.status = status] \in RequestRow
        /\ [approval[a] EXCEPT !.status = status].status = status
    BY <2>1 DEF RequestRow
  <2>3. status # "none"
    BY DEF Decided
  <2> QED BY <2>2, <2>3 DEF TypeOK
<1>1. CASE Send(j)
  <2>1. PICK k \in Keys, c \in Calls :
          /\ call' = [call EXCEPT ![k] = c]
          /\ Start(j, KindOf(c), [at |-> "reserve", kind |-> KindOf(c), by |-> k, call |-> c])
    BY <1>1 DEF Send
  <2> DEFINE new == [at |-> "reserve", kind |-> KindOf(c), by |-> k, call |-> c]
  <2>2. new \in Job /\ JobOK(new) /\ new.by = k
    BY CallShapes DEF Job, JobOK, Run, Stages, Senders
  <2>3. JobsOK' /\ job'[j] = new /\ \A i \in Jobs : i # j => job'[i] = job[i]
    BY <2>1, <2>2, <1>a, RunStarted
  <2>4. k \notin Approvals
    OBVIOUS
  <2>5. Filed'
    <3> HIDE DEF new
    <3> QED BY <1>1, <2>2, <2>3, <2>4 DEF Send, Filed, TypeOK, By
  <2> QED BY <1>1, <2>1, <2>3, <2>5 DEF Send, TypeOK, rows, history
<1>2. CASE Reserve(j)
  <2>1. At(j, "reserve") /\ job[j].at \in Stages
    BY <1>2 DEF Reserve, At, Stages
  <2>2. /\ JobsOK' /\ \A i \in Jobs : i # j => job'[i] = job[i]
        /\ job'[j].at = "idle" \/ job'[j].by = job[j].by
    BY <1>2, <1>a, <2>1, RunMoved, RunEnded, NoJobIdle DEF Reserve
  <2>3. Filed'
    BY <1>2, <2>1, <2>2 DEF Reserve, Filed, TypeOK, By, Stages
  <2> QED BY <1>2, <2>2, <2>3 DEF Reserve, TypeOK, rows, history, KeyStatuses
<1>3. CASE Decide(j)
  <2>1. PICK a \in Approvals :
          /\ approval[a].status = "pending"
          /\ Start(j, KindOf(approval[a].call), [at |-> "claim", kind |-> KindOf(approval[a].call),
                                                 by |-> a, call |-> approval[a].call])
    BY <1>3 DEF Decide
  <2> DEFINE c == approval[a].call
             new == [at |-> "claim", kind |-> KindOf(c), by |-> a, call |-> c]
  <2>2. c \in Calls
    BY <2>1 DEF TypeOK, RequestRow
  <2> HIDE DEF c
  <2>3. new \in Job /\ JobOK(new) /\ new.by = a
    BY <2>2, CallShapes DEF Job, JobOK, Run, Stages, Senders
  <2>4. JobsOK' /\ job'[j] = new /\ \A i \in Jobs : i # j => job'[i] = job[i]
    BY <2>1, <2>3, <1>a, RunStarted DEF c
  <2>5. Filed'
    <3> HIDE DEF new
    <3> QED BY <1>3, <2>1, <2>3, <2>4 DEF Decide, Filed, TypeOK, By
  <2> QED BY <1>3, <2>4, <2>5 DEF Decide, TypeOK, rows, history
<1>4. CASE Claim(j)
  <2>1. At(j, "claim") /\ job[j].at \in Stages /\ By(j) \in Approvals
    BY <1>4, <1>a DEF Claim, At, JobOK, By, Stages
  <2>2. /\ JobsOK' /\ \A i \in Jobs : i # j => job'[i] = job[i]
        /\ job'[j].at = "idle" \/ job'[j].by = job[j].by
    BY <1>4, <1>a, <2>1, RunMoved, RunEnded, NoJobIdle DEF Claim
  <2>3. /\ approval' \in [Approvals -> RequestRow]
        /\ \A b \in Approvals : approval[b].status # "none" => approval'[b].status # "none"
    <3>1. CASE MayClaim(By(j))
      <4>1. approval[By(j)].status # "none" /\ "approving" \in Decided
        BY <3>1 DEF MayClaim, Decided
      <4>2. approval' = [approval EXCEPT ![By(j)].status = "approving"]
        BY <1>4, <3>1 DEF Claim
      <4> QED BY <2>1, <4>1, <4>2, <1>d
    <3>2. CASE ~MayClaim(By(j))
      BY <1>4, <3>2 DEF Claim, TypeOK
    <3> QED BY <3>1, <3>2
  <2>4. Filed'
    BY <2>1, <2>2, <2>3 DEF Filed, TypeOK, By, Stages
  <2> QED BY <1>4, <2>2, <2>3, <2>4 DEF Claim, TypeOK, rows, history
<1>5. CASE Dismiss(j)
  <2>1. PICK a \in Approvals, status \in {"rejected", "cancelled"} :
          /\ approval[a].status = "pending"
          /\ Start(j, "dismiss", [at |-> "dismiss", kind |-> "dismiss", by |-> a, status |-> status])
    BY <1>5 DEF Dismiss
  <2> DEFINE new == [at |-> "dismiss", kind |-> "dismiss", by |-> a, status |-> status]
  <2>2. new \in Job /\ JobOK(new) /\ new.by = a
    BY DEF Job, JobOK, Dismissal, Stages
  <2>3. JobsOK' /\ job'[j] = new /\ \A i \in Jobs : i # j => job'[i] = job[i]
    BY <2>1, <2>2, <1>a, RunStarted
  <2>4. Filed'
    <3> HIDE DEF new
    <3> QED BY <1>5, <2>1, <2>2, <2>3 DEF Dismiss, Filed, TypeOK, By
  <2> QED BY <1>5, <2>3, <2>4 DEF Dismiss, TypeOK, rows, history
<1>6. CASE Dismissed(j)
  <2>1. JobsOK' /\ job'[j] = NoJob /\ \A i \in Jobs : i # j => job'[i] = job[i]
    BY <1>6, <1>a, RunEnded DEF Dismissed
  <2>2. job[j] \in Dismissal /\ job[j].at = "dismiss"
    BY <1>6, <1>a, JobShapes DEF Dismissed, At
  <2>3. By(j) \in Approvals /\ job[j].status \in Decided
    BY <2>2 DEF Dismissal, By, Decided
  <2>4. approval[By(j)].status # "none"
    BY <2>2, <2>3 DEF TypeOK, Filed
  <2>5. approval' = [approval EXCEPT ![By(j)].status = job[j].status]
    BY <1>6 DEF Dismissed
  <2>6. /\ approval' \in [Approvals -> RequestRow]
        /\ \A b \in Approvals : approval[b].status # "none" => approval'[b].status # "none"
    BY <2>3, <2>4, <2>5, <1>d
  <2>7. Filed'
    BY <2>1, <2>6, NoJobIdle DEF Filed, TypeOK, By, Stages
  <2> QED BY <1>6, <2>1, <2>6, <2>7 DEF Dismissed, TypeOK, rows, history, Wrote
<1>m. ASSUME job[j].at \in Stages, approval' = approval,
             NEW stage \in {"run", "make", "mark", "posted"},
             stage \in {"make", "mark"} => job[j].call.do = "estimate",
             Move(j, stage)
      PROVE  JobsOK' /\ Filed'
  BY <1>m, <1>a, RunMoved DEF Filed, TypeOK, By
<1>n. ASSUME By(j) \in Senders, Made(j) PROVE effects' \in [Senders -> Nat]
  BY <1>n DEF Made, TypeOK
<1>o. ASSUME NEW o \in Orders, NEW row \in OrderRow, order' = [order EXCEPT ![o] = row]
      PROVE  order' \in [Orders -> OrderRow]
  BY <1>o DEF TypeOK
<1>7. CASE CreateInvoice(j)
  <2>1. JobsOK' /\ Filed' /\ effects' \in [Senders -> Nat]
    BY <1>7, <1>b, <1>m, <1>n DEF CreateInvoice, At, Stages
  <2> QED BY <1>7, <2>1 DEF CreateInvoice, TypeOK, rows, Wrote
<1>8. CASE CreateOrder(j)
  <2>1. JobsOK' /\ Filed' /\ effects' \in [Senders -> Nat]
    BY <1>8, <1>b, <1>m, <1>n DEF CreateOrder, At, Stages
  <2>2. PICK o \in Free : order' = [order EXCEPT ![o] = [NoOrder EXCEPT !.status = "open"]]
    BY <1>8 DEF CreateOrder
  <2>3. o \in Orders /\ [NoOrder EXCEPT !.status = "open"] \in OrderRow
    BY NewOrders DEF Free
  <2>4. order' \in [Orders -> OrderRow]
    BY <2>2, <2>3, <1>o
  <2> QED BY <1>8, <2>1, <2>4 DEF CreateOrder, TypeOK, Wrote
<1>9. CASE ConvertOrder(j)
  <2>1. JobsOK' /\ Filed' /\ effects' \in [Senders -> Nat]
    BY <1>9, <1>b, <1>m, <1>n DEF ConvertOrder, At, Stages
  <2> DEFINE o == job[j].call.o
  <2>2. o \in Orders
    BY <1>9, <1>b, CallShapes DEF ConvertOrder, At, Stages
  <2>3. [order[o] EXCEPT !.status = "invoiced"] \in OrderRow
    BY <2>2, <1>c DEF OrderRow
  <2>4. /\ order' = [order EXCEPT ![o].status = "invoiced"]
        /\ billed' = [billed EXCEPT ![o] = @ + 1]
    BY <1>9 DEF ConvertOrder, Billed
  <2> HIDE DEF o
  <2>5. order' \in [Orders -> OrderRow]
    BY <2>2, <2>3, <2>4 DEF TypeOK
  <2>6. billed' \in [Orders \cup Estimates -> Nat]
    BY <2>2, <2>4 DEF TypeOK
  <2> QED BY <1>9, <2>1, <2>5, <2>6 DEF ConvertOrder, TypeOK, Wrote
<1>10. CASE ReadEstimate(j)
  <2>1. JobsOK' /\ Filed'
    BY <1>10, <1>m DEF ReadEstimate, At, Stages
  <2> QED BY <1>10, <2>1 DEF ReadEstimate, TypeOK, rows, history
<1>11. CASE MakeOfEstimate(j)
  <2>1. job[j].call.do = "estimate" /\ job[j].at \in Stages
    BY <1>11, <1>a DEF MakeOfEstimate, At, Stages, JobOK
  <2>2. JobsOK' /\ Filed' /\ effects' \in [Senders -> Nat]
    BY <1>11, <2>1, <1>b, <1>m, <1>n DEF MakeOfEstimate
  <2> DEFINE e == job[j].call.e
  <2>3. e \in Estimates
    BY <2>1, <1>b, CallShapes
  <2>4. \/ billed' = [billed EXCEPT ![e] = @ + 1] /\ order' = order
        \/ /\ \E o \in Free :
                order' = [order EXCEPT ![o] = [NoOrder EXCEPT !.status = "open", !.from = e]]
           /\ billed' = billed
    BY <1>11 DEF MakeOfEstimate, Billed
  <2> HIDE DEF e
  <2>5. order' \in [Orders -> OrderRow]
    BY <2>3, <2>4, <1>o, NewOrders DEF Free, TypeOK
  <2>6. billed' \in [Orders \cup Estimates -> Nat]
    BY <2>3, <2>4 DEF TypeOK
  <2> QED BY <1>11, <2>2, <2>5, <2>6 DEF MakeOfEstimate, TypeOK, Wrote
<1>12. CASE Mark(j)
  <2>1. job[j].at \in Stages
    BY <1>12 DEF Mark, At, Stages
  <2>2. JobsOK' /\ Filed'
    BY <1>12, <2>1, <1>m DEF Mark
  <2>3. estimate' \in [Estimates -> EstimateStatuses]
    BY <1>12 DEF Mark, TypeOK, MarkConverted, EstimateStatuses
  <2> QED BY <1>12, <2>2, <2>3 DEF Mark, TypeOK, history, Wrote
<1>13. CASE Finish(j)
  <2>1. job[j].at \in Stages
    BY <1>13 DEF Finish, At, Stages
  <2>2. JobsOK' /\ job'[j] = NoJob /\ \A i \in Jobs : i # j => job'[i] = job[i]
    BY <1>13, <1>a, RunEnded DEF Finish
  <2>3. /\ approval' \in [Approvals -> RequestRow]
        /\ \A b \in Approvals : approval[b].status # "none" => approval'[b].status # "none"
    <3>1. CASE By(j) \in Approvals
      <4>1. approval[By(j)].status # "none"
        BY <2>1, <3>1 DEF TypeOK, Filed
      <4> QED BY <1>13, <3>1, <4>1, <1>d DEF Finish, Decided
    <3>2. CASE By(j) \notin Approvals
      BY <1>13, <3>2 DEF Finish, TypeOK
    <3> QED BY <3>1, <3>2
  <2>4. Filed'
    BY <2>2, <2>3, NoJobIdle DEF Filed, TypeOK, By, Stages
  <2>5. key' \in [Keys -> KeyStatuses]
    BY <1>13 DEF Finish, TypeOK, KeyStatuses
  <2> QED BY <1>13, <2>2, <2>3, <2>4, <2>5 DEF Finish, TypeOK, rows, history
<1>14. CASE Fail(j)
  <2>1. job[j].at \in Stages
    BY <1>14 DEF Fail, Stages
  <2>2. JobsOK' /\ job'[j] = NoJob /\ \A i \in Jobs : i # j => job'[i] = job[i]
    BY <1>14, <1>a, RunEnded DEF Fail
  <2>3. /\ approval' \in [Approvals -> RequestRow]
        /\ \A b \in Approvals : approval[b].status # "none" => approval'[b].status # "none"
    <3>1. CASE By(j) \in Approvals
      <4>1. approval[By(j)].status # "none"
        BY <2>1, <3>1 DEF TypeOK, Filed
      <4> QED BY <1>14, <3>1, <4>1, <1>d DEF Fail, Decided
    <3>2. CASE By(j) \notin Approvals
      BY <1>14, <3>2 DEF Fail, TypeOK
    <3> QED BY <3>1, <3>2
  <2>4. Filed'
    BY <2>2, <2>3, NoJobIdle DEF Filed, TypeOK, By, Stages
  <2>5. key' \in [Keys -> KeyStatuses]
    BY <1>14 DEF Fail, TypeOK, KeyStatuses
  <2>6. late' \in SUBSET Senders
    BY <1>14, <2>1, <1>b DEF Fail, TypeOK
  <2>7. torn' \in SUBSET Estimates
    <3>1. At(j, "mark") => job[j].call.e \in Estimates
      BY <2>1, <1>a, <1>b, CallShapes DEF At, JobOK
    <3> QED BY <1>14, <3>1 DEF Fail, TypeOK
  <2> QED BY <1>14, <2>2, <2>3, <2>4, <2>5, <2>6, <2>7 DEF Fail, TypeOK, rows
<1>15. CASE SaveOrder(j)
  <2>1. PICK o \in Orders, row \in OrderRow :
          Start(j, "saveOrder", [at |-> "saveOrder", kind |-> "saveOrder", o |-> o, row |-> row])
    <3>1. PICK o \in Orders, shipped \in 0..Ordered,
               status \in {"shipped", "edited", "cancelled", "gone"} :
            LET row == order[o]
                new == CASE status = "shipped" ->
                              [row EXCEPT !.shipped = shipped, !.status = ShipStatus(shipped)]
                         [] status = "edited" -> row
                         [] status = "cancelled" -> [row EXCEPT !.status = status]
                         [] OTHER -> [NoOrder EXCEPT !.status = status]
            IN Start(j, "saveOrder", [at |-> "saveOrder", kind |-> "saveOrder", o |-> o, row |-> new])
      BY <1>15, ZenonT(40) DEF SaveOrder
    <3> DEFINE row == order[o]
               new == CASE status = "shipped" ->
                             [row EXCEPT !.shipped = shipped, !.status = ShipStatus(shipped)]
                        [] status = "edited" -> row
                        [] status = "cancelled" -> [row EXCEPT !.status = status]
                        [] OTHER -> [NoOrder EXCEPT !.status = status]
    <3>2. row \in OrderRow
      BY <1>c
    <3>3. new \in OrderRow
      <4> HIDE DEF row
      <4>1. [row EXCEPT !.shipped = shipped, !.status = ShipStatus(shipped)] \in OrderRow
        BY <3>2 DEF OrderRow, ShipStatus
      <4>2. [row EXCEPT !.status = "cancelled"] \in OrderRow
        BY <3>2 DEF OrderRow
      <4>3. [NoOrder EXCEPT !.status = "gone"] \in OrderRow
        BY NewOrders
      <4> QED BY <3>2, <4>1, <4>2, <4>3
    <3> QED BY <3>1, <3>3
  <2> DEFINE new == [at |-> "saveOrder", kind |-> "saveOrder", o |-> o, row |-> row]
  <2>2. new \in Job /\ JobOK(new) /\ new.at = "saveOrder"
    BY DEF Job, JobOK, OrderSave, Stages
  <2>3. JobsOK' /\ job'[j] = new /\ \A i \in Jobs : i # j => job'[i] = job[i]
    BY <2>1, <2>2, <1>a, RunStarted
  <2>4. Filed'
    <3> HIDE DEF new
    <3> QED BY <1>15, <2>2, <2>3 DEF SaveOrder, Filed, TypeOK, By, Stages
  <2> QED BY <1>15, <2>3, <2>4 DEF SaveOrder, TypeOK, rows, history
<1>16. CASE OrderSaved(j)
  <2>1. JobsOK' /\ job'[j] = NoJob /\ \A i \in Jobs : i # j => job'[i] = job[i]
    BY <1>16, <1>a, RunEnded DEF OrderSaved
  <2>2. Filed'
    BY <1>16, <2>1, NoJobIdle DEF OrderSaved, Filed, TypeOK, By, Stages
  <2>3. job[j] \in OrderSave
    BY <1>16, <1>a, JobShapes DEF OrderSaved, At
  <2>4. order' \in [Orders -> OrderRow]
    BY <1>16, <2>3 DEF OrderSaved, TypeOK, OrderSave
  <2> QED BY <1>16, <2>1, <2>2, <2>4 DEF OrderSaved, TypeOK, history, Wrote
<1>17. CASE SaveEstimate(j)
  <2>1. PICK e \in Estimates, status \in {"sent", "accepted", "declined", "gone"} :
          Start(j, "saveEstimate", [at |-> "saveEstimate", kind |-> "saveEstimate", e |-> e,
                                    status |-> status])
    BY <1>17 DEF SaveEstimate
  <2> DEFINE new == [at |-> "saveEstimate", kind |-> "saveEstimate", e |-> e, status |-> status]
  <2>2. new \in Job /\ JobOK(new) /\ new.at = "saveEstimate"
    BY DEF Job, JobOK, EstimateSave, Stages, EstimateStatuses
  <2>3. JobsOK' /\ job'[j] = new /\ \A i \in Jobs : i # j => job'[i] = job[i]
    BY <2>1, <2>2, <1>a, RunStarted
  <2>4. Filed'
    <3> HIDE DEF new
    <3> QED BY <1>17, <2>2, <2>3 DEF SaveEstimate, Filed, TypeOK, By, Stages
  <2> QED BY <1>17, <2>3, <2>4 DEF SaveEstimate, TypeOK, rows, history
<1>18. CASE EstimateSaved(j)
  <2>1. JobsOK' /\ job'[j] = NoJob /\ \A i \in Jobs : i # j => job'[i] = job[i]
    BY <1>18, <1>a, RunEnded DEF EstimateSaved
  <2>2. Filed'
    BY <1>18, <2>1, NoJobIdle DEF EstimateSaved, Filed, TypeOK, By, Stages
  <2>3. job[j] \in EstimateSave
    BY <1>18, <1>a, JobShapes DEF EstimateSaved, At
  <2>4. estimate' \in [Estimates -> EstimateStatuses]
    BY <1>18, <2>3 DEF EstimateSaved, TypeOK, EstimateSave
  <2> QED BY <1>18, <2>1, <2>2, <2>4 DEF EstimateSaved, TypeOK, history, Wrote
<1> QED
  BY <1>1, <1>2, <1>3, <1>4, <1>5, <1>6, <1>7, <1>8, <1>9, <1>10, <1>11, <1>12, <1>13,
     <1>14, <1>15, <1>16, <1>17, <1>18 DEF JobStep

LEMMA TypeStep ==
  ASSUME TypeOK, [Next]_vars
  PROVE  TypeOK'
<1>1. CASE \E j \in Jobs : JobStep(j)
  BY <1>1, JobTypeStep
<1>2. CASE File
  <2>1. PICK a \in Approvals, c \in Calls :
          approval' = [approval EXCEPT ![a] = [status |-> "pending", call |-> c]]
    BY <1>2 DEF File, Gated
  <2>2. [status |-> "pending", call |-> c] \in RequestRow
    BY DEF RequestRow, Decided
  <2>3. approval' \in [Approvals -> RequestRow]
    BY <2>1, <2>2 DEF TypeOK
  <2>4. \A b \in Approvals : approval[b].status # "none" => approval'[b].status # "none"
    BY <2>1 DEF TypeOK
  <2>5. Filed'
    BY <1>2, <2>4 DEF File, TypeOK, Filed, By
  <2> QED BY <1>2, <2>3, <2>5 DEF File, TypeOK, JobsOK, rows, history, Wrote
<1>3. CASE Crash
  <2>1. JobsOK'
    BY <1>3, NoJobIdle DEF Crash, JobsOK
  <2>2. Filed'
    BY <1>3, NoJobIdle DEF Crash, Filed, Stages
  <2>3. torn' \in SUBSET Estimates
    <3>1. ASSUME NEW j \in Jobs, At(j, "mark") PROVE job[j].call.e \in Estimates
      <4>1. job[j] \in Run /\ job[j].call.do = "estimate"
        BY <3>1, JobShapes DEF At, TypeOK, JobsOK, JobOK, Stages
      <4> QED BY <4>1, CallShapes DEF Run
    <3> QED BY <1>3, <3>1 DEF Crash, TypeOK
  <2> QED BY <1>3, <2>1, <2>2, <2>3 DEF Crash, TypeOK, rows
<1>4. CASE UNCHANGED vars
  BY <1>4 DEF vars, TypeOK, JobsOK, Filed, By
<1> QED BY <1>1, <1>2, <1>3, <1>4 DEF Next

-----------------------------------------------------------------------------
(* The inductive invariants *)

Running(j) == job[j].at \in {"run", "make", "mark", "posted"}
Committed(j) == job[j].at \in {"mark", "posted"}

(* A key or a request while its one run is in progress, after the run, and  *)
(* before it.                                                               *)
Held(x) == IF x \in Keys THEN key[x] = "pending" ELSE approval[x].status = "approving"
Ended(x) == IF x \in Keys THEN key[x] = "completed" ELSE approval[x].status = "approved"
Untouched(x) ==
  IF x \in Keys THEN key[x] = "none"
  ELSE approval[x].status \in {"none", "pending", "rejected", "cancelled"}

OnceFor(x) ==
  /\ \A j \in Jobs : Running(j) /\ By(j) = x => Held(x)
  /\ \A i, j \in Jobs : Running(i) /\ Running(j) /\ By(i) = x /\ By(j) = x => i = j
  /\ x \notin late =>
       /\ \A j \in Jobs : Running(j) /\ By(j) = x => effects[x] = IF Committed(j) THEN 1 ELSE 0
       /\ effects[x] <= 1
       /\ Ended(x) => effects[x] = 1
       /\ Untouched(x) => effects[x] = 0

(* What may not be served together is not.                                  *)
Exclusive ==
  \A i, j \in Jobs : i # j /\ ~Idle(i) /\ ~Idle(j) =>
    {job[i].kind, job[j].kind} \subseteq Overlapping

(* A dismissal that nothing can overtake still finds its request pending.   *)
DismissesAlone == "dismiss" \notin Overlapping
Undismissed == \A j \in Jobs : At(j, "dismiss") => approval[By(j)].status = "pending"

(* A save nothing can overtake writes what it read.                         *)
SavesAlone == {"estimate", "saveEstimate", "saveOrder"} \cap Overlapping = {}
SavesFresh ==
  \A j \in Jobs :
    /\ At(j, "saveOrder") =>
         /\ order[job[j].o].status # "invoiced" /\ job[j].row.status # "invoiced"
         /\ job[j].row.from \in {order[job[j].o].from, "none"}
    /\ At(j, "saveEstimate") => estimate[job[j].e] # "converted" /\ job[j].status # "converted"
    /\ At(j, "make") => estimate[job[j].call.e] # "converted"

(* An order is billed once it is invoiced; an estimate has one document     *)
(* when it is converted or about to be marked, and none before.             *)
OrdersBilled == \A o \in Orders : billed[o] = IF order[o].status = "invoiced" THEN 1 ELSE 0
Through(e) == {o \in Orders : order[o].from = e}
Marking(e) == \E j \in Jobs : At(j, "mark") /\ job[j].call.e = e
EstimatesBilled ==
  \A e \in Estimates \ torn :
    /\ estimate[e] = "converted" \/ Marking(e) \/ (billed[e] = 0 /\ Through(e) = {})
    /\ \/ billed[e] = 1 /\ Through(e) = {}
       \/ billed[e] = 0 /\ \A o, p \in Through(e) : o = p

-----------------------------------------------------------------------------
(* One run at a time for a key or a request                                 *)

(* A step of a job that is not running for anybody.                         *)
LEMMA OnceElsewhere ==
  ASSUME NEW x \in Senders, OnceFor(x), NEW j \in Jobs, ~Running(j), ~Running(j)',
         \A i \in Jobs : i # j => job'[i] = job[i],
         UNCHANGED <<key, approval, effects, late>>
  PROVE  OnceFor(x)'
<1>1. \A i \in Jobs : Running(i)' => Running(i) /\ By(i)' = By(i) /\ (Committed(i)' <=> Committed(i))
  BY DEF Running, Committed, By
<1>2. (Held(x)' <=> Held(x)) /\ (Ended(x)' <=> Ended(x)) /\ (Untouched(x)' <=> Untouched(x))
  BY DEF Held, Ended, Untouched
<1> QED BY <1>1, <1>2 DEF OnceFor

(* A step of a running job, which makes its document or not.                *)
LEMMA OnceMoved ==
  ASSUME TypeOK, NEW x \in Senders, OnceFor(x), NEW j \in Jobs, Running(j), Running(j)',
         By(j)' = By(j), By(j) \in Senders,
         \A i \in Jobs : i # j => job'[i] = job[i],
         UNCHANGED <<key, approval, late>>,
         \/ (Committed(j)' <=> Committed(j)) /\ effects' = effects
         \/ ~Committed(j) /\ Committed(j)' /\ Made(j)
  PROVE  OnceFor(x)'
<1>1. \A i \in Jobs : /\ Running(i)' <=> Running(i)
                      /\ Running(i) => By(i)' = By(i)
                      /\ i # j => (Committed(i)' <=> Committed(i))
  BY DEF Running, Committed, By
<1>2. (Held(x)' <=> Held(x)) /\ (Ended(x)' <=> Ended(x)) /\ (Untouched(x)' <=> Untouched(x))
  BY DEF Held, Ended, Untouched
<1>3. CASE By(j) = x
  <2>1. Held(x) /\ ~Ended(x) /\ ~Untouched(x)
    BY <1>3 DEF OnceFor, Held, Ended, Untouched
  <2>2. x \notin late => effects'[x] = IF Committed(j)' THEN 1 ELSE 0
    <3>1. x \notin late => effects[x] = IF Committed(j) THEN 1 ELSE 0
      BY <1>3 DEF OnceFor
    <3>2. CASE (Committed(j)' <=> Committed(j)) /\ effects' = effects
      BY <3>1, <3>2
    <3>3. CASE ~Committed(j) /\ Committed(j)' /\ Made(j)
      <4>1. effects'[x] = effects[x] + 1
        BY <3>3, <1>3 DEF Made, TypeOK
      <4> QED BY <3>1, <3>3, <4>1
    <3> QED BY <3>2, <3>3
  <2> QED BY <1>1, <1>2, <1>3, <2>1, <2>2 DEF OnceFor
<1>4. CASE By(j) # x
  <2>1. effects'[x] = effects[x]
    BY <1>4 DEF Made, TypeOK
  <2> QED BY <1>1, <1>2, <1>4, <2>1 DEF OnceFor
<1> QED BY <1>3, <1>4

(* A job that reserves its key or claims its request.                       *)
LEMMA OnceTaken ==
  ASSUME NEW x \in Senders, OnceFor(x), NEW j \in Jobs, ~Running(j),
         Running(j)', ~Committed(j)', By(j)' = By(j),
         \A i \in Jobs : i # j => job'[i] = job[i],
         UNCHANGED <<effects, late>>,
         By(j) = x => Untouched(x) /\ Held(x)',
         By(j) # x => /\ Held(x)' <=> Held(x)
                      /\ Ended(x)' <=> Ended(x)
                      /\ Untouched(x)' <=> Untouched(x)
  PROVE  OnceFor(x)'
<1>1. \A i \in Jobs : i # j => /\ Running(i)' <=> Running(i)
                               /\ By(i)' = By(i)
                               /\ Committed(i)' <=> Committed(i)
  BY DEF Running, Committed, By
<1>2. CASE By(j) = x
  <2>1. \A i \in Jobs : ~(Running(i) /\ By(i) = x)
    BY <1>2 DEF OnceFor, Held, Untouched
  <2>2. x \notin late => effects[x] = 0
    BY <1>2 DEF OnceFor
  <2>3. ~Ended(x)' /\ ~Untouched(x)'
    BY <1>2 DEF Held, Ended, Untouched
  <2> QED BY <1>1, <1>2, <2>1, <2>2, <2>3 DEF OnceFor
<1>3. CASE By(j) # x
  BY <1>1, <1>3 DEF OnceFor
<1> QED BY <1>2, <1>3

(* A running job that ends, well or not.                                    *)
LEMMA OnceEnded ==
  ASSUME NEW x \in Senders, OnceFor(x), NEW j \in Jobs, Running(j), ~Running(j)',
         \A i \in Jobs : i # j => job'[i] = job[i],
         effects' = effects, late \subseteq late',
         By(j) = x => /\ ~Held(x)'
                      /\ Ended(x)' => Committed(j)
                      /\ Untouched(x)' => ~Committed(j) \/ x \in late',
         By(j) # x => /\ Held(x)' <=> Held(x)
                      /\ Ended(x)' <=> Ended(x)
                      /\ Untouched(x)' <=> Untouched(x)
  PROVE  OnceFor(x)'
<1>1. \A i \in Jobs : i # j => /\ Running(i)' <=> Running(i)
                               /\ By(i)' = By(i)
                               /\ Committed(i)' <=> Committed(i)
  BY DEF Running, Committed, By
<1>2. CASE By(j) = x
  <2>1. \A i \in Jobs : ~(Running(i)' /\ By(i)' = x)
    BY <1>1, <1>2 DEF OnceFor
  <2>2. x \notin late => effects[x] = IF Committed(j) THEN 1 ELSE 0
    BY <1>2 DEF OnceFor
  <2> QED BY <1>2, <2>1, <2>2 DEF OnceFor
<1>3. CASE By(j) # x
  BY <1>1, <1>3 DEF OnceFor
<1> QED BY <1>2, <1>3

(* Every step, for a key, and for a request no dismissal is stale of.       *)
LEMMA OnceStep ==
  ASSUME TypeOK, NEW x \in Senders, OnceFor(x), x \in Keys \/ Undismissed, [Next]_vars
  PROVE  OnceFor(x)'
<1> USE SalesAssumption
<1>a. /\ JobsOK
      /\ \A j \in Jobs : job[j] \in Job /\ JobOK(job[j])
  BY DEF TypeOK, JobsOK
<1>b. ASSUME NEW j \in Jobs, job[j].at \in Stages PROVE By(j) \in Senders
  BY <1>a, <1>b, JobShapes DEF Run, By
<1>s. ASSUME NEW j \in Jobs, NEW kind, NEW new, new.at \notin {"run", "make", "mark", "posted"},
             Start(j, kind, new), UNCHANGED <<key, approval, effects, late>>
      PROVE  OnceFor(x)'
  <2>1. /\ job[j].at = "idle" /\ job'[j] = new
        /\ \A i \in Jobs : i # j => job'[i] = job[i]
    BY <1>a, <1>s DEF Start, Idle, JobsOK
  <2>2. ~Running(j) /\ ~Running(j)'
    BY <1>s, <2>1 DEF Running
  <2> QED BY <1>s, <2>1, <2>2, OnceElsewhere
<1>e. ASSUME NEW j \in Jobs, ~Running(j), End(j), UNCHANGED <<key, approval, effects, late>>
      PROVE  OnceFor(x)'
  BY <1>a, <1>e, RunEnded, NoJobIdle, OnceElsewhere DEF Running
<1>m. ASSUME NEW j \in Jobs, Running(j), NEW stage \in {"run", "make", "mark", "posted"},
             stage \in {"make", "mark"} => job[j].call.do = "estimate",
             Move(j, stage), UNCHANGED <<key, approval, late>>,
             \/ (stage \in {"mark", "posted"} <=> Committed(j)) /\ effects' = effects
             \/ ~Committed(j) /\ stage \in {"mark", "posted"} /\ Made(j)
      PROVE  OnceFor(x)'
  <2>1. job[j].at \in Stages
    BY <1>m DEF Running, Stages
  <2>2. /\ \A i \in Jobs : i # j => job'[i] = job[i]
        /\ job'[j].at = stage /\ job'[j].by = job[j].by
    BY <1>a, <1>m, <2>1, RunMoved
  <2>3. Running(j)' /\ By(j)' = By(j) /\ (Committed(j)' <=> stage \in {"mark", "posted"})
    BY <2>2 DEF Running, By, Committed
  <2> QED BY <1>b, <1>m, <2>1, <2>2, <2>3, OnceMoved
<1>j. ASSUME NEW j \in Jobs, JobStep(j) PROVE OnceFor(x)'
  <2>1. CASE Send(j)
    <3>1. PICK k \in Keys, c \in Calls :
            Start(j, KindOf(c), [at |-> "reserve", kind |-> KindOf(c), by |-> k, call |-> c])
      BY <2>1 DEF Send
    <3> QED BY <2>1, <3>1, <1>s DEF Send, history
  <2>2. CASE Reserve(j)
    <3>1. By(j) \in Keys /\ ~Running(j) /\ job[j].at \in Stages
      BY <2>2, <1>a DEF Reserve, At, JobOK, By, Running, Stages
    <3>2. CASE MayReserve(By(j))
      <4>1. Move(j, "run") /\ key' = [key EXCEPT ![By(j)] = "pending"]
        BY <2>2, <3>2 DEF Reserve
      <4>2. /\ \A i \in Jobs : i # j => job'[i] = job[i]
            /\ Running(j)' /\ ~Committed(j)' /\ By(j)' = By(j)
        BY <3>1, <4>1, <1>a, RunMoved DEF Running, Committed, By
      <4>3. /\ By(j) = x => Untouched(x) /\ Held(x)'
            /\ By(j) # x => /\ Held(x)' <=> Held(x)
                            /\ Ended(x)' <=> Ended(x)
                            /\ Untouched(x)' <=> Untouched(x)
        BY <2>2, <3>1, <3>2, <4>1
           DEF Reserve, MayReserve, Held, Ended, Untouched, TypeOK
      <4> QED BY <2>2, <3>1, <4>2, <4>3, OnceTaken DEF Reserve, history
    <3>3. CASE ~MayReserve(By(j))
      BY <2>2, <3>1, <3>3, <1>e DEF Reserve, history
    <3> QED BY <3>2, <3>3
  <2>3. CASE Decide(j)
    <3>1. PICK a \in Approvals : Start(j, KindOf(approval[a].call),
             [at |-> "claim", kind |-> KindOf(approval[a].call), by |-> a, call |-> approval[a].call])
      BY <2>3 DEF Decide
    <3> QED BY <2>3, <3>1, <1>s DEF Decide, history
  <2>4. CASE Claim(j)
    <3>1. By(j) \in Approvals /\ ~Running(j) /\ job[j].at \in Stages
      BY <2>4, <1>a DEF Claim, At, JobOK, By, Running, Stages
    <3>2. CASE MayClaim(By(j))
      <4>1. Move(j, "run") /\ approval' = [approval EXCEPT ![By(j)].status = "approving"]
        BY <2>4, <3>2 DEF Claim
      <4>2. /\ \A i \in Jobs : i # j => job'[i] = job[i]
            /\ Running(j)' /\ ~Committed(j)' /\ By(j)' = By(j)
        BY <3>1, <4>1, <1>a, RunMoved DEF Running, Committed, By
      <4>3. approval[By(j)] \in [status : Decided, call : Calls]
        BY <3>1, <3>2 DEF MayClaim, TypeOK, RequestRow
      <4>4. \A a \in Approvals : approval'[a].status = IF a = By(j) THEN "approving" ELSE approval[a].status
        BY <3>1, <4>1, <4>3 DEF TypeOK
      <4>5. /\ By(j) = x => Untouched(x) /\ Held(x)'
            /\ By(j) # x => /\ Held(x)' <=> Held(x)
                            /\ Ended(x)' <=> Ended(x)
                            /\ Untouched(x)' <=> Untouched(x)
        BY <2>4, <3>1, <3>2, <4>4
           DEF Claim, MayClaim, Held, Ended, Untouched, Senders
      <4> QED BY <2>4, <3>1, <4>2, <4>5, OnceTaken DEF Claim, history
    <3>3. CASE ~MayClaim(By(j))
      BY <2>4, <3>1, <3>3, <1>e DEF Claim, history
    <3> QED BY <3>2, <3>3
  <2>5. CASE Dismiss(j)
    <3>1. PICK a \in Approvals, status \in {"rejected", "cancelled"} :
            Start(j, "dismiss", [at |-> "dismiss", kind |-> "dismiss", by |-> a, status |-> status])
      BY <2>5 DEF Dismiss
    <3> QED BY <2>5, <3>1, <1>s DEF Dismiss, history
  <2>6. CASE Dismissed(j)
    <3>1. job[j] \in Dismissal /\ ~Running(j)
      BY <2>6, <1>a, JobShapes DEF Dismissed, At, Running
    <3>2. By(j) \in Approvals /\ job[j].status \in {"rejected", "cancelled"}
      BY <3>1 DEF Dismissal, By
    <3>3. job'[j] = NoJob /\ \A i \in Jobs : i # j => job'[i] = job[i]
      BY <2>6, <1>a, RunEnded DEF Dismissed
    <3>4. CASE x = By(j)
      <4>1. approval[x].status = "pending" /\ x \notin Keys
        BY <2>6, <3>2, <3>4 DEF Dismissed, Undismissed
      <4>2. \A i \in Jobs : ~(Running(i) /\ By(i) = x)
        BY <4>1 DEF OnceFor, Held
      <4>3. x \notin late => effects[x] = 0
        BY <4>1 DEF OnceFor, Untouched
      <4>4. approval[x] \in [status : Decided, call : Calls]
        BY <3>2, <3>4, <4>1 DEF TypeOK, RequestRow
      <4>5. approval'[x].status \in {"rejected", "cancelled"}
        BY <2>6, <3>2, <3>4, <4>4 DEF Dismissed, TypeOK
      <4>6. \A i \in Jobs : ~(Running(i)' /\ By(i)' = x)
        BY <3>1, <3>3, <4>2, NoJobIdle DEF Running, By
      <4> QED BY <2>6, <4>1, <4>3, <4>5, <4>6 DEF OnceFor, Dismissed, Ended, Untouched, history
    <3>5. CASE x # By(j)
      <4>1. x \in Approvals => approval'[x] = approval[x]
        BY <2>6, <3>5 DEF Dismissed, TypeOK
      <4>2. (Held(x)' <=> Held(x)) /\ (Ended(x)' <=> Ended(x)) /\ (Untouched(x)' <=> Untouched(x))
        BY <2>6, <4>1 DEF Dismissed, Held, Ended, Untouched, Senders
      <4>3. \A i \in Jobs : Running(i)' => Running(i) /\ By(i)' = By(i) /\ (Committed(i)' <=> Committed(i))
        BY <3>3, NoJobIdle DEF Running, By, Committed
      <4> QED BY <2>6, <4>2, <4>3 DEF OnceFor, Dismissed, history
    <3> QED BY <3>4, <3>5
  <2>7. CASE CreateInvoice(j)
    BY <2>7, <1>m DEF CreateInvoice, At, Running, Committed
  <2>8. CASE CreateOrder(j)
    BY <2>8, <1>m DEF CreateOrder, At, Running, Committed
  <2>9. CASE ConvertOrder(j)
    BY <2>9, <1>m DEF ConvertOrder, At, Running, Committed
  <2>10. CASE ReadEstimate(j)
    BY <2>10, <1>m DEF ReadEstimate, At, Running, Committed, history
  <2>11. CASE MakeOfEstimate(j)
    BY <2>11, <1>a, <1>m DEF MakeOfEstimate, At, Running, Committed, JobOK
  <2>12. CASE Mark(j)
    BY <2>12, <1>m DEF Mark, At, Running, Committed, history
  <2>13. CASE Finish(j)
    <3>1. Running(j) /\ Committed(j) /\ By(j) \in Senders
      BY <2>13, <1>b DEF Finish, At, Running, Committed, Stages
    <3>2. job'[j] = NoJob /\ \A i \in Jobs : i # j => job'[i] = job[i]
      BY <2>13, <1>a, RunEnded DEF Finish
    <3>3. /\ By(j) = x => ~Held(x)' /\ ~Untouched(x)'
          /\ By(j) # x => /\ Held(x)' <=> Held(x)
                          /\ Ended(x)' <=> Ended(x)
                          /\ Untouched(x)' <=> Untouched(x)
      <4>1. CASE By(j) \in Keys
        BY <2>13, <4>1 DEF Finish, Held, Ended, Untouched, TypeOK
      <4>2. CASE By(j) \in Approvals
        <5>1. approval[By(j)].status # "none"
          BY <3>1, <4>2 DEF TypeOK, Filed, Running, Stages
        <5>2. approval[By(j)] \in [status : Decided, call : Calls]
          BY <4>2, <5>1 DEF TypeOK, RequestRow
        <5>3. \A a \in Approvals :
                approval'[a].status = IF a = By(j) THEN "approved" ELSE approval[a].status
          BY <2>13, <4>2, <5>2 DEF Finish, TypeOK
        <5>4. key' = key
          BY <2>13, <4>2 DEF Finish
        <5> QED BY <4>2, <5>3, <5>4 DEF Held, Ended, Untouched, Senders
      <4> QED BY <3>1, <4>1, <4>2 DEF Senders
    <3> QED BY <2>13, <3>1, <3>2, <3>3, NoJobIdle, OnceEnded DEF Finish, Running, history
  <2>14. CASE Fail(j)
    <3>1. Running(j) /\ By(j) \in Senders
      BY <2>14, <1>b DEF Fail, Running, Stages
    <3>2. job'[j] = NoJob /\ \A i \in Jobs : i # j => job'[i] = job[i]
      BY <2>14, <1>a, RunEnded DEF Fail
    <3>3. late \subseteq late' /\ (~Committed(j) \/ By(j) \in late')
      BY <2>14 DEF Fail, Committed
    <3>4. /\ By(j) = x => ~Held(x)' /\ ~Ended(x)'
          /\ By(j) # x => /\ Held(x)' <=> Held(x)
                          /\ Ended(x)' <=> Ended(x)
                          /\ Untouched(x)' <=> Untouched(x)
      <4>1. CASE By(j) \in Keys
        BY <2>14, <4>1 DEF Fail, Held, Ended, Untouched, TypeOK
      <4>2. CASE By(j) \in Approvals
        <5>1. approval[By(j)].status # "none"
          BY <3>1, <4>2 DEF TypeOK, Filed, Running, Stages
        <5>2. approval[By(j)] \in [status : Decided, call : Calls]
          BY <4>2, <5>1 DEF TypeOK, RequestRow
        <5>3. \A a \in Approvals :
                approval'[a].status = IF a = By(j) THEN "pending" ELSE approval[a].status
          BY <2>14, <4>2, <5>2 DEF Fail, TypeOK
        <5>4. key' = key
          BY <2>14, <4>2 DEF Fail
        <5> QED BY <4>2, <5>3, <5>4 DEF Held, Ended, Untouched, Senders
      <4> QED BY <3>1, <4>1, <4>2 DEF Senders
    <3> QED BY <2>14, <3>1, <3>2, <3>3, <3>4, NoJobIdle, OnceEnded DEF Fail, Running
  <2>15. CASE SaveOrder(j)
    <3>1. PICK kind, new : Start(j, kind, new) /\ new.at = "saveOrder"
      BY <2>15 DEF SaveOrder
    <3> QED BY <2>15, <3>1, <1>s DEF SaveOrder, history
  <2>16. CASE OrderSaved(j)
    BY <2>16, <1>e DEF OrderSaved, At, Running, history
  <2>17. CASE SaveEstimate(j)
    <3>1. PICK e \in Estimates, status \in {"sent", "accepted", "declined", "gone"} :
            Start(j, "saveEstimate", [at |-> "saveEstimate", kind |-> "saveEstimate", e |-> e,
                                      status |-> status])
      BY <2>17 DEF SaveEstimate
    <3> QED BY <2>17, <3>1, <1>s DEF SaveEstimate, history
  <2>18. CASE EstimateSaved(j)
    BY <2>18, <1>e DEF EstimateSaved, At, Running, history
  <2> QED
    BY <1>j, <2>1, <2>2, <2>3, <2>4, <2>5, <2>6, <2>7, <2>8, <2>9, <2>10, <2>11, <2>12,
       <2>13, <2>14, <2>15, <2>16, <2>17, <2>18 DEF JobStep
<1>1. CASE File
  <2>1. PICK a \in Approvals, c \in Calls :
          /\ approval[a].status = "none"
          /\ approval' = [approval EXCEPT ![a] = [status |-> "pending", call |-> c]]
    BY <1>1 DEF File, Gated
  <2>2. (Held(x)' <=> Held(x)) /\ (Ended(x)' <=> Ended(x)) /\ (Untouched(x)' <=> Untouched(x))
    BY <1>1, <2>1 DEF File, Held, Ended, Untouched, TypeOK, Senders
  <2> QED BY <1>1, <2>2 DEF File, OnceFor, Running, Committed, By, history
<1>2. CASE Crash
  <2>1. \A j \in Jobs : ~Running(j)'
    BY <1>2, NoJobIdle DEF Crash, Running
  <2> QED BY <1>2, <2>1 DEF Crash, OnceFor, Held, Ended, Untouched
<1>3. CASE UNCHANGED vars
  BY <1>3 DEF vars, OnceFor, Running, Committed, By, Held, Ended, Untouched
<1> QED BY <1>j, <1>1, <1>2, <1>3 DEF Next

-----------------------------------------------------------------------------
(* What may not be served together                                          *)

(* A step of a job leaves the others; a job starts only beside jobs it may  *)
(* be served with.                                                          *)
Framed(j) ==
  /\ \A i \in Jobs : i # j => job'[i] = job[i]
  /\ \/ job[j].at # "idle" /\ (job'[j].at = "idle" \/ job'[j].kind = job[j].kind)
     \/ /\ job[j].at = "idle"
        /\ \A i \in Jobs : job[i].at # "idle" => {job'[j].kind, job[i].kind} \subseteq Overlapping

LEMMA JobFrame ==
  ASSUME TypeOK, NEW j \in Jobs, JobStep(j)
  PROVE  Framed(j)
<1>a. JobsOK /\ job[j] \in Job /\ JobOK(job[j])
  BY DEF TypeOK, JobsOK
<1>s. ASSUME NEW kind, NEW new, new.kind = kind, Start(j, kind, new) PROVE Framed(j)
  BY <1>a, <1>s DEF Start, Idle, JobsOK, Framed
<1>e. ASSUME job[j].at # "idle", End(j) PROVE Framed(j)
  BY <1>a, <1>e, RunEnded, NoJobIdle DEF Framed
<1>m. ASSUME NEW stage \in {"run", "make", "mark", "posted"}, job[j].at \in Stages,
             stage \in {"make", "mark"} => job[j].call.do = "estimate", Move(j, stage)
      PROVE  Framed(j)
  BY <1>a, <1>m, RunMoved DEF Stages, Framed
<1>1. CASE Send(j)
  <2>1. PICK k \in Keys, c \in Calls :
          Start(j, KindOf(c), [at |-> "reserve", kind |-> KindOf(c), by |-> k, call |-> c])
    BY <1>1 DEF Send
  <2> QED BY <2>1, <1>s
<1>2. CASE Reserve(j) \/ Claim(j)
  BY <1>2, <1>e, <1>m DEF Reserve, Claim, At, Stages
<1>3. CASE Decide(j)
  <2>1. PICK a \in Approvals : Start(j, KindOf(approval[a].call),
           [at |-> "claim", kind |-> KindOf(approval[a].call), by |-> a, call |-> approval[a].call])
    BY <1>3 DEF Decide
  <2> QED BY <2>1, <1>s
<1>4. CASE Dismiss(j)
  <2>1. PICK a \in Approvals, status \in {"rejected", "cancelled"} :
          Start(j, "dismiss", [at |-> "dismiss", kind |-> "dismiss", by |-> a, status |-> status])
    BY <1>4 DEF Dismiss
  <2> QED BY <2>1, <1>s
<1>5. CASE CreateInvoice(j) \/ CreateOrder(j) \/ ConvertOrder(j) \/ ReadEstimate(j)
  BY <1>5, <1>m DEF CreateInvoice, CreateOrder, ConvertOrder, ReadEstimate, At, Stages
<1>6. CASE MakeOfEstimate(j) \/ Mark(j)
  BY <1>6, <1>a, <1>m DEF MakeOfEstimate, Mark, At, Stages, JobOK
<1>7. CASE Dismissed(j) \/ Finish(j) \/ Fail(j) \/ OrderSaved(j) \/ EstimateSaved(j)
  BY <1>7, <1>e DEF Dismissed, Finish, Fail, OrderSaved, EstimateSaved, At
<1>8. CASE SaveOrder(j)
  <2>1. PICK new : Start(j, "saveOrder", new) /\ new.kind = "saveOrder"
    BY <1>8 DEF SaveOrder
  <2> QED BY <2>1, <1>s
<1>9. CASE SaveEstimate(j)
  <2>1. PICK e \in Estimates, status \in {"sent", "accepted", "declined", "gone"} :
          Start(j, "saveEstimate", [at |-> "saveEstimate", kind |-> "saveEstimate", e |-> e,
                                    status |-> status])
    BY <1>9 DEF SaveEstimate
  <2> QED BY <2>1, <1>s
<1> QED
  BY <1>1, <1>2, <1>3, <1>4, <1>5, <1>6, <1>7, <1>8, <1>9 DEF JobStep

(* The stages only one action leads to.                                     *)
Reached(j) ==
  \/ job'[j].at \in {"idle", "reserve", "claim", "run", "posted"}
  \/ job'[j].at = "dismiss" /\ Dismiss(j)
  \/ job'[j].at = "make" /\ ReadEstimate(j)
  \/ job'[j].at = "mark" /\ MakeOfEstimate(j)
  \/ job'[j].at = "saveOrder" /\ SaveOrder(j)
  \/ job'[j].at = "saveEstimate" /\ SaveEstimate(j)

LEMMA StageReached ==
  ASSUME TypeOK, NEW j \in Jobs, JobStep(j)
  PROVE  Reached(j)
<1>a. JobsOK /\ job[j] \in Job /\ JobOK(job[j])
  BY DEF TypeOK, JobsOK
<1>s. ASSUME NEW kind, NEW new, Start(j, kind, new) PROVE job'[j] = new
  BY <1>a, <1>s DEF Start, JobsOK
<1>e. ASSUME End(j) PROVE job'[j].at = "idle"
  BY <1>a, <1>e, RunEnded, NoJobIdle
<1>m. ASSUME NEW stage \in {"run", "make", "mark", "posted"}, job[j].at \in Stages,
             stage \in {"make", "mark"} => job[j].call.do = "estimate", Move(j, stage)
      PROVE  job'[j].at = stage
  BY <1>a, <1>m, RunMoved
<1>1. CASE Send(j)
  <2>1. PICK k \in Keys, c \in Calls :
          Start(j, KindOf(c), [at |-> "reserve", kind |-> KindOf(c), by |-> k, call |-> c])
    BY <1>1 DEF Send
  <2> QED BY <2>1, <1>s DEF Reached
<1>2. CASE Reserve(j) \/ Claim(j)
  BY <1>2, <1>e, <1>m DEF Reserve, Claim, At, Stages, Reached
<1>3. CASE Decide(j)
  <2>1. PICK a \in Approvals : Start(j, KindOf(approval[a].call),
           [at |-> "claim", kind |-> KindOf(approval[a].call), by |-> a, call |-> approval[a].call])
    BY <1>3 DEF Decide
  <2> QED BY <2>1, <1>s DEF Reached
<1>4. CASE Dismiss(j)
  <2>1. PICK a \in Approvals, status \in {"rejected", "cancelled"} :
          Start(j, "dismiss", [at |-> "dismiss", kind |-> "dismiss", by |-> a, status |-> status])
    BY <1>4 DEF Dismiss
  <2> QED BY <1>4, <2>1, <1>s DEF Reached
<1>5. CASE CreateInvoice(j) \/ CreateOrder(j) \/ ConvertOrder(j)
  BY <1>5, <1>m DEF CreateInvoice, CreateOrder, ConvertOrder, At, Stages, Reached
<1>6. CASE ReadEstimate(j)
  <2>1. job'[j].at = "make"
    BY <1>6, <1>m DEF ReadEstimate, At, Stages
  <2> QED BY <1>6, <2>1 DEF Reached
<1>7. CASE MakeOfEstimate(j)
  <2>1. job'[j].at = "mark"
    BY <1>7, <1>a, <1>m DEF MakeOfEstimate, At, Stages, JobOK
  <2> QED BY <1>7, <2>1 DEF Reached
<1>8. CASE Mark(j)
  <2>1. job'[j].at = "posted"
    BY <1>8, <1>m DEF Mark, At, Stages
  <2> QED BY <2>1 DEF Reached
<1>9. CASE Dismissed(j) \/ Finish(j) \/ Fail(j) \/ OrderSaved(j) \/ EstimateSaved(j)
  BY <1>9, <1>e DEF Dismissed, Finish, Fail, OrderSaved, EstimateSaved, Reached
<1>10. CASE SaveOrder(j)
  <2>1. PICK kind, new : Start(j, kind, new) /\ new.at = "saveOrder"
    BY <1>10 DEF SaveOrder
  <2> QED BY <1>10, <2>1, <1>s DEF Reached
<1>11. CASE SaveEstimate(j)
  <2>1. PICK e \in Estimates, status \in {"sent", "accepted", "declined", "gone"} :
          Start(j, "saveEstimate", [at |-> "saveEstimate", kind |-> "saveEstimate", e |-> e,
                                    status |-> status])
    BY <1>11 DEF SaveEstimate
  <2> QED BY <1>11, <2>1, <1>s DEF Reached
<1> QED
  BY <1>1, <1>2, <1>3, <1>4, <1>5, <1>6, <1>7, <1>8, <1>9, <1>10, <1>11 DEF JobStep

LEMMA ExclusiveStep ==
  ASSUME TypeOK, Exclusive, [Next]_vars
  PROVE  Exclusive'
<1>1. ASSUME NEW j \in Jobs, JobStep(j) PROVE Exclusive'
  BY <1>1, JobFrame DEF Exclusive, Idle, Framed
<1>2. CASE File \/ UNCHANGED vars
  BY <1>2 DEF File, vars, Exclusive, Idle
<1>3. CASE Crash
  BY <1>3, NoJobIdle DEF Crash, Exclusive, Idle
<1> QED BY <1>1, <1>2, <1>3 DEF Next

(* While a job whose kind may not overlap is there, no other job moves.     *)
LEMMA AloneMoves ==
  ASSUME TypeOK, Exclusive, NEW i \in Jobs, job[i].at # "idle", job[i].kind \notin Overlapping,
         NEW j \in Jobs, JobStep(j)
  PROVE  i = j
  BY JobFrame DEF Exclusive, Idle, Framed

LEMMA UndismissedStep ==
  ASSUME DismissesAlone, TypeOK, Exclusive, Undismissed, [Next]_vars
  PROVE  Undismissed'
<1>a. JobsOK /\ \A j \in Jobs : job[j] \in Job /\ JobOK(job[j])
  BY DEF TypeOK, JobsOK
<1>1. ASSUME NEW j \in Jobs, JobStep(j), NEW i \in Jobs, At(i, "dismiss")'
      PROVE  approval'[By(i)'].status = "pending"
  <2>1. CASE At(i, "dismiss")
    <3>1. job[i] \in Dismissal
      BY <2>1, <1>a, JobShapes DEF At
    <3>2. job[i].kind \notin Overlapping /\ job[i].at # "idle"
      BY <3>1 DEF Dismissal, DismissesAlone
    <3>3. i = j
      BY <3>2, <1>1, AloneMoves
    <3>4. Dismissed(j)
      BY <1>1, <2>1, <3>3 DEF JobStep, At, Send, Reserve, Decide, Claim, Dismiss, CreateInvoice,
         CreateOrder, ConvertOrder, ReadEstimate, MakeOfEstimate, Mark, Finish, Fail, SaveOrder,
         OrderSaved, SaveEstimate, EstimateSaved, Start, Idle
    <3>5. job'[i].at = "idle"
      BY <3>3, <3>4, <1>a, RunEnded, NoJobIdle DEF Dismissed
    <3> QED BY <1>1, <3>5 DEF At
  <2>2. CASE ~At(i, "dismiss")
    <3>1. i = j
      BY <1>1, <2>2, JobFrame DEF At, Framed
    <3>2. CASE Dismiss(j)
      <4>1. PICK a \in Approvals, status \in {"rejected", "cancelled"} :
              /\ approval[a].status = "pending"
              /\ Start(j, "dismiss", [at |-> "dismiss", kind |-> "dismiss", by |-> a, status |-> status])
        BY <3>2 DEF Dismiss
      <4>2. By(j)' = a
        BY <4>1, <1>a DEF Start, By, JobsOK
      <4> QED BY <3>1, <3>2, <4>1, <4>2 DEF Dismiss
    <3>3. CASE ~Dismiss(j)
      <4>1. job'[j].at # "dismiss"
        BY <1>1, <3>3, StageReached DEF Reached
      <4> QED BY <1>1, <3>1, <4>1 DEF At
    <3> QED BY <3>2, <3>3
  <2> QED BY <2>1, <2>2
<1>2. CASE File
  <2>1. PICK a \in Approvals, c \in Calls :
          /\ approval[a].status = "none"
          /\ approval' = [approval EXCEPT ![a] = [status |-> "pending", call |-> c]]
    BY <1>2 DEF File, Gated
  <2>2. \A b \in Approvals : approval'[b].status = IF b = a THEN "pending" ELSE approval[b].status
    BY <2>1 DEF TypeOK
  <2>3. ASSUME NEW j \in Jobs, At(j, "dismiss") PROVE By(j) \in Approvals
    BY <2>3, <1>a, JobShapes DEF At, Dismissal, By
  <2> QED BY <1>2, <2>2, <2>3 DEF File, Undismissed, At, By
<1>3. CASE Crash
  BY <1>3, NoJobIdle DEF Crash, Undismissed, At
<1>4. CASE UNCHANGED vars
  BY <1>4 DEF vars, Undismissed, At, By
<1> QED BY <1>1, <1>2, <1>3, <1>4 DEF Next, Undismissed
-----------------------------------------------------------------------------
(* Saves that overtake nothing, and what is billed                          *)

(* A stage whose kind may not overlap is left by its own job only.          *)
LEMMA SavesWait ==
  ASSUME SavesAlone, TypeOK, Exclusive, NEW i \in Jobs,
         job[i].at \in {"saveOrder", "saveEstimate", "make", "mark"},
         NEW j \in Jobs, JobStep(j)
  PROVE  i = j
<1>1. job[i] \in Job /\ JobOK(job[i])
  BY DEF TypeOK, JobsOK
<1>2. job[i].kind \in {"estimate", "saveEstimate", "saveOrder"}
  BY <1>1, JobShapes DEF JobOK, Stages, OrderSave, EstimateSave, KindOf
<1> QED BY <1>2, AloneMoves DEF SavesAlone

LEMMA SavesFreshStep ==
  ASSUME SavesAlone, TypeOK, Exclusive, SavesFresh, [Next]_vars
  PROVE  SavesFresh'
<1>a. JobsOK
  BY DEF TypeOK
<1>1. ASSUME NEW j \in Jobs, JobStep(j) PROVE SavesFresh'
  <2>1. ASSUME NEW i \in Jobs, job'[i].at \in {"saveOrder", "saveEstimate", "make"}
        PROVE  i = j
    <3>1. CASE i # j
      <4>1. job'[i] = job[i]
        BY <1>1, <3>1, JobFrame DEF Framed
      <4> QED BY <1>1, <2>1, <4>1, SavesWait
    <3> QED BY <3>1
  <2>2. CASE job'[j].at = "saveOrder"
    <3>1. SaveOrder(j)
      BY <1>1, <2>2, StageReached DEF Reached
    <3>a. PICK o \in Orders : \E row :
            /\ Start(j, "saveOrder", [at |-> "saveOrder", kind |-> "saveOrder", o |-> o, row |-> row])
            /\ order[o].status # "invoiced" /\ row.status # "invoiced"
            /\ row.from \in {order[o].from, "none"}
      <4>1. PICK o \in Orders, shipped \in 0..Ordered,
                 status \in {"shipped", "edited", "cancelled", "gone"} :
              LET row == order[o]
                  new == CASE status = "shipped" ->
                                [row EXCEPT !.shipped = shipped, !.status = ShipStatus(shipped)]
                           [] status = "edited" -> row
                           [] status = "cancelled" -> [row EXCEPT !.status = status]
                           [] OTHER -> [NoOrder EXCEPT !.status = status]
              IN /\ row.status # "invoiced"
                 /\ Start(j, "saveOrder", [at |-> "saveOrder", kind |-> "saveOrder", o |-> o,
                                            row |-> new])
        BY <3>1, ZenonT(40) DEF SaveOrder
      <4> DEFINE row == order[o]
                 new == CASE status = "shipped" ->
                               [row EXCEPT !.shipped = shipped, !.status = ShipStatus(shipped)]
                          [] status = "edited" -> row
                          [] status = "cancelled" -> [row EXCEPT !.status = status]
                          [] OTHER -> [NoOrder EXCEPT !.status = status]
      <4>2. row \in OrderRow /\ row.status # "invoiced"
        BY <4>1 DEF TypeOK
      <4>3. new.status # "invoiced" /\ new.from \in {row.from, "none"}
        <5> HIDE DEF row
        <5>1. /\ [row EXCEPT !.shipped = shipped, !.status = ShipStatus(shipped)].status # "invoiced"
              /\ [row EXCEPT !.shipped = shipped, !.status = ShipStatus(shipped)].from = row.from
          BY <4>2 DEF OrderRow, ShipStatus
        <5>2. /\ [row EXCEPT !.status = "cancelled"].status = "cancelled"
              /\ [row EXCEPT !.status = "cancelled"].from = row.from
          BY <4>2 DEF OrderRow
        <5>3. /\ [NoOrder EXCEPT !.status = "gone"].status = "gone"
              /\ [NoOrder EXCEPT !.status = "gone"].from = "none"
          BY DEF NoOrder
        <5> QED BY <4>2, <5>1, <5>2, <5>3
      <4> QED BY <4>1, <4>2, <4>3
    <3>2. PICK row :
            /\ Start(j, "saveOrder", [at |-> "saveOrder", kind |-> "saveOrder", o |-> o, row |-> row])
            /\ order[o].status # "invoiced" /\ row.status # "invoiced"
            /\ row.from \in {order[o].from, "none"}
      BY <3>a
    <3>3. job'[j].o = o /\ job'[j].row = row
      BY <1>a, <3>2 DEF Start, JobsOK
    <3>4. order' = order
      BY <3>1 DEF SaveOrder, rows
    <3> QED BY <2>1, <2>2, <3>2, <3>3, <3>4 DEF SavesFresh, At
  <2>3. CASE job'[j].at = "saveEstimate"
    <3>1. SaveEstimate(j)
      BY <1>1, <2>3, StageReached DEF Reached
    <3>2. PICK e \in Estimates, status \in {"sent", "accepted", "declined", "gone"} :
            /\ estimate[e] # "converted"
            /\ Start(j, "saveEstimate", [at |-> "saveEstimate", kind |-> "saveEstimate", e |-> e,
                                         status |-> status])
      BY <3>1 DEF SaveEstimate
    <3>3. job'[j].e = e /\ job'[j].status = status
      BY <1>a, <3>2 DEF Start, JobsOK
    <3>4. estimate' = estimate
      BY <3>1 DEF SaveEstimate, rows
    <3> QED BY <2>1, <2>3, <3>2, <3>3, <3>4 DEF SavesFresh, At
  <2>4. CASE job'[j].at = "make"
    <3>1. ReadEstimate(j)
      BY <1>1, <2>4, StageReached DEF Reached
    <3>2. job'[j].call = job[j].call
      BY <1>a, <3>1, RunMoved DEF ReadEstimate, At, Stages
    <3> QED BY <2>1, <2>4, <3>1, <3>2 DEF ReadEstimate, Convertible, rows, SavesFresh, At
  <2>5. CASE job'[j].at \notin {"saveOrder", "saveEstimate", "make"}
    BY <2>1, <2>5 DEF SavesFresh, At
  <2> QED BY <2>2, <2>3, <2>4, <2>5
<1>2. CASE File
  BY <1>2 DEF File, rows, SavesFresh, At
<1>3. CASE Crash
  BY <1>3, NoJobIdle DEF Crash, SavesFresh, At
<1>4. CASE UNCHANGED vars
  BY <1>4 DEF vars, SavesFresh, At
<1> QED BY <1>1, <1>2, <1>3, <1>4 DEF Next

(* A step that makes nothing of an estimate: its invoices stay, no order    *)
(* comes to stand for it, and its mark is there, in progress or lost.       *)
LEMMA EstimatesKept ==
  ASSUME EstimatesBilled,
         \A e \in Estimates : /\ Through(e)' \subseteq Through(e) /\ billed'[e] = billed[e]
                              /\ estimate[e] = "converted" => estimate'[e] = "converted"
                              /\ Marking(e) => Marking(e)' \/ estimate'[e] = "converted" \/ e \in torn',
         torn \subseteq torn'
  PROVE  EstimatesBilled'
<1> SUFFICES ASSUME NEW e \in Estimates, e \notin torn'
             PROVE  /\ estimate'[e] = "converted" \/ Marking(e)' \/ (billed'[e] = 0 /\ Through(e)' = {})
                    /\ \/ billed'[e] = 1 /\ Through(e)' = {}
                       \/ billed'[e] = 0 /\ \A o, p \in Through(e)' : o = p
  BY Zenon DEF EstimatesBilled
<1> DEFINE now == Through(e)
           next == Through(e)'
<1>1. next \subseteq now /\ billed'[e] = billed[e]
  OBVIOUS
<1>2. /\ estimate[e] = "converted" \/ Marking(e) \/ (billed[e] = 0 /\ now = {})
      /\ \/ billed[e] = 1 /\ now = {}
         \/ billed[e] = 0 /\ \A o, p \in now : o = p
  BY DEF EstimatesBilled
<1> HIDE DEF now, next
<1>3. /\ \/ billed'[e] = 1 /\ next = {}
         \/ billed'[e] = 0 /\ \A o, p \in next : o = p
      /\ billed[e] = 0 /\ now = {} => billed'[e] = 0 /\ next = {}
  BY <1>1, <1>2
<1>4. estimate'[e] = "converted" \/ Marking(e)' \/ (billed'[e] = 0 /\ next = {})
  BY <1>2, <1>3
<1> QED BY <1>3, <1>4 DEF next

(* Only the runs that make documents of estimates come and go as markers.   *)
LEMMA MarkersStay ==
  ASSUME TypeOK, NEW j \in Jobs, JobStep(j), ~At(j, "mark"), ~MakeOfEstimate(j), NEW e
  PROVE  Marking(e)' <=> Marking(e)
<1>1. \A i \in Jobs : i # j => job'[i] = job[i]
  BY JobFrame DEF Framed
<1>2. job'[j].at # "mark"
  BY StageReached DEF Reached
<1> QED BY <1>1, <1>2 DEF Marking, At

LEMMA BilledStep ==
  ASSUME SavesAlone, TypeOK, Exclusive, SavesFresh, OrdersBilled, EstimatesBilled, [Next]_vars
  PROVE  OrdersBilled' /\ EstimatesBilled'
<1> USE SalesAssumption
<1>a. JobsOK
  BY DEF TypeOK
<1>t. order \in [Orders -> OrderRow] /\ billed \in [Orders \cup Estimates -> Nat]
  BY DEF TypeOK
<1>f. ASSUME \A o \in Orders : order'[o].from \in {order[o].from, "none"},
             NEW e \in Estimates
      PROVE  Through(e)' \subseteq Through(e)
  BY <1>f DEF Through
<1>1. ASSUME NEW j \in Jobs, JobStep(j) PROVE OrdersBilled' /\ EstimatesBilled'
  <2>s. ASSUME UNCHANGED <<rows, billed>>, torn \subseteq torn',
               \A e \in Estimates : Marking(e) => Marking(e)' \/ e \in torn'
        PROVE  OrdersBilled' /\ EstimatesBilled'
    BY <2>s, EstimatesKept DEF rows, OrdersBilled, Through
  <2>m. ~At(j, "mark") /\ ~MakeOfEstimate(j) => \A e \in Estimates : Marking(e)' <=> Marking(e)
    BY <1>1, MarkersStay
  <2>1. CASE Send(j) \/ Reserve(j) \/ Decide(j) \/ Claim(j) \/ Dismiss(j) \/ Dismissed(j)
             \/ CreateInvoice(j) \/ ReadEstimate(j) \/ Finish(j) \/ SaveOrder(j) \/ SaveEstimate(j)
    <3>1. UNCHANGED <<rows, billed, torn>> /\ ~At(j, "mark") /\ ~At(j, "make")
      BY <2>1 DEF Send, Reserve, Decide, Claim, Dismiss, Dismissed, CreateInvoice, ReadEstimate,
         Finish, SaveOrder, SaveEstimate, At, Start, Idle, history, rows
    <3> QED BY <3>1, <2>s, <2>m DEF MakeOfEstimate
  <2>2. CASE CreateOrder(j)
    <3>1. PICK o \in Free : order' = [order EXCEPT ![o] = [NoOrder EXCEPT !.status = "open"]]
      BY <2>2 DEF CreateOrder
    <3>2. \A p \in Orders : order'[p] = IF p = o THEN [NoOrder EXCEPT !.status = "open"] ELSE order[p]
      BY <3>1, <1>t
    <3>3. /\ [NoOrder EXCEPT !.status = "open"].from = "none"
          /\ [NoOrder EXCEPT !.status = "open"].status = "open"
      BY DEF NoOrder
    <3>4. UNCHANGED <<estimate, billed, torn>> /\ ~At(j, "mark") /\ ~MakeOfEstimate(j)
      BY <2>2 DEF CreateOrder, MakeOfEstimate, At
    <3>5. OrdersBilled'
      BY <3>2, <3>3, <3>4 DEF OrdersBilled, Free
    <3>6. \A e \in Estimates : Through(e)' \subseteq Through(e)
      BY <3>2, <3>3, <1>f
    <3> QED BY <3>4, <3>5, <3>6, <2>m, EstimatesKept
  <2>3. CASE ConvertOrder(j)
    <3> DEFINE o == job[j].call.o
    <3>1. /\ order[o].status # "invoiced"
          /\ order' = [order EXCEPT ![o].status = "invoiced"]
          /\ billed' = [billed EXCEPT ![o] = @ + 1]
      BY <2>3 DEF ConvertOrder, MayConvert, Billed
    <3>2. o \in Orders
      <4>1. job[j] \in Run /\ job[j].call.do = "convert"
        BY <2>3, <1>a, JobShapes DEF ConvertOrder, At, Stages, JobsOK
      <4> QED BY <4>1, CallShapes DEF Run
    <3> HIDE DEF o
    <3>3. UNCHANGED <<estimate, torn>> /\ ~At(j, "mark") /\ ~MakeOfEstimate(j)
      BY <2>3 DEF ConvertOrder, MakeOfEstimate, At
    <3>4. \A p \in Orders : /\ order'[p].from = order[p].from
                            /\ order'[p].status = IF p = o THEN "invoiced" ELSE order[p].status
                            /\ billed'[p] = IF p = o THEN billed[p] + 1 ELSE billed[p]
      BY <3>1, <3>2, <1>t DEF OrderRow
    <3>5. \A e \in Estimates : billed'[e] = billed[e]
      BY <3>1, <3>2, <1>t
    <3>6. OrdersBilled'
      BY <3>1, <3>2, <3>4 DEF OrdersBilled
    <3>7. \A e \in Estimates : Through(e)' \subseteq Through(e)
      BY <3>4, <1>f
    <3> QED BY <3>3, <3>5, <3>6, <3>7, <2>m, EstimatesKept
  <2>4. CASE MakeOfEstimate(j)
    <3>1. /\ At(j, "make")
          /\ UNCHANGED <<estimate, torn>>
      BY <2>4 DEF MakeOfEstimate
    <3>2. job[j] \in Run /\ job[j].call.do = "estimate"
      BY <3>1, <1>a, JobShapes DEF At, JobsOK, JobOK, Stages
    <3>3. PICK e \in Estimates : e = job[j].call.e
      BY <3>2, CallShapes DEF Run
    <3>13. \/ billed' = [billed EXCEPT ![e] = @ + 1] /\ order' = order
           \/ /\ \E o \in Free :
                   order' = [order EXCEPT ![o] = [NoOrder EXCEPT !.status = "open", !.from = e]]
              /\ billed' = billed
      BY <2>4, <3>3 DEF MakeOfEstimate, Billed
    <3>4. \A i \in Jobs : i # j => job'[i] = job[i]
      BY <1>1, JobFrame DEF Framed
    <3>5. \A i \in Jobs : ~At(i, "mark")
      <4>1. ASSUME NEW i \in Jobs, At(i, "mark") PROVE i = j
        BY <4>1, <1>1, SavesWait DEF At
      <4> QED BY <4>1, <3>1 DEF At
    <3>6. At(j, "mark")' /\ job'[j].call = job[j].call
      BY <2>4, <1>a, <3>1, <3>2, RunMoved DEF MakeOfEstimate, At, Stages
    <3>7. /\ \A x \in Estimates : ~Marking(x)
          /\ Marking(e)'
      BY <3>3, <3>5, <3>6 DEF Marking
    <3>8. estimate[e] # "converted"
      BY <3>1, <3>3 DEF SavesFresh
    <3>9. e \notin torn => billed[e] = 0 /\ Through(e) = {}
      BY <3>3, <3>7, <3>8 DEF EstimatesBilled
    <3>10. \A x \in Estimates \ torn : x # e =>
             /\ estimate[x] = "converted" \/ (billed[x] = 0 /\ Through(x) = {})
             /\ \/ billed[x] = 1 /\ Through(x) = {}
                \/ billed[x] = 0 /\ \A o, p \in Through(x) : o = p
      BY <3>7 DEF EstimatesBilled
    <3>11. CASE billed' = [billed EXCEPT ![e] = @ + 1] /\ order' = order
      <4>1. \A x \in Estimates : Through(x)' = Through(x)
        BY <3>11 DEF Through
      <4>2. /\ \A o \in Orders : billed'[o] = billed[o]
            /\ \A x \in Estimates : billed'[x] = IF x = e THEN billed[e] + 1 ELSE billed[x]
        BY <3>11, <3>3, <1>t
      <4>3. OrdersBilled'
        BY <3>11, <4>2 DEF OrdersBilled
      <4>4. ASSUME NEW x \in Estimates \ torn
            PROVE  /\ estimate'[x] = "converted" \/ Marking(x)' \/ (billed'[x] = 0 /\ Through(x)' = {})
                   /\ \/ billed'[x] = 1 /\ Through(x)' = {}
                      \/ billed'[x] = 0 /\ \A o, p \in Through(x)' : o = p
        <5>1. CASE x = e
          <6>1. Through(x)' = {} /\ billed'[x] = 1 /\ Marking(x)'
            BY <5>1, <3>3, <3>7, <3>9, <4>1, <4>2
          <6> QED BY <6>1
        <5>2. CASE x # e
          <6>1. Through(x)' = Through(x) /\ billed'[x] = billed[x] /\ estimate'[x] = estimate[x]
            BY <5>2, <3>1, <4>1, <4>2
          <6> QED BY <5>2, <3>10, <6>1
        <5> QED BY <5>1, <5>2
      <4> QED BY <3>1, <4>3, <4>4 DEF EstimatesBilled
    <3>12. CASE /\ \E o \in Free :
                     order' = [order EXCEPT ![o] = [NoOrder EXCEPT !.status = "open", !.from = e]]
                /\ billed' = billed
      <4>1. PICK o \in Free :
              order' = [order EXCEPT ![o] = [NoOrder EXCEPT !.status = "open", !.from = e]]
        BY <3>12
      <4> DEFINE new == [NoOrder EXCEPT !.status = "open", !.from = e]
      <4>2. new.status = "open" /\ new.from = e
        BY DEF NoOrder
      <4> HIDE DEF new
      <4>3. o \in Orders /\ order[o].status = "none"
        BY DEF Free
      <4>4. \A p \in Orders : order'[p] = IF p = o THEN new ELSE order[p]
        BY <4>1, <1>t DEF new
      <4>5. OrdersBilled'
        BY <3>12, <4>2, <4>3, <4>4 DEF OrdersBilled
      <4>6. \A x \in Estimates : x # e => Through(x)' \subseteq Through(x)
        BY <4>2, <4>4 DEF Through
      <4>7. Through(e) = {} => \A p, q \in Through(e)' : p = q
        <5>1. ASSUME Through(e) = {}, NEW p \in Through(e)' PROVE p = o
          <6>1. p \in Orders /\ order'[p].from = e
            BY <5>1 DEF Through
          <6>2. order[p].from # e
            BY <5>1, <6>1 DEF Through
          <6> QED BY <4>4, <6>1, <6>2
        <5> QED BY <5>1
      <4>8. ASSUME NEW x \in Estimates \ torn
            PROVE  /\ estimate'[x] = "converted" \/ Marking(x)' \/ (billed'[x] = 0 /\ Through(x)' = {})
                   /\ \/ billed'[x] = 1 /\ Through(x)' = {}
                      \/ billed'[x] = 0 /\ \A p, q \in Through(x)' : p = q
        <5>1. CASE x = e
          <6>1. billed'[x] = 0 /\ Marking(x)' /\ \A p, q \in Through(x)' : p = q
            BY <5>1, <3>7, <3>9, <3>12, <4>7
          <6> QED BY <6>1
        <5>2. CASE x # e
          BY <5>2, <3>1, <3>10, <3>12, <4>6
        <5> QED BY <5>1, <5>2
      <4> QED BY <3>1, <4>5, <4>8 DEF EstimatesBilled
    <3> QED BY <3>13, <3>11, <3>12
  <2>5. CASE Mark(j)
    <3> DEFINE e == job[j].call.e
    <3>1. /\ UNCHANGED <<order, billed, torn>>
          /\ estimate' = [estimate EXCEPT ![e] = "converted"]
      BY <2>5 DEF Mark, MarkConverted, history
    <3>2. \A i \in Jobs : i # j => job'[i] = job[i]
      BY <1>1, JobFrame DEF Framed
    <3> HIDE DEF e
    <3>3. \A x \in Estimates : /\ estimate[x] = "converted" => estimate'[x] = "converted"
                               /\ Marking(x) => Marking(x)' \/ estimate'[x] = "converted"
      BY <3>1, <3>2 DEF Marking, At, TypeOK, e
    <3>4. OrdersBilled' /\ \A x \in Estimates : Through(x)' \subseteq Through(x)
      BY <3>1 DEF OrdersBilled, Through
    <3> QED BY <3>1, <3>3, <3>4, EstimatesKept
  <2>6. CASE Fail(j)
    <3>1. \A i \in Jobs : i # j => job'[i] = job[i]
      BY <1>1, JobFrame DEF Framed
    <3>2. \A x \in Estimates : Marking(x) => Marking(x)' \/ x \in torn'
      BY <2>6, <3>1 DEF Fail, Marking, At
    <3>3. UNCHANGED <<rows, billed>> /\ torn \subseteq torn'
      BY <2>6 DEF Fail
    <3> QED BY <2>s, <3>2, <3>3
  <2>7. CASE OrderSaved(j)
    <3> DEFINE o == job[j].o
    <3>1. job[j] \in OrderSave
      BY <2>7, <1>a, JobShapes DEF OrderSaved, At, JobsOK
    <3>2. /\ o \in Orders /\ order' = [order EXCEPT ![o] = job[j].row]
          /\ order[o].status # "invoiced" /\ job[j].row.status # "invoiced"
          /\ job[j].row.from \in {order[o].from, "none"}
          /\ UNCHANGED <<estimate, billed, torn>> /\ ~At(j, "mark") /\ ~MakeOfEstimate(j)
      BY <2>7, <3>1 DEF OrderSaved, OrderSave, SavesFresh, history, MakeOfEstimate, At
    <3> HIDE DEF o
    <3>3. \A p \in Orders : order'[p] = IF p = o THEN job[j].row ELSE order[p]
      BY <3>2, <1>t
    <3>4. OrdersBilled'
      BY <3>2, <3>3 DEF OrdersBilled
    <3>5. \A e \in Estimates : Through(e)' \subseteq Through(e)
      BY <3>2, <3>3, <1>f
    <3> QED BY <3>2, <3>4, <3>5, <2>m, EstimatesKept
  <2>8. CASE EstimateSaved(j)
    <3> DEFINE e == job[j].e
    <3>1. job[j] \in EstimateSave
      BY <2>8, <1>a, JobShapes DEF EstimateSaved, At, JobsOK
    <3>2. /\ estimate[e] # "converted" /\ estimate' = [estimate EXCEPT ![e] = job[j].status]
          /\ UNCHANGED <<order, billed, torn>> /\ ~At(j, "mark") /\ ~MakeOfEstimate(j)
      BY <2>8 DEF EstimateSaved, SavesFresh, history, MakeOfEstimate, At
    <3> HIDE DEF e
    <3>3. \A x \in Estimates : estimate[x] = "converted" => estimate'[x] = "converted"
      BY <3>2 DEF TypeOK
    <3>4. OrdersBilled' /\ \A x \in Estimates : Through(x)' \subseteq Through(x)
      BY <3>2 DEF OrdersBilled, Through
    <3> QED BY <3>2, <3>3, <3>4, <2>m, EstimatesKept
  <2> QED BY <1>1, <2>1, <2>2, <2>3, <2>4, <2>5, <2>6, <2>7, <2>8 DEF JobStep
<1>2. CASE File \/ UNCHANGED vars
  <2>1. UNCHANGED <<rows, billed, torn, job>>
    BY <1>2 DEF File, vars, rows, history
  <2> QED BY <2>1 DEF rows, OrdersBilled, EstimatesBilled, Through, Marking, At
<1>3. CASE Crash
  <2>1. UNCHANGED <<rows, billed>> /\ torn \subseteq torn'
    BY <1>3 DEF Crash
  <2>2. \A e \in Estimates : Marking(e) => e \in torn'
    BY <1>3 DEF Crash, Marking
  <2> QED BY <2>1, <2>2, EstimatesKept DEF rows, OrdersBilled, Through
<1> QED BY <1>1, <1>2, <1>3 DEF Next

-----------------------------------------------------------------------------
(* The theorems *)

LEMMA InitTypes ==
  ASSUME Init
  PROVE  TypeOK /\ Exclusive /\ \A x \in Senders : OnceFor(x)
<1> USE SalesAssumption
<1>1. \A j \in Jobs : job[j] = NoJob
  BY DEF Init
<1>2. order \in [Orders -> OrderRow]
  <2>1. PICK given \in SUBSET Orders, delivery \in BOOLEAN :
          order = [o \in Orders |-> IF o \in given
                                   THEN [NoOrder EXCEPT !.status = "open", !.delivery = delivery]
                                   ELSE NoOrder]
    BY DEF Init
  <2>2. NoOrder \in OrderRow /\ [NoOrder EXCEPT !.status = "open", !.delivery = delivery] \in OrderRow
    <3>1. 0 \in 0..Ordered
      OBVIOUS
    <3> QED BY <3>1 DEF NoOrder, OrderRow
  <2> QED BY <2>1, <2>2
<1>3. JobsOK /\ Filed
  BY <1>1, NoJobIdle DEF JobsOK, Filed, Init, Stages
<1>4. TypeOK
  BY <1>2, <1>3 DEF Init, TypeOK, EstimateStatuses, KeyStatuses, RequestRow, Senders
<1>5. Exclusive
  BY <1>1, NoJobIdle DEF Exclusive, Idle
<1>6. ASSUME NEW x \in Senders PROVE OnceFor(x)
  <2>1. \A j \in Jobs : ~Running(j)
    BY <1>1, NoJobIdle DEF Running
  <2>2. effects[x] = 0 /\ ~Ended(x)
    BY <1>6 DEF Init, Ended, Senders
  <2> QED BY <2>1, <2>2 DEF OnceFor
<1> QED BY <1>4, <1>5, <1>6

LEMMA InitBilled ==
  ASSUME Init
  PROVE  Undismissed /\ SavesFresh /\ OrdersBilled /\ EstimatesBilled
<1> USE SalesAssumption
<1>1. \A j \in Jobs : job[j].at = "idle"
  BY NoJobIdle DEF Init
<1>2. \A o \in Orders : order[o].status # "invoiced" /\ order[o].from = "none"
  <2>1. PICK given \in SUBSET Orders, delivery \in BOOLEAN :
          order = [o \in Orders |-> IF o \in given
                                   THEN [NoOrder EXCEPT !.status = "open", !.delivery = delivery]
                                   ELSE NoOrder]
    BY DEF Init
  <2> QED BY <2>1 DEF NoOrder
<1>3. OrdersBilled
  BY <1>2 DEF OrdersBilled, Init
<1>4. \A e \in Estimates : billed[e] = 0 /\ Through(e) = {}
  BY <1>2 DEF Through, Init
<1> QED BY <1>1, <1>3, <1>4 DEF Undismissed, SavesFresh, EstimatesBilled, At

(* Every reachable state has the shapes of rows the code reads and writes,  *)
(* and nothing is served together that may not be.                          *)
THEOREM SalesTypes == Spec => [](TypeOK /\ Exclusive)
<1>1. Init => TypeOK /\ Exclusive
  BY InitTypes
<1>2. TypeOK /\ Exclusive /\ [Next]_vars => (TypeOK /\ Exclusive)'
  BY TypeStep, ExclusiveStep
<1> QED BY <1>1, <1>2, PTL DEF Spec

(* A key runs its call once: it is held by one run at a time, it stays held *)
(* if the process dies, and what was made for it is one document when it is *)
(* completed and none when it is free, unless a run failed after its        *)
(* transaction (IdempotencyInterceptor).  Whatever is served together.      *)
THEOREM KeysRunOnce == Spec => []KeyedOnce
<1> DEFINE Inv == TypeOK /\ \A k \in Keys : OnceFor(k)
<1>1. Init => Inv
  BY InitTypes DEF Senders
<1>2. Inv /\ [Next]_vars => Inv'
  <2> SUFFICES ASSUME Inv, [Next]_vars PROVE Inv'
    OBVIOUS
  <2>1. ASSUME NEW k \in Keys PROVE OnceFor(k)'
    BY <2>1, OnceStep DEF Senders
  <2> QED BY <2>1, TypeStep
<1>3. Inv => KeyedOnce
  BY DEF KeyedOnce, OnceFor, Ended, Untouched
<1> QED BY <1>1, <1>2, <1>3, PTL DEF Spec

(* A request does what it asks for once, and only when it is approved, when *)
(* a rejection or cancellation, which saves the request it read, overtakes  *)
(* no approval (ApprovalsService.decide).                                   *)
THEOREM ApprovalsRunOnce == DismissesAlone /\ Spec => []ApprovedOnce
<1> SUFFICES ASSUME DismissesAlone PROVE Spec => []ApprovedOnce
  OBVIOUS
<1> DEFINE Inv == TypeOK /\ Exclusive /\ Undismissed /\ \A x \in Senders : OnceFor(x)
<1>1. Init => Inv
  BY InitTypes, InitBilled
<1>2. Inv /\ [Next]_vars => Inv'
  <2> SUFFICES ASSUME Inv, [Next]_vars PROVE Inv'
    OBVIOUS
  <2>1. ASSUME NEW x \in Senders PROVE OnceFor(x)'
    BY <2>1, OnceStep
  <2> QED BY <2>1, TypeStep, ExclusiveStep, UndismissedStep
<1>3. Inv => ApprovedOnce
  <2> SUFFICES ASSUME Inv, NEW a \in Approvals \ late
               PROVE  /\ effects[a] <= 1
                      /\ approval[a].status = "approved" => effects[a] = 1
                      /\ approval[a].status \in {"none", "pending", "rejected", "cancelled"}
                           => effects[a] = 0
    BY DEF ApprovedOnce
  <2>1. a \in Senders /\ a \notin Keys
    BY SalesAssumption DEF Senders
  <2> QED BY <2>1 DEF OnceFor, Ended, Untouched
<1> QED BY <1>1, <1>2, <1>3, PTL DEF Spec

(* The rows of orders and estimates say what was billed.                    *)
LEMMA BilledIsOnce ==
  ASSUME TypeOK, OrdersBilled, EstimatesBilled
  PROVE  InvoicedOnce
<1> USE SalesAssumption
<1>1. ASSUME NEW e \in Estimates \ torn PROVE billed[e] + Sum(billed, Through(e)) <= 1
  <2>1. CASE Through(e) = {}
    BY <1>1, <2>1, SumEmpty DEF EstimatesBilled
  <2>2. CASE Through(e) # {}
    <3>1. PICK o \in Through(e) : Through(e) = {} \cup {o}
      BY <1>1, <2>2 DEF EstimatesBilled
    <3>2. billed[e] = 0
      BY <1>1, <2>2 DEF EstimatesBilled
    <3>3. billed[o] \in {0, 1}
      BY <3>1 DEF OrdersBilled, Through
    <3>4. IsFiniteSet({}) /\ Sum(billed, {}) = 0
      BY FS_EmptySet, SumEmpty
    <3>5. Sum(billed, {} \cup {o}) = billed[o] + Sum(billed, {})
      <4>1. \A y \in {} \cup {o} : billed[y] \in Int
        BY <3>3
      <4> QED BY <3>4, <4>1, SumAdd, Zenon
    <3>6. Sum(billed, Through(e)) = billed[o]
      BY <3>1, <3>3, <3>4, <3>5
    <3> QED BY <3>2, <3>3, <3>6
  <2> QED BY <2>1, <2>2
<1> QED BY <1>1 DEF InvoicedOnce, OrdersBilled, Through

(* An order is invoiced once, and an estimate too, directly or through its  *)
(* order, whatever is sent again, approved twice, fails or dies; when a     *)
(* conversion of an estimate, and a save of a row read before, overtake     *)
(* nothing (convertToInvoice, convertToSalesOrder).                         *)
THEOREM DocumentsBilledOnce == SavesAlone /\ Spec => []InvoicedOnce
<1> SUFFICES ASSUME SavesAlone PROVE Spec => []InvoicedOnce
  OBVIOUS
<1> DEFINE Inv == TypeOK /\ Exclusive /\ SavesFresh /\ OrdersBilled /\ EstimatesBilled
<1>1. Init => Inv
  BY InitTypes, InitBilled
<1>2. Inv /\ [Next]_vars => Inv'
  BY TypeStep, ExclusiveStep, SavesFreshStep, BilledStep
<1>3. Inv => InvoicedOnce
  BY BilledIsOnce
<1> QED BY <1>1, <1>2, <1>3, PTL DEF Spec
==============================================================================
