----------------------------- MODULE Membership -----------------------------
(***************************************************************************)
(* Users, their memberships of companies, their sessions, and the three    *)
(* ways a password is set: by its owner at sign-up, by the company that    *)
(* manages the account, and through a code sent by mail.                   *)
(*                                                                         *)
(* A request is served at once; a reset through a code and a sign-out,     *)
(* whose statements are no transaction, may stop between them.  An access  *)
(* token and the refresh token that came with it are one element of        *)
(* tokens, with the claims they carry; the guards of a route read the      *)
(* claims, not the membership.  Expiry is never waited for: an expired     *)
(* token or code is refused, which changes nothing.  Every company is      *)
(* active (see Subscription).                                              *)
(***************************************************************************)
EXTENDS Integers, FiniteSets, Sequences

CONSTANTS Users, Companies,
          Passwords,
          MaxStaff,     \* MAX_STAFF_PER_COMPANY
          MaxAttempts,  \* mail.otpMaxAttempts
          MaxTokens, MaxCodes, MaxChanges  \* bounds: pairs issued, codes sent, requests served

None == "none"

ASSUME MembershipAssumption ==
  /\ IsFiniteSet(Users) /\ None \notin Companies \cup Passwords
  /\ MaxStaff \in Nat /\ MaxAttempts \in Nat
  /\ MaxTokens \in Nat /\ MaxCodes \in Nat /\ MaxChanges \in Nat

VARIABLES user,    \* rows of users
          member,  \* company -> user -> role of the membership
          kept,    \* managed credential: the password the company reads back
          link,    \* the verification link last mailed to a user
          tokens, codes,  \* rows in the order they were written
          offBy,   \* history: the company that deactivated a user last
          out,     \* history: users who left every session and did not sign in since
          halted,  \* history: users whose reset died before it forgot the credential
          changes

membershipVars == <<user, member, kept, link, tokens, codes, offBy, out, halted, changes>>

NoUser == [role |-> None, mail |-> FALSE, password |-> None, active |-> FALSE,
           verified |-> FALSE, home |-> None]
Code(u) == [user |-> u, used |-> FALSE, verified |-> FALSE, attempts |-> 0]

(* The owners of some companies have registered, verified, founded, and     *)
(* signed out.                                                              *)
MembershipInit ==
  /\ \E owner \in Users, k \in Companies, p \in Passwords :
       /\ user = [u \in Users |-> IF u = owner
                    THEN [role |-> "admin", mail |-> TRUE, password |-> p, active |-> TRUE,
                          verified |-> TRUE, home |-> k]
                    ELSE NoUser]
       /\ member = [c \in Companies |-> [u \in Users |->
                      IF c = k /\ u = owner THEN "admin" ELSE None]]
  /\ kept = [u \in Users |-> None] /\ link = [u \in Users |-> None]
  /\ tokens = <<>> /\ codes = <<>>
  /\ offBy = [u \in Users |-> None] /\ out = Users /\ halted = {}
  /\ changes = 0

-----------------------------------------------------------------------------
Registered(u) == user[u] # NoUser
Founded(k) == \E u \in Users : member[k][u] = "admin"
Admins(k) == {u \in Users : member[k][u] = "admin" /\ user[u].active}
ActiveStaff(k) == {u \in Users : member[k][u] = "staff" /\ user[u].active}

(* What the guards of a route admit: a token not denied, of an active user. *)
Admitted(i) == i \in DOMAIN tokens /\ ~tokens[i].denied /\ user[tokens[i].user].active
Confirmed(u) == user[u].role = "admin" /\ user[u].mail => user[u].verified
CallerOf(i) == tokens[i].user
OwnerCalls(i) == Admitted(i) /\ Confirmed(CallerOf(i)) /\ tokens[i].role = "admin" /\ tokens[i].company # None

NotLastOnPaper(k, u) == \E v \in Users \ {u} : member[k][v] = "admin"

StaffSlotFree(k) == Cardinality(ActiveStaff(k)) < MaxStaff
NotLastAdmin(k, u) == Admins(k) \ {u} # {}
Managed(k, u) == member[k][u] \in {"admin", "staff"}

(* The membership a session is opened for: the user's own company, or any.  *)
HomesOf(u) ==
  LET mine == {k \in Companies : member[k][u] # None}
  IN  IF user[u].home \in mine THEN {user[u].home} ELSE IF mine = {} THEN {None} ELSE mine

RoleAt(u, k) == IF k = None THEN user[u].role ELSE member[k][u]

Pair(u, k, role) == [user |-> u, company |-> k, role |-> role, live |-> TRUE, denied |-> FALSE]
Revoked(u, toks) == [i \in DOMAIN toks |-> IF toks[i].user = u THEN [toks[i] EXCEPT !.live = FALSE] ELSE toks[i]]

Served == changes < MaxChanges /\ changes' = changes + 1
IssueTokens(u, k, role) == Len(tokens) < MaxTokens /\ tokens' = Append(tokens, Pair(u, k, role))

-----------------------------------------------------------------------------
(* Registering: an owner confirms an address and founds a company, a rider  *)
(* joins the company whose code he was given.                               *)
SignUp(u, role, k, p) ==
  /\ Served /\ ~Registered(u)
  /\ role \in {"admin", "delivery"} /\ (role = "admin") = (k = None)
  /\ k # None => Founded(k)
  /\ user' = [user EXCEPT ![u] = [role |-> role, mail |-> TRUE, password |-> p, active |-> TRUE,
                                  verified |-> role # "admin", home |-> k]]
  /\ member' = [c \in Companies |-> IF c = k THEN [member[c] EXCEPT ![u] = "delivery"] ELSE member[c]]
  /\ link' = IF role = "admin" THEN [link EXCEPT ![u] = "sent"] ELSE link
  /\ IssueTokens(u, k, role) /\ out' = out \ {u}
  /\ UNCHANGED <<kept, codes, offBy, halted>>

VerifyEmail(u) ==
  /\ Served /\ link[u] = "sent"
  /\ user' = [user EXCEPT ![u].verified = TRUE]
  /\ link' = [link EXCEPT ![u] = "used"]
  /\ UNCHANGED <<member, kept, tokens, codes, offBy, out, halted>>

Found(i, k) ==
  /\ Served /\ Admitted(i) /\ Confirmed(CallerOf(i)) /\ ~Founded(k)
  /\ \A u \in Users : member[k][u] = None /\ user[u].home # k
  /\ member' = [member EXCEPT ![k][CallerOf(i)] = "admin"]
  /\ user' = [user EXCEPT ![CallerOf(i)].home = IF @ = None THEN k ELSE @]
  /\ UNCHANGED <<kept, link, tokens, codes, offBy, out, halted>>

Join(i, k) ==
  /\ Served /\ Admitted(i) /\ Confirmed(CallerOf(i)) /\ Founded(k)
  /\ member[k][CallerOf(i)] = None
  /\ member' = [member EXCEPT ![k][CallerOf(i)] = "delivery"]
  /\ user' = [user EXCEPT ![CallerOf(i)].home = IF @ = None THEN k ELSE @]
  /\ UNCHANGED <<kept, link, tokens, codes, offBy, out, halted>>

-----------------------------------------------------------------------------
(* Managing a company's people.  The company keeps the password of every    *)
(* account it creates or resets.                                            *)
StoreCredential(u, p) == kept' = [kept EXCEPT ![u] = p]

CreateUser(i, u, role, mail, p) ==
  /\ Served /\ OwnerCalls(i) /\ ~Registered(u)
  /\ role = "staff" => StaffSlotFree(tokens[i].company)
  /\ user' = [user EXCEPT ![u] = [role |-> role, mail |-> mail, password |-> p, active |-> TRUE,
                                  verified |-> TRUE, home |-> tokens[i].company]]
  /\ member' = [member EXCEPT ![tokens[i].company][u] = role]
  /\ StoreCredential(u, p)
  /\ UNCHANGED <<link, tokens, codes, offBy, out, halted>>

ChangeRole(i, u, role) ==
  LET k == tokens[i].company IN
  /\ Served /\ OwnerCalls(i) /\ Managed(k, u) /\ member[k][u] # role
  /\ member[k][u] = "admin" => NotLastAdmin(k, u)
  /\ role = "staff" => StaffSlotFree(k)
  /\ member' = [member EXCEPT ![k][u] = role]
  /\ UNCHANGED <<user, kept, link, tokens, codes, offBy, out, halted>>

Deactivate(i, u) ==
  LET k == tokens[i].company IN
  /\ Served /\ OwnerCalls(i) /\ Managed(k, u) /\ u # CallerOf(i)
  /\ member[k][u] = "admin" => NotLastAdmin(k, u)
  /\ user' = [user EXCEPT ![u].active = FALSE]
  /\ offBy' = [offBy EXCEPT ![u] = k]
  /\ UNCHANGED <<member, kept, link, tokens, codes, out, halted>>

Activate(i, u) ==
  /\ Served /\ OwnerCalls(i) /\ Managed(tokens[i].company, u)
  /\ user' = [user EXCEPT ![u].active = TRUE]
  /\ UNCHANGED <<member, kept, link, tokens, codes, offBy, out, halted>>

RemoveMember(i, k, u) ==
  /\ Served /\ Admitted(i) /\ Confirmed(CallerOf(i)) /\ member[k][CallerOf(i)] = "admin"
  /\ u # CallerOf(i) /\ member[k][u] # None
  /\ member' = [member EXCEPT ![k][u] = None]
  /\ UNCHANGED <<user, kept, link, tokens, codes, offBy, out, halted>>

(* The owner resets an owner, a staff member or a rider.                    *)
ResetByOwner(i, u, p) ==
  /\ Served /\ OwnerCalls(i) /\ member[tokens[i].company][u] # None
  /\ user' = [user EXCEPT ![u].password = p]
  /\ StoreCredential(u, p) /\ halted' = halted \ {u}
  /\ UNCHANGED <<member, link, tokens, codes, offBy, out>>

-----------------------------------------------------------------------------
SignIn(u) ==
  /\ Served /\ user[u].active
  /\ \E k \in HomesOf(u) :
       /\ IssueTokens(u, k, RoleAt(u, k))
       /\ user' = [user EXCEPT ![u].home = IF k = None THEN @ ELSE k]
  /\ out' = out \ {u}
  /\ UNCHANGED <<member, kept, link, codes, offBy, halted>>

(* A refresh spends its token.  It keeps the claims, unless they name no    *)
(* company and the user has one by now.                                     *)
RefreshableStill(i) == i \in DOMAIN tokens
Refreshable(i) == i \in DOMAIN tokens /\ tokens[i].live

Refresh(i) ==
  LET u == CallerOf(i) IN
  /\ Served /\ Refreshable(i) /\ Len(tokens) < MaxTokens
  /\ \E k \in IF tokens[i].company # None THEN {tokens[i].company} ELSE HomesOf(u) :
       /\ tokens' = Append([tokens EXCEPT ![i].live = FALSE],
                           Pair(u, k, IF k = tokens[i].company THEN tokens[i].role ELSE member[k][u]))
       /\ user' = [user EXCEPT ![u].home = IF tokens[i].company # None \/ k = None THEN @ ELSE k]
  /\ UNCHANGED <<member, kept, link, codes, offBy, out, halted>>

(* It answers success though it fails after the access token is denied.     *)
SignOut(i, whole) ==
  /\ Served /\ i \in DOMAIN tokens
  /\ tokens' = [(IF whole THEN Revoked(CallerOf(i), tokens) ELSE tokens) EXCEPT ![i].denied = TRUE]
  /\ out' = IF whole THEN out \cup {CallerOf(i)} ELSE out
  /\ UNCHANGED <<user, member, kept, link, codes, offBy, halted>>

-----------------------------------------------------------------------------
(* The code sent by mail.  Accounts a company manages are refused.          *)
Unused(u) == {n \in DOMAIN codes : codes[n].user = u /\ ~codes[n].used}
Used(u, rows) == [n \in DOMAIN rows |-> IF rows[n].user = u THEN [rows[n] EXCEPT !.used = TRUE] ELSE rows[n]]

ForgotPassword(u) ==
  /\ Served /\ Len(codes) < MaxCodes
  /\ user[u].mail /\ user[u].role \notin {"staff", "delivery", None}
  /\ codes' = Append(Used(u, codes), Code(u))
  /\ UNCHANGED <<user, member, kept, link, tokens, offBy, out, halted>>

VerifyOtp(u, right) ==
  /\ Served
  /\ \E n \in Unused(u) :
       /\ \A m \in Unused(u) : m <= n
       /\ IF codes[n].attempts >= MaxAttempts THEN codes' = [codes EXCEPT ![n].used = TRUE]
          ELSE IF right THEN codes' = [codes EXCEPT ![n].verified = TRUE]
          ELSE codes' = [codes EXCEPT ![n].attempts = @ + 1]
  /\ UNCHANGED <<user, member, kept, link, tokens, offBy, out, halted>>

LeaveCredential(u) == UNCHANGED kept
ForgetCredential(u) == kept' = [kept EXCEPT ![u] = None]

(* Four statements, each committed on its own: the password, the copy of it *)
(* the company keeps, the code, the sessions.  done of them are, when the   *)
(* process dies or answers.                                                 *)
ResetPassword(n, p, done) ==
  LET u == codes[n].user IN
  /\ Served /\ codes[n].verified /\ ~codes[n].used
  /\ user' = [user EXCEPT ![u].password = p]
  /\ IF done = 1 THEN UNCHANGED kept ELSE ForgetCredential(u)
  /\ halted' = IF done = 1 THEN halted \cup {u} ELSE halted \ {u}
  /\ codes' = IF done < 3 THEN codes ELSE [codes EXCEPT ![n].used = TRUE]
  /\ tokens' = IF done < 4 THEN tokens ELSE Revoked(u, tokens)
  /\ out' = IF done < 4 THEN out ELSE out \cup {u}
  /\ UNCHANGED <<member, link, offBy>>

-----------------------------------------------------------------------------
MembershipNext ==
  \/ \E u \in Users, role \in {"admin", "delivery"}, k \in Companies \cup {None}, p \in Passwords :
       SignUp(u, role, k, p)
  \/ \E u \in Users : VerifyEmail(u) \/ SignIn(u) \/ ForgotPassword(u)
  \/ \E i \in DOMAIN tokens, k \in Companies : Found(i, k) \/ Join(i, k)
  \/ \E i \in DOMAIN tokens, u \in Users, role \in {"admin", "staff", "delivery"}, mail \in BOOLEAN,
        p \in Passwords : CreateUser(i, u, role, mail, p)
  \/ \E i \in DOMAIN tokens, u \in Users, role \in {"admin", "staff"} : ChangeRole(i, u, role)
  \/ \E i \in DOMAIN tokens, u \in Users : Deactivate(i, u) \/ Activate(i, u)
  \/ \E i \in DOMAIN tokens, u \in Users, k \in Companies : RemoveMember(i, k, u)
  \/ \E i \in DOMAIN tokens, u \in Users, p \in Passwords : ResetByOwner(i, u, p)
  \/ \E i \in DOMAIN tokens : Refresh(i) \/ \E whole \in BOOLEAN : SignOut(i, whole)
  \/ \E u \in Users, right \in BOOLEAN : VerifyOtp(u, right)
  \/ \E n \in DOMAIN codes, p \in Passwords, done \in 1..4 : ResetPassword(n, p, done)

MembershipSpec == MembershipInit /\ [][MembershipNext]_membershipVars

-----------------------------------------------------------------------------
(* A company that was founded keeps an active owner, whatever its owners    *)
(* do to each other ("a company without one cannot approve requests or      *)
(* manage users"), but for an owner another company deactivated.            *)
OwnerRemains ==
  \A k \in Companies :
    \/ \A u \in Users : member[k][u] = None
    \/ Admins(k) # {}
    \/ \E u \in Users : member[k][u] = "admin" /\ ~user[u].active /\ offBy[u] # k

(* The password a company reads back for one of its accounts is the one     *)
(* that signs in, through resets by the company and by the holder, tried    *)
(* again after one that died, until one has got past the password.          *)
KeptPasswordOpens == \A u \in Users \ halted : kept[u] \in {None, user[u].password}

(* Leaving every session, by signing out or by a reset through a code, ends *)
(* them: until the next sign-in there is nothing left to refresh.           *)
SignedOutStaysOut == \A i \in DOMAIN tokens : tokens[i].live => CallerOf(i) \notin out
=============================================================================
