-------------------------- MODULE Sessions_proofs --------------------------
(***************************************************************************)
(* Sessions end, what is over stays over, and the tables agree, for any    *)
(* number of operators, sessions and requests, any clock and any policy    *)
(* that NewSessionPolicy accepts.                                          *)
(*                                                                         *)
(* A request is judged by a row it read earlier, and slides the expiry by  *)
(* a time it took earlier.  The invariant says what that copy is still     *)
(* worth: who and since when it says are the row's for good, and any       *)
(* expiry, in the row or in a copy, is Justified by the login and by one   *)
(* accepted request.  A request that began late fails for a reason that    *)
(* does not go away before the check that looks at it (LateCall).          *)
(***************************************************************************)
EXTENDS Sessions, TLAPS

SessionPcs == {"check", "slide", "load user", "handle", "revoke"}

\* Both lifetimes allow this expiry of session s.
Justified(s, created, expires) ==
    /\ expires <= created + Absolute
    /\ \E t \in activity[s] : expires <= t + Idle

\* What the request x knows of the rows.
CallOK(x) ==
    /\ x.pc = "create user" => x.user \in Users
    /\ x.pc = "create session" => /\ x.user \in Users /\ users[x.user] # "absent"
                                  /\ x.id \in Sessions /\ sessions[x.id] = NoSession
    /\ x.pc \in SessionPcs => /\ x.id \in Sessions /\ sessions[x.id].user # Nil
                              /\ x.row.user = sessions[x.id].user
                              /\ x.row.created = sessions[x.id].created
                              /\ Justified(x.id, x.row.created, x.row.expires)
    /\ x.pc = "slide" => x.at \in activity[x.id]

\* Two logins under way have different session ids.
Apart(x, y) == x.pc = "create session" /\ y.pc = "create session" => x.id # y.id

\* The request x began too late, and a check that refuses it is still ahead.
LateCall(x) ==
    /\ x.pc \in {"check", "slide", "load user"}
    /\ users[x.row.user] = "disabled" \/ (x.pc = "check" /\ clock >= x.row.expires)

CallsOK == \A c \in Callers : CallOK(call[c])

CallsApart == \A c, d \in Callers : c # d => Apart(call[c], call[d])

LateOK == \A c \in late : LateCall(call[c])

RowsOK ==
    \A s \in Sessions : sessions[s].user # Nil =>
        /\ users[sessions[s].user] # "absent"
        /\ Justified(s, sessions[s].created, sessions[s].expires)

\* The inductive invariant.
SessionInv == TypeOK /\ RowsOK /\ CallsOK /\ CallsApart /\ LateOK /\ AuditAccounts


----------------------------------------------------------------------------

LEMMA RowsAreRows ==
    /\ NoSession \in Session /\ NoCall \in Call
    /\ NoSession.user = Nil /\ NoSession.revoked = Nil
    /\ NoCall.pc = "idle" /\ NoCall.id = Nil /\ NoCall.row = NoSession
BY SessionPolicyAssumption DEF NoSession, NoCall, Session, Call, Time

\* A request that is not under way knows nothing.
LEMMA NoCallOK == CallOK(NoCall) /\ CallOK(NoCall)' /\ \A x : Apart(NoCall, x) /\ Apart(x, NoCall)
BY RowsAreRows DEF CallOK, Apart, SessionPcs

\* The expiry NextExpiry gives is within both lifetimes.
LEMMA NextExpiryBounds ==
    ASSUME NEW now \in Time, NEW created \in Time
    PROVE  /\ NextExpiry(now, created) \in Nat
           /\ NextExpiry(now, created) <= now + Idle
           /\ NextExpiry(now, created) <= created + Absolute
           /\ NextExpiry(now, created) \in 0 .. MaxClock + Idle
BY SessionPolicyAssumption DEF NextExpiry, Time

LEMMA LateUser ==
    ASSUME SessionInv, NEW x \in Call, CallOK(x), LateCall(x)
    PROVE  x.row.user \in Users
BY DEF LateCall, CallOK, SessionPcs, SessionInv, TypeOK, Session

\* The record of c is replaced, the other requests still know what they knew, and those that
\* are late stay late.
LEMMA CallsFollow ==
    ASSUME SessionInv, NEW c \in Callers, NEW rec \in Call, Go(c, rec), CallOK(rec)',
           \A x \in Call : CallOK(x) /\ Apart(x, call[c]) => CallOK(x)',
           \A d \in Callers \ {c} : Apart(rec, call[d]) /\ Apart(call[d], rec),
           late' \subseteq late \cup {c}, c \in late' => LateCall(rec)',
           clock' = clock, \A u \in Users : users[u] = "disabled" => users'[u] = "disabled"
    PROVE  call' \in [Callers -> Call] /\ CallsOK' /\ CallsApart' /\ LateOK'
<1>0. call \in [Callers -> Call] /\ CallsOK /\ CallsApart /\ LateOK
  BY DEF SessionInv, TypeOK
<1>1. call' \in [Callers -> Call] /\ \A d \in Callers : call'[d] = IF d = c THEN rec ELSE call[d]
  BY <1>0 DEF Go
<1>2. ASSUME NEW d \in Callers PROVE CallOK(call[d])'
  <2>1. CASE d = c
    <3>1. call'[d] = rec
      BY <1>1, <2>1
    <3> QED BY <3>1 DEF CallOK, Justified
  <2>2. CASE d # c
    <3>1. PICK x \in Call : x = call[d]
      BY <1>0
    <3>2. CallOK(x)'
      BY <1>0, <2>2, <3>1 DEF CallsOK, CallsApart
    <3>3. call'[d] = x
      BY <1>1, <2>2, <3>1
    <3> QED BY <3>2, <3>3 DEF CallOK, Justified
  <2> QED BY <2>1, <2>2
<1>3. CallsApart'
  BY <1>0, <1>1 DEF CallsApart
<1>4. ASSUME NEW d \in late' PROVE LateCall(call[d])'
  <2>1. CASE d = c
    <3>1. call'[d] = rec
      BY <1>1, <2>1
    <3> QED BY <3>1, <1>4, <2>1 DEF LateCall
  <2>2. CASE d # c
    <3>1. d \in late /\ d \in Callers
      BY <1>4, <2>2 DEF SessionInv, TypeOK
    <3>2. PICK x \in Call : x = call[d]
      BY <1>0, <3>1
    <3>3. LateCall(x) /\ CallOK(x)
      BY <1>0, <3>1, <3>2 DEF LateOK, CallsOK
    <3>4. x.row.user \in Users
      BY <3>3, LateUser
    <3>5. call'[d] = x
      BY <1>1, <2>2, <3>1, <3>2
    <3> QED BY <3>3, <3>4, <3>5 DEF LateCall
  <2> QED BY <2>1, <2>2
<1> QED BY <1>1, <1>2, <1>3, <1>4 DEF CallsOK, LateOK

BoundsOK == requests \in 0 .. MaxRequests /\ faults \in 0 .. MaxFaults

LEMMA BeginBounds ==
    ASSUME SessionInv, NEW c \in Callers, NEW rec, Begin(c, rec)
    PROVE  BoundsOK' /\ Go(c, rec) /\ clock' = clock /\ c \notin late
<1>1. BoundsOK' /\ Go(c, rec) /\ clock' = clock
  BY SessionPolicyAssumption DEF Begin, SessionInv, TypeOK, BoundsOK
<1>2. c \notin late
  BY DEF Begin, At, SessionInv, LateOK, LateCall
<1> QED BY <1>1, <1>2

\* A step that changes a request and no row.
LEMMA CallGoes ==
    ASSUME SessionInv, NEW c \in Callers, NEW rec \in Call, Go(c, rec), BoundsOK',
           UNCHANGED <<clock, users, lastLogin, sessions, cookies, audit, activity>>,
           organizations' \subseteq {"anchorix"}, CallOK(rec),
           \A d \in Callers \ {c} : Apart(rec, call[d]) /\ Apart(call[d], rec),
           late' \subseteq late \cup {c}, c \in late' => LateCall(rec)
    PROVE  SessionInv'
<1>1. \A x : CallOK(x) => CallOK(x)'
  BY DEF CallOK, Justified
<1>2. c \in late' => LateCall(rec)'
  BY DEF LateCall
<1>3. call' \in [Callers -> Call] /\ CallsOK' /\ CallsApart' /\ LateOK'
  BY <1>1, <1>2, CallsFollow
<1>4. late' \subseteq Callers
  BY DEF SessionInv, TypeOK
<1>5. TypeOK'
  BY <1>3, <1>4 DEF SessionInv, TypeOK, BoundsOK
<1>6. RowsOK'
  BY DEF SessionInv, RowsOK, Justified
<1>7. AuditAccounts'
  BY DEF SessionInv, AuditAccounts
<1> QED BY <1>3, <1>5, <1>6, <1>7 DEF SessionInv

LEMMA CallReturns ==
    ASSUME SessionInv, NEW c \in Callers, Return(c), BoundsOK',
           UNCHANGED <<clock, users, lastLogin, sessions, cookies, audit, activity>>,
           organizations' \subseteq {"anchorix"}, late' \subseteq late, c \notin late'
    PROVE  SessionInv'
BY CallGoes, RowsAreRows, NoCallOK DEF Return

LEMMA AdminStep ==
    ASSUME SessionInv, NEW c \in Callers, NEW u \in Users, cmdAdminCreate(c, u)
    PROVE  SessionInv'
<1> DEFINE rec == [NoCall EXCEPT !.pc = "create user", !.for = "admin", !.user = u]
<1>1. rec \in Call /\ rec.pc = "create user" /\ rec.user = u
  BY RowsAreRows DEF Call
<1>2. Begin(c, rec)
  BY DEF cmdAdminCreate
<1> HIDE DEF rec
<1>3. CallOK(rec) /\ \A y : Apart(rec, y) /\ Apart(y, rec)
  BY <1>1 DEF CallOK, Apart, SessionPcs
<1>4. BoundsOK' /\ Go(c, rec) /\ clock' = clock /\ c \notin late
  BY <1>2, BeginBounds
<1> QED BY <1>1, <1>3, <1>4, CallGoes DEF cmdAdminCreate, EnsureOrganization, historyVars

LEMMA ResolverStep ==
    ASSUME SessionInv, NEW c \in Callers, NEW cookie \in cookies \cup [id : Sessions, mac : {"other"}],
           NEW for \in {"me", "logout"}, SessionResolver(c, cookie, for)
    PROVE  SessionInv'
<1>0. PICK s \in Sessions : s = cookie.id
  BY DEF SessionInv, TypeOK, Cookie
<1>u. UNCHANGED <<organizations, users, lastLogin, sessions, cookies, audit, activity>>
  BY DEF SessionResolver, userVars
<1>o. organizations' \subseteq {"anchorix"}
  BY <1>u DEF SessionInv, TypeOK
<1>1. CASE Begin(c, NoCall) /\ UNCHANGED late
  <2>1. BoundsOK' /\ Return(c) /\ clock' = clock /\ c \notin late
    BY <1>1, BeginBounds DEF Return
  <2> QED BY <1>1, <1>u, <1>o, <2>1, CallReturns
<1>2. CASE ~ (Begin(c, NoCall) /\ UNCHANGED late)
  <2> DEFINE rec == [NoCall EXCEPT !.pc = "check", !.for = for, !.id = cookie.id,
                                   !.row = sessions[cookie.id]]
  <2>1. /\ Begin(c, rec) /\ Get(s) /\ late' = IF IsOver(s) THEN late \cup {c} ELSE late
    BY <1>0, <1>2 DEF SessionResolver
  <2>2. rec \in Call /\ rec.pc = "check" /\ rec.id = s /\ rec.row = sessions[s]
    BY <1>0, RowsAreRows DEF Call, SessionInv, TypeOK
  <2> HIDE DEF rec
  <2>3. CallOK(rec) /\ \A y : Apart(rec, y) /\ Apart(y, rec)
    BY <2>1, <2>2 DEF CallOK, Apart, SessionPcs, Get, SessionInv, RowsOK
  <2>4. BoundsOK' /\ Go(c, rec) /\ clock' = clock /\ c \notin late
    BY <2>1, BeginBounds
  <2>5. c \in late' => LateCall(rec)
    <3>1. c \in late' => IsOver(s)
      BY <2>1, <2>4
    <3>2. sessions[s].user \in Users /\ users[sessions[s].user] # "absent"
      BY <2>1 DEF Get, SessionInv, TypeOK, Session, RowsOK
    <3>3. IsOver(s) => clock >= sessions[s].expires \/ users[sessions[s].user] = "disabled"
      BY <2>1, <3>2 DEF IsOver, Get, SessionInv, TypeOK
    <3> QED BY <2>2, <3>1, <3>3 DEF LateCall
  <2> QED BY <1>u, <1>o, <2>1, <2>2, <2>3, <2>4, <2>5, CallGoes
<1> QED BY <1>1, <1>2

LEMMA UserStep ==
    ASSUME SessionInv, NEW c \in Callers, GetUserByID(c)
    PROVE  SessionInv'
<1> DEFINE x == call[c]
           rec == [x EXCEPT !.pc = "handle"]
<1>u. /\ UNCHANGED <<organizations, users, lastLogin, sessions, cookies, audit, activity, clock>>
      /\ BoundsOK' /\ organizations' \subseteq {"anchorix"}
  BY DEF GetUserByID, userVars, Continue, boundVars, BoundsOK, SessionInv, TypeOK
<1>1. x \in Call /\ x.pc = "load user" /\ CallOK(x)
  BY DEF GetUserByID, At, SessionInv, TypeOK, CallsOK
<1>2. CASE users[x.row.user] = "enabled"
  <2>1. Go(c, rec) /\ UNCHANGED late
    BY <1>2 DEF GetUserByID
  <2>2. rec \in Call /\ rec.pc = "handle" /\ rec.id = x.id /\ rec.row = x.row
    BY <1>1 DEF Call
  <2>3. c \notin late
    BY <1>1, <1>2 DEF SessionInv, LateOK, LateCall
  <2> HIDE DEF rec
  <2>4. CallOK(rec) /\ \A y : Apart(rec, y) /\ Apart(y, rec)
    BY <1>1, <2>2 DEF CallOK, Apart, SessionPcs
  <2> QED BY <1>u, <2>1, <2>2, <2>3, <2>4, CallGoes
<1>3. CASE users[x.row.user] # "enabled"
  <2>1. Return(c) /\ late' = late \ {c}
    BY <1>3 DEF GetUserByID, Refuse
  <2> QED BY <1>u, <2>1, CallReturns
<1> QED BY <1>2, <1>3

LEMMA MeStep ==
    ASSUME SessionInv, NEW c \in Callers, AuthMe(c)
    PROVE  SessionInv'
<1>u. /\ UNCHANGED <<organizations, users, lastLogin, sessions, cookies, audit, activity, clock>>
      /\ BoundsOK' /\ organizations' \subseteq {"anchorix"} /\ Return(c) /\ late' = late \ {c}
  BY DEF AuthMe, userVars, Continue, boundVars, BoundsOK, SessionInv, TypeOK
<1> QED BY <1>u, CallReturns

LEMMA LogoutReadStep ==
    ASSUME SessionInv, NEW c \in Callers, AuthLogout(c)
    PROVE  SessionInv'
<1> DEFINE x == call[c]
           rec == [x EXCEPT !.pc = "revoke", !.at = clock]
<1>u. /\ UNCHANGED <<organizations, users, lastLogin, sessions, cookies, audit, activity, clock, late>>
      /\ BoundsOK' /\ organizations' \subseteq {"anchorix"}
  BY DEF AuthLogout, userVars, Continue, boundVars, BoundsOK, SessionInv, TypeOK, historyVars
<1>1. x \in Call /\ x.pc = "handle" /\ CallOK(x) /\ clock \in Time
  BY DEF AuthLogout, At, SessionInv, TypeOK, CallsOK
<1>2. Go(c, rec)
  BY DEF AuthLogout
<1>3. rec \in Call /\ rec.pc = "revoke" /\ rec.id = x.id /\ rec.row = x.row
  BY <1>1 DEF Call
<1>4. c \notin late
  BY <1>1 DEF SessionInv, LateOK, LateCall
<1> HIDE DEF rec
<1>5. CallOK(rec) /\ \A y : Apart(rec, y) /\ Apart(y, rec)
  BY <1>1, <1>3 DEF CallOK, Apart, SessionPcs
<1> QED BY <1>u, <1>2, <1>3, <1>4, <1>5, CallGoes

LEMMA FailStep ==
    ASSUME SessionInv, NEW c \in Callers, CallFails(c)
    PROVE  SessionInv'
<1>u. /\ UNCHANGED <<organizations, users, lastLogin, sessions, cookies, audit, activity, clock>>
      /\ BoundsOK' /\ organizations' \subseteq {"anchorix"} /\ Return(c) /\ late' = late \ {c}
  BY SessionPolicyAssumption DEF CallFails, userVars, BoundsOK, SessionInv, TypeOK
<1> QED BY <1>u, CallReturns


----------------------------------------------------------------------------
(* Steps that write. *)

LEMMA RecordAdds ==
    ASSUME audit \in [Event -> Nat], NEW action, NEW target, <<action, target>> \in Event,
           Record(action, target)
    PROVE  /\ audit' \in [Event -> Nat]
           /\ audit'[<<action, target>>] = audit[<<action, target>>] + 1
           /\ \A e \in Event : e # <<action, target>> => audit'[e] = audit[e]
BY DEF Record

LEMMA Events ==
    /\ \A u \in Users : /\ <<"auth.admin_created", u>> \in Event
                        /\ <<"auth.login_failed", u>> \in Event
    /\ \A s \in Sessions : /\ <<"auth.login_succeeded", s>> \in Event
                           /\ <<"auth.logout", s>> \in Event
BY DEF Event

LEMMA LoginStep ==
    ASSUME SessionInv, NEW c \in Callers, NEW u \in Users, NEW s \in Sessions, NEW ok \in BOOLEAN,
           Login(c, u, s, ok)
    PROVE  SessionInv'
<1>u. /\ UNCHANGED <<organizations, users, lastLogin, sessions, cookies, activity, late>>
      /\ organizations' \subseteq {"anchorix"}
  BY DEF Login, userVars, historyVars, SessionInv, TypeOK
<1>1. CASE GetUserByEmail(u, ok)
  <2> DEFINE rec == [NoCall EXCEPT !.pc = "create session", !.for = "login", !.user = u, !.id = s,
                                   !.at = clock]
  <2>1. Begin(c, rec) /\ New(s) /\ UNCHANGED audit
    BY <1>1 DEF Login
  <2>2. rec \in Call /\ rec.pc = "create session" /\ rec.user = u /\ rec.id = s
    BY RowsAreRows DEF Call, SessionInv, TypeOK
  <2> HIDE DEF rec
  <2>3. CallOK(rec)
    BY <1>1, <2>1, <2>2 DEF CallOK, GetUserByEmail, New, SessionPcs
  <2>4. \A d \in Callers \ {c} : Apart(rec, call[d]) /\ Apart(call[d], rec)
    BY <2>1, <2>2 DEF Apart, New
  <2>5. BoundsOK' /\ Go(c, rec) /\ clock' = clock /\ c \notin late
    BY <2>1, BeginBounds
  <2> QED BY <1>u, <2>1, <2>2, <2>3, <2>4, <2>5, CallGoes
<1>2. CASE ~ GetUserByEmail(u, ok)
  <2>1. Begin(c, NoCall) /\ auditAuthFailure(u)
    BY <1>2 DEF Login
  <2>2. BoundsOK' /\ Return(c) /\ clock' = clock /\ c \notin late
    BY <2>1, BeginBounds DEF Return
  <2>3. CASE UNCHANGED audit
    BY <1>u, <2>2, <2>3, CallReturns
  <2>4. CASE Record("auth.login_failed", u)
    <3>1. /\ audit' \in [Event -> Nat]
          /\ \A e \in Event : e # <<"auth.login_failed", u>> => audit'[e] = audit[e]
      <4>1. audit \in [Event -> Nat] /\ <<"auth.login_failed", u>> \in Event
        BY Events DEF SessionInv, TypeOK
      <4> QED BY <2>4, <4>1, RecordAdds
    <3>2. /\ \A v \in Users : audit'[<<"auth.admin_created", v>>] = audit[<<"auth.admin_created", v>>]
          /\ \A t \in Sessions :
                /\ audit'[<<"auth.login_succeeded", t>>] = audit[<<"auth.login_succeeded", t>>]
                /\ audit'[<<"auth.logout", t>>] = audit[<<"auth.logout", t>>]
      BY <3>1, Events
    <3>3. AuditAccounts'
      BY <1>u, <3>2 DEF SessionInv, AuditAccounts
    <3>4. \A x \in Call : CallOK(x) => CallOK(x)'
      BY <1>u DEF CallOK, Justified
    <3>5. call' \in [Callers -> Call] /\ CallsOK' /\ CallsApart' /\ LateOK'
      BY <1>u, <2>2, <3>4, NoCallOK, RowsAreRows, CallsFollow DEF Return
    <3>6. TypeOK'
      BY <1>u, <2>2, <3>1, <3>5 DEF SessionInv, TypeOK, BoundsOK
    <3>7. RowsOK'
      BY <1>u DEF SessionInv, RowsOK, Justified
    <3> QED BY <3>3, <3>5, <3>6, <3>7 DEF SessionInv
  <2> QED BY <2>1, <2>3, <2>4 DEF auditAuthFailure
<1> QED BY <1>1, <1>2

\* A check that passes adds to the activity, which justifies no less than before.
LEMMA AuthenticateStep ==
    ASSUME SessionInv, NEW c \in Callers, Authenticate(c)
    PROVE  SessionInv'
<1>u. /\ UNCHANGED <<organizations, users, lastLogin, sessions, cookies, audit, clock>>
      /\ BoundsOK' /\ organizations' \subseteq {"anchorix"}
  BY DEF Authenticate, userVars, Continue, boundVars, BoundsOK, SessionInv, TypeOK
<1>0. PICK x \in Call : x = call[c]
  BY DEF SessionInv, TypeOK
<1>1. x.pc = "check" /\ CallOK(x) /\ clock \in Time /\ x.id \in Sessions
  BY <1>0 DEF Authenticate, At, SessionInv, TypeOK, CallsOK, CallOK, SessionPcs
<1>2. CASE ~ IsActive(x.row, clock)
  <2>1. Return(c) /\ late' = late \ {c} /\ UNCHANGED activity
    BY <1>0, <1>2 DEF Authenticate, Refuse
  <2> QED BY <1>u, <2>1, CallReturns
<1>3. CASE IsActive(x.row, clock)
  <2> DEFINE step == IF NextExpiry(clock, x.row.created) = x.row.expires THEN "load user" ELSE "slide"
             next == [x EXCEPT !.at = clock, !.pc = step]
  <2>1. Go(c, next) /\ UNCHANGED late /\ activity' = [activity EXCEPT ![x.id] = @ \cup {clock}]
    BY <1>0, <1>3 DEF Authenticate
  <2>2. step \in {"load user", "slide"}
    OBVIOUS
  <2> HIDE DEF step
  <2>n. /\ next \in Call /\ next.pc = step /\ next.id = x.id /\ next.row = x.row
        /\ next.at = clock
    BY <1>1, <2>2 DEF Call
  <2> HIDE DEF next
  <2>3. PICK rec \in Call : /\ Go(c, rec) /\ rec.pc \in {"load user", "slide"} /\ rec.id = x.id
                           /\ rec.row = x.row /\ rec.at = clock
    BY <2>1, <2>2, <2>n
  <2>4. /\ activity' \in [Sessions -> SUBSET Time] /\ clock \in activity'[x.id]
        /\ \A s \in Sessions : activity[s] \subseteq activity'[s]
    BY <1>1, <2>1 DEF SessionInv, TypeOK
  <2>5. \A s \in Sessions : \A cr, ex : Justified(s, cr, ex) => Justified(s, cr, ex)'
    BY <2>4 DEF Justified
  <2>6. ASSUME NEW y \in Call, CallOK(y) PROVE CallOK(y)'
    BY <1>u, <2>4, <2>5, <2>6 DEF CallOK, SessionPcs
  <2>7. CallOK(rec)'
    <3>1. CallOK(x)'
      BY <1>1, <2>6
    <3> QED BY <1>1, <2>3, <2>4, <3>1 DEF CallOK, SessionPcs
  <2>8. \A y : Apart(rec, y) /\ Apart(y, rec)
    BY <2>3 DEF Apart
  <2>9. c \in late' => LateCall(rec)'
    <3>1. c \in late => users[x.row.user] = "disabled"
      <4>1. c \in late => LateCall(x)
        BY <1>0 DEF SessionInv, LateOK
      <4>2. ~ (clock >= x.row.expires)
        <5>1. x.row \in Session
          BY DEF Call
        <5>2. x.row.expires \in 0 .. MaxClock + Idle
          BY <5>1 DEF Session
        <5>3. x.row.expires \in Nat /\ clock \in Nat
          BY <5>2, <1>1, SessionPolicyAssumption DEF Time
        <5>4. clock < x.row.expires
          BY <1>3 DEF IsActive
        <5> QED BY <5>3, <5>4
      <4> QED BY <4>1, <4>2 DEF LateCall
    <3> QED BY <1>u, <2>1, <2>3, <3>1 DEF LateCall
  <2>10. call' \in [Callers -> Call] /\ CallsOK' /\ CallsApart' /\ LateOK'
    BY <1>u, <2>1, <2>3, <2>6, <2>7, <2>8, <2>9, CallsFollow
  <2>11. TypeOK'
    BY <1>u, <2>1, <2>4, <2>10 DEF SessionInv, TypeOK, BoundsOK
  <2>12. RowsOK'
    BY <1>u, <2>5 DEF SessionInv, RowsOK
  <2>13. AuditAccounts'
    BY <1>u DEF SessionInv, AuditAccounts
  <2> QED BY <2>10, <2>11, <2>12, <2>13 DEF SessionInv
<1> QED BY <1>2, <1>3

\* The row ExtendExpiry writes: only the expiry changes, to one that is justified.
LEMMA ExtendExpiryStep ==
    ASSUME SessionInv, NEW c \in Callers, ExtendExpiry(c)
    PROVE  SessionInv'
<1>u. /\ UNCHANGED <<organizations, users, lastLogin, cookies, audit, activity, clock>>
      /\ BoundsOK' /\ organizations' \subseteq {"anchorix"}
  BY DEF ExtendExpiry, userVars, Continue, boundVars, BoundsOK, SessionInv, TypeOK
<1>0. PICK x \in Call : x = call[c]
  BY DEF SessionInv, TypeOK
<1>1. /\ x.pc = "slide" /\ CallOK(x) /\ x.id \in Sessions /\ x.at \in Time
      /\ sessions[x.id].user # Nil /\ x.at \in activity[x.id]
      /\ x.row.created = sessions[x.id].created /\ x.row.created \in Time
      /\ sessions \in [Sessions -> Session]
  BY <1>0 DEF ExtendExpiry, At, SessionInv, TypeOK, CallsOK, CallOK, SessionPcs, Call, Session
<1>2. CASE sessions[x.id].revoked # Nil
  <2>1. Return(c) /\ late' = late \ {c} /\ UNCHANGED sessions
    BY <1>0, <1>2 DEF ExtendExpiry, Refuse
  <2> QED BY <1>u, <2>1, CallReturns
<1>3. CASE sessions[x.id].revoked = Nil
  <2> DEFINE e == NextExpiry(x.at, x.row.created)
             r == [sessions[x.id] EXCEPT !.expires = e]
             rec == [x EXCEPT !.pc = "load user"]
  <2>1. Go(c, rec) /\ UNCHANGED late /\ sessions' = [sessions EXCEPT ![x.id] = r]
    BY <1>0, <1>3 DEF ExtendExpiry
  <2>2. e \in 0 .. MaxClock + Idle /\ e <= x.at + Idle /\ e <= x.row.created + Absolute
    BY <1>1, NextExpiryBounds
  <2> HIDE DEF e
  <2>3. /\ r \in Session /\ r.user = sessions[x.id].user /\ r.created = sessions[x.id].created
        /\ r.revoked = sessions[x.id].revoked /\ r.expires = e
    <3>1. sessions[x.id] \in Session
      BY <1>1
    <3> QED BY <2>2, <3>1 DEF Session
  <2>4. rec \in Call /\ rec.pc = "load user" /\ rec.id = x.id /\ rec.row = x.row
    BY DEF Call
  <2> HIDE DEF r, rec
  <2>5. /\ sessions' \in [Sessions -> Session]
        /\ \A s \in Sessions : /\ s # x.id => sessions'[s] = sessions[s]
                               /\ sessions'[s].user = sessions[s].user
                               /\ sessions'[s].created = sessions[s].created
                               /\ sessions'[s].revoked = sessions[s].revoked
        /\ sessions'[x.id].expires = e
    BY <1>1, <2>1, <2>3
  <2>6. \A s, cr, ex : Justified(s, cr, ex) => Justified(s, cr, ex)'
    BY <1>u DEF Justified
  <2>7. ASSUME NEW y \in Call, CallOK(y) PROVE CallOK(y)'
    <3>1. y.pc = "create session" => y.id \in Sessions /\ sessions'[y.id] = NoSession
      BY <1>1, <2>5, <2>7, RowsAreRows DEF CallOK
    <3> QED BY <1>u, <2>5, <2>6, <2>7, <3>1 DEF CallOK
  <2>8. CallOK(rec)'
    <3>1. CallOK(x)'
      BY <1>1, <2>7
    <3> QED BY <1>1, <2>4, <3>1 DEF CallOK, SessionPcs
  <2>9. \A y : Apart(rec, y) /\ Apart(y, rec)
    BY <2>4 DEF Apart
  <2>10. c \in late' => LateCall(rec)'
    BY <1>0, <1>1, <1>u, <2>1, <2>4 DEF SessionInv, LateOK, LateCall
  <2>11. call' \in [Callers -> Call] /\ CallsOK' /\ CallsApart' /\ LateOK'
    BY <1>u, <2>1, <2>4, <2>7, <2>8, <2>9, <2>10, CallsFollow
  <2>12. TypeOK'
    BY <1>u, <2>1, <2>5, <2>11 DEF SessionInv, TypeOK, BoundsOK
  <2>13. RowsOK'
    <3>1. Justified(x.id, sessions'[x.id].created, sessions'[x.id].expires)
      BY <1>1, <2>2, <2>5 DEF Justified
    <3>2. ASSUME NEW s \in Sessions, sessions[s].user # Nil
          PROVE  users'[sessions'[s].user] # "absent" /\ Justified(s, sessions'[s].created, sessions'[s].expires)
      BY <3>1, <3>2, <1>u, <2>5 DEF SessionInv, RowsOK
    <3> QED BY <3>2, <2>5, <1>u DEF RowsOK, Justified
  <2>14. AuditAccounts'
    BY <1>u, <2>5 DEF SessionInv, AuditAccounts
  <2> QED BY <2>11, <2>12, <2>13, <2>14 DEF SessionInv
<1> QED BY <1>2, <1>3


LEMMA CreateUserStep ==
    ASSUME SessionInv, NEW c \in Callers, CreateUser(c)
    PROVE  SessionInv'
<1>u. /\ UNCHANGED <<organizations, lastLogin, sessions, cookies, activity, late, clock>>
      /\ BoundsOK' /\ organizations' \subseteq {"anchorix"} /\ Return(c)
  BY DEF CreateUser, historyVars, Continue, boundVars, BoundsOK, SessionInv, TypeOK
<1>0. PICK u \in Users : u = call[c].user
  BY DEF CreateUser, At, SessionInv, CallsOK, CallOK
<1>l. c \notin late
  BY DEF CreateUser, At, SessionInv, LateOK, LateCall
<1>1. CASE UNCHANGED <<users, audit>>
  BY <1>1, <1>u, <1>l, CallReturns
<1>2. CASE insertUser(u) /\ Record("auth.admin_created", u)
  <2>1. /\ users[u] = "absent" /\ users' = [users EXCEPT ![u] = "enabled"]
        /\ users \in [Users -> {"absent", "enabled", "disabled"}]
    BY <1>2 DEF insertUser, SessionInv, TypeOK
  <2>2. /\ audit' \in [Event -> Nat]
        /\ audit'[<<"auth.admin_created", u>>] = audit[<<"auth.admin_created", u>>] + 1
        /\ \A e \in Event : e # <<"auth.admin_created", u>> => audit'[e] = audit[e]
    <3>1. audit \in [Event -> Nat] /\ <<"auth.admin_created", u>> \in Event
      BY Events DEF SessionInv, TypeOK
    <3> QED BY <1>2, <3>1, RecordAdds
  <2>3. /\ users' \in [Users -> {"absent", "enabled", "disabled"}] /\ users'[u] = "enabled"
        /\ \A v \in Users : v # u => users'[v] = users[v]
    BY <2>1
  <2>4. \A s, cr, ex : Justified(s, cr, ex) => Justified(s, cr, ex)'
    BY <1>u DEF Justified
  <2>5. ASSUME NEW y \in Call, CallOK(y) PROVE CallOK(y)'
    BY <1>u, <2>3, <2>4, <2>5 DEF CallOK
  <2>6. \A v \in Users : users[v] = "disabled" => users'[v] = "disabled"
    BY <2>1, <2>3
  <2>7. call' \in [Callers -> Call] /\ CallsOK' /\ CallsApart' /\ LateOK'
    BY <1>u, <1>l, <2>5, <2>6, NoCallOK, RowsAreRows, CallsFollow DEF Return
  <2>8. TypeOK'
    BY <1>u, <2>2, <2>3, <2>7 DEF SessionInv, TypeOK, BoundsOK
  <2>9. RowsOK'
    <3>1. ASSUME NEW s \in Sessions, sessions[s].user # Nil
          PROVE  sessions[s].user \in Users /\ users[sessions[s].user] # "absent"
                 /\ Justified(s, sessions[s].created, sessions[s].expires)
      BY <3>1 DEF SessionInv, RowsOK, TypeOK, Session
    <3>2. ASSUME NEW s \in Sessions, sessions[s].user # Nil
          PROVE  users'[sessions[s].user] # "absent"
      BY <3>1, <3>2, <2>3
    <3> QED BY <1>u, <3>1, <3>2 DEF RowsOK, Justified
  <2>10. AuditAccounts'
    <3>1. ASSUME NEW v \in Users
          PROVE  audit'[<<"auth.admin_created", v>>] = IF users'[v] = "absent" THEN 0 ELSE 1
      <4>1. audit[<<"auth.admin_created", v>>] = IF users[v] = "absent" THEN 0 ELSE 1
        BY DEF SessionInv, AuditAccounts
      <4>2. CASE v = u
        BY <4>1, <4>2, <2>1, <2>2, <2>3
      <4>3. CASE v # u
        BY <4>1, <4>3, <2>2, <2>3, Events
      <4> QED BY <4>2, <4>3
    <3>2. \A s \in Sessions :
              /\ audit'[<<"auth.login_succeeded", s>>] = audit[<<"auth.login_succeeded", s>>]
              /\ audit'[<<"auth.logout", s>>] = audit[<<"auth.logout", s>>]
      BY <2>2, Events
    <3> QED BY <1>u, <3>1, <3>2 DEF SessionInv, AuditAccounts
  <2> QED BY <2>7, <2>8, <2>9, <2>10 DEF SessionInv
<1> QED BY <1>0, <1>1, <1>2 DEF CreateUser

\* The login writes a row that was not there, which no request has read.
LEMMA CommitLoginStep ==
    ASSUME SessionInv, NEW c \in Callers, CommitLogin(c)
    PROVE  SessionInv'
<1>u. /\ UNCHANGED <<organizations, users, late, clock>>
      /\ BoundsOK' /\ organizations' \subseteq {"anchorix"} /\ Return(c)
  BY DEF CommitLogin, Continue, boundVars, BoundsOK, SessionInv, TypeOK
<1>0. PICK x \in Call, s \in Sessions, u \in Users : x = call[c] /\ s = x.id /\ u = x.user
  BY DEF CommitLogin, At, SessionInv, CallsOK, CallOK, TypeOK
<1>1. /\ x.pc = "create session" /\ CallOK(x) /\ x.at \in Time /\ users[u] # "absent"
      /\ sessions[s] = NoSession /\ sessions \in [Sessions -> Session]
      /\ sessions[s].user = Nil /\ sessions[s].revoked = Nil /\ u # Nil
  BY <1>0, RowsAreRows, SessionPolicyAssumption
     DEF CommitLogin, At, SessionInv, TypeOK, CallsOK, CallOK, Call
<1>l. c \notin late
  BY <1>0, <1>1 DEF SessionInv, LateOK, LateCall
<1> DEFINE e == NextExpiry(x.at, x.at)
           r == [user |-> u, created |-> x.at, expires |-> e, revoked |-> Nil]
<1>2. e \in 0 .. MaxClock + Idle /\ e <= x.at + Idle /\ e <= x.at + Absolute
  BY <1>1, NextExpiryBounds
<1>3. sessions' = [sessions EXCEPT ![s] = r] /\ activity' = [activity EXCEPT ![s] = {x.at}]
      /\ lastLogin' = [lastLogin EXCEPT ![u] = x.at] /\ Record("auth.login_succeeded", s)
      /\ cookies' \in {cookies, cookies \cup {Sign(s)}}
  BY <1>0 DEF CommitLogin, insertSession, UpdateLastLogin, AuthLogin
<1> HIDE DEF e
<1>4. r \in Session /\ r.user = u /\ r.created = x.at /\ r.expires = e /\ r.revoked = Nil
  BY <1>1, <1>2 DEF Session
<1> HIDE DEF r
<1>5. /\ sessions' \in [Sessions -> Session] /\ sessions'[s] = r
      /\ \A t \in Sessions : t # s => sessions'[t] = sessions[t]
  BY <1>1, <1>3, <1>4
<1>6. /\ activity' \in [Sessions -> SUBSET Time] /\ activity'[s] = {x.at}
      /\ \A t \in Sessions : t # s => activity'[t] = activity[t]
  BY <1>1, <1>3 DEF SessionInv, TypeOK
<1>7. /\ lastLogin' \in [Users -> Time \cup {Nil}] /\ lastLogin'[u] = x.at
      /\ \A v \in Users : v # u => lastLogin'[v] = lastLogin[v]
  BY <1>1, <1>3 DEF SessionInv, TypeOK
<1>8. /\ audit' \in [Event -> Nat]
      /\ audit'[<<"auth.login_succeeded", s>>] = audit[<<"auth.login_succeeded", s>>] + 1
      /\ \A ev \in Event : ev # <<"auth.login_succeeded", s>> => audit'[ev] = audit[ev]
  <2>1. audit \in [Event -> Nat] /\ <<"auth.login_succeeded", s>> \in Event
    BY Events DEF SessionInv, TypeOK
  <2> QED BY <1>3, <2>1, RecordAdds
<1>9. cookies' \subseteq Cookie
  <2>1. Sign(s) \in Cookie
    BY DEF Sign, Cookie
  <2> QED BY <1>3, <2>1 DEF SessionInv, TypeOK
<1>10. \A t \in Sessions : \A cr, ex : t # s /\ Justified(t, cr, ex) => Justified(t, cr, ex)'
  BY <1>6 DEF Justified
<1>11. ASSUME NEW y \in Call, CallOK(y), Apart(y, x) PROVE CallOK(y)'
  <2>1. y.pc = "create session" => y.id \in Sessions /\ y.id # s
    BY <1>0, <1>1, <1>11 DEF CallOK, Apart
  <2>2. y.pc \in SessionPcs => y.id \in Sessions /\ y.id # s
    BY <1>1, <1>11 DEF CallOK
  <2> QED BY <1>u, <1>5, <1>6, <1>10, <1>11, <2>1, <2>2 DEF CallOK, SessionPcs
<1>12. call' \in [Callers -> Call] /\ CallsOK' /\ CallsApart' /\ LateOK'
  BY <1>0, <1>u, <1>l, <1>11, NoCallOK, RowsAreRows, CallsFollow DEF Return
<1>13. TypeOK'
  BY <1>u, <1>5, <1>6, <1>7, <1>8, <1>9, <1>12 DEF SessionInv, TypeOK, BoundsOK
<1>14. RowsOK'
  <2>1. Justified(s, sessions[s].created, sessions[s].expires)'
    BY <1>2, <1>4, <1>5, <1>6 DEF Justified
  <2>2. ASSUME NEW t \in Sessions, t # s, sessions[t].user # Nil
        PROVE  users[sessions[t].user] # "absent" /\ Justified(t, sessions[t].created, sessions[t].expires)'
    <3>1. users[sessions[t].user] # "absent" /\ Justified(t, sessions[t].created, sessions[t].expires)
      BY <2>2 DEF SessionInv, RowsOK
    <3> QED BY <2>2, <3>1, <1>5, <1>6 DEF Justified
  <2> QED BY <1>u, <1>1, <1>4, <1>5, <2>1, <2>2 DEF RowsOK
<1>15. AuditAccounts'
  <2>1. \A v \in Users : audit'[<<"auth.admin_created", v>>] = IF users'[v] = "absent" THEN 0 ELSE 1
    <3>1. \A v \in Users : audit'[<<"auth.admin_created", v>>] = audit[<<"auth.admin_created", v>>]
      BY <1>8, Events
    <3> QED BY <1>u, <3>1 DEF SessionInv, AuditAccounts
  <2>2. ASSUME NEW v \in Users, lastLogin'[v] # Nil
        PROVE  \E t \in Sessions : sessions'[t].user = v /\ sessions'[t].created = lastLogin'[v]
    <3>1. CASE v = u
      BY <3>1, <1>4, <1>5, <1>7
    <3>2. CASE v # u
      <4>1. PICK t \in Sessions : sessions[t].user = v /\ sessions[t].created = lastLogin[v]
        BY <2>2, <3>2, <1>7 DEF SessionInv, AuditAccounts
      <4>2. t # s
        BY <4>1, <1>1, SessionPolicyAssumption
      <4> QED BY <4>1, <4>2, <3>2, <1>5, <1>7
    <3> QED BY <3>1, <3>2
  <2>3. ASSUME NEW t \in Sessions
        PROVE  /\ audit'[<<"auth.login_succeeded", t>>] = IF sessions'[t].user = Nil THEN 0 ELSE 1
               /\ (audit'[<<"auth.logout", t>>] > 0) = (sessions'[t].revoked # Nil)
    <3>1. /\ audit[<<"auth.login_succeeded", t>>] = IF sessions[t].user = Nil THEN 0 ELSE 1
          /\ (audit[<<"auth.logout", t>>] > 0) = (sessions[t].revoked # Nil)
      BY DEF SessionInv, AuditAccounts
    <3>2. audit'[<<"auth.logout", t>>] = audit[<<"auth.logout", t>>]
      BY <1>8, Events
    <3>3. CASE t = s
      <4>1. audit[<<"auth.login_succeeded", t>>] = 0
        BY <3>1, <3>3, <1>1
      <4>2. audit'[<<"auth.login_succeeded", t>>] = 1
        BY <3>3, <4>1, <1>8
      <4>3. sessions'[t].user # Nil /\ sessions'[t].revoked = sessions[t].revoked
        BY <3>3, <1>1, <1>4, <1>5
      <4> QED BY <3>1, <3>2, <4>2, <4>3
    <3>4. CASE t # s
      <4>1. audit'[<<"auth.login_succeeded", t>>] = audit[<<"auth.login_succeeded", t>>]
        BY <3>4, <1>8, Events
      <4> QED BY <3>1, <3>2, <3>4, <4>1, <1>5
    <3> QED BY <3>3, <3>4
  <2> QED BY <2>1, <2>2, <2>3 DEF AuditAccounts
<1> QED BY <1>12, <1>13, <1>14, <1>15 DEF SessionInv


\* The row Revoke writes: a revoked one stays as it is.
LEMMA RevokeRows ==
    ASSUME sessions \in [Sessions -> Session], NEW s \in Sessions, NEW at \in Time, Revoke(s, at)
    PROVE  /\ sessions' \in [Sessions -> Session] /\ sessions'[s].revoked # Nil
           /\ \A t \in Sessions : /\ t # s => sessions'[t] = sessions[t]
                                  /\ sessions[t].revoked # Nil => sessions'[t] = sessions[t]
                                  /\ sessions'[t].user = sessions[t].user
                                  /\ sessions'[t].created = sessions[t].created
                                  /\ sessions'[t].expires = sessions[t].expires
<1> DEFINE when == IF sessions[s].revoked = Nil THEN at ELSE sessions[s].revoked
           r == [sessions[s] EXCEPT !.revoked = when]
<1>1. sessions' = [sessions EXCEPT ![s] = r]
  BY DEF Revoke
<1>2. sessions[s] \in Session
  OBVIOUS
<1>3. /\ when \in Time \cup {Nil} /\ when # Nil
      /\ sessions[s].revoked # Nil => when = sessions[s].revoked
  BY <1>2, SessionPolicyAssumption DEF Session, Time
<1> HIDE DEF when
<1>4. /\ r \in Session /\ r.user = sessions[s].user /\ r.created = sessions[s].created
      /\ r.expires = sessions[s].expires /\ r.revoked = when
  BY <1>2, <1>3 DEF Session
<1>5. when = sessions[s].revoked => r = sessions[s]
  BY <1>2 DEF Session
<1> HIDE DEF r
<1> QED BY <1>1, <1>3, <1>4, <1>5

LEMMA LogoutStep ==
    ASSUME SessionInv, NEW c \in Callers, Logout(c)
    PROVE  SessionInv'
<1>u. /\ UNCHANGED <<organizations, users, lastLogin, cookies, activity, clock>>
      /\ BoundsOK' /\ organizations' \subseteq {"anchorix"} /\ Return(c) /\ late' = late \ {c}
  BY DEF Logout, userVars, Continue, boundVars, BoundsOK, SessionInv, TypeOK
<1>0. PICK x \in Call, s \in Sessions : x = call[c] /\ s = x.id
  BY DEF Logout, At, SessionInv, CallsOK, CallOK, TypeOK, SessionPcs
<1>1. /\ x.pc = "revoke" /\ CallOK(x) /\ sessions[s].user # Nil /\ x.at \in Time
      /\ sessions \in [Sessions -> Session]
  BY <1>0 DEF Logout, At, SessionInv, CallsOK, CallOK, TypeOK, SessionPcs, Call
<1>2. Revoke(s, x.at) /\ Record("auth.logout", s)
  BY <1>0 DEF Logout
<1>3. /\ sessions' \in [Sessions -> Session] /\ sessions'[s].revoked # Nil
      /\ \A t \in Sessions : /\ t # s => sessions'[t] = sessions[t]
                             /\ sessions'[t].user = sessions[t].user
                             /\ sessions'[t].created = sessions[t].created
                             /\ sessions'[t].expires = sessions[t].expires
  BY <1>1, <1>2, RevokeRows
<1>4. /\ audit' \in [Event -> Nat]
      /\ audit'[<<"auth.logout", s>>] = audit[<<"auth.logout", s>>] + 1
      /\ \A ev \in Event : ev # <<"auth.logout", s>> => audit'[ev] = audit[ev]
      /\ audit[<<"auth.logout", s>>] \in Nat
  <2>1. audit \in [Event -> Nat] /\ <<"auth.logout", s>> \in Event
    BY Events DEF SessionInv, TypeOK
  <2> QED BY <1>2, <2>1, RecordAdds
<1>5. \A t, cr, ex : Justified(t, cr, ex) => Justified(t, cr, ex)'
  BY <1>u DEF Justified
<1>6. ASSUME NEW y \in Call, CallOK(y) PROVE CallOK(y)'
  <2>1. y.pc = "create session" => y.id \in Sessions /\ sessions'[y.id] = NoSession
    BY <1>1, <1>3, <1>6, RowsAreRows DEF CallOK
  <2> QED BY <1>u, <1>3, <1>5, <1>6, <2>1 DEF CallOK
<1>7. call' \in [Callers -> Call] /\ CallsOK' /\ CallsApart' /\ LateOK'
  BY <1>u, <1>6, NoCallOK, RowsAreRows, CallsFollow DEF Return
<1>8. TypeOK'
  BY <1>u, <1>3, <1>4, <1>7 DEF SessionInv, TypeOK, BoundsOK
<1>9. RowsOK'
  BY <1>u, <1>3 DEF SessionInv, RowsOK, Justified
<1>10. AuditAccounts'
  <2>1. \A v \in Users : audit'[<<"auth.admin_created", v>>] = audit[<<"auth.admin_created", v>>]
    BY <1>4, Events
  <2>2. \A t \in Sessions : audit'[<<"auth.login_succeeded", t>>] = audit[<<"auth.login_succeeded", t>>]
    BY <1>4, Events
  <2>3. ASSUME NEW t \in Sessions
        PROVE  (audit'[<<"auth.logout", t>>] > 0) = (sessions'[t].revoked # Nil)
    <3>1. CASE t = s
      <4>1. audit'[<<"auth.logout", s>>] > 0
        BY <1>4
      <4> QED BY <3>1, <4>1, <1>3
    <3>2. CASE t # s
      <4>1. (audit[<<"auth.logout", t>>] > 0) = (sessions[t].revoked # Nil)
        BY DEF SessionInv, AuditAccounts
      <4>2. audit'[<<"auth.logout", t>>] = audit[<<"auth.logout", t>>]
        BY <3>2, <1>4, Events
      <4> QED BY <3>2, <4>1, <4>2, <1>3
    <3> QED BY <3>1, <3>2
  <2> QED BY <1>u, <1>3, <2>1, <2>2, <2>3 DEF SessionInv, AuditAccounts
<1> QED BY <1>7, <1>8, <1>9, <1>10 DEF SessionInv

\* No request moves, and those that are late stay late.
LEMMA CallsStay ==
    ASSUME SessionInv, UNCHANGED <<call, late>>, clock \in Nat, clock' \in Nat, clock' >= clock,
           \A x \in Call : CallOK(x) => CallOK(x)',
           \A u \in Users : users[u] = "disabled" => users'[u] = "disabled"
    PROVE  CallsOK' /\ CallsApart' /\ LateOK'
<1>0. call \in [Callers -> Call] /\ late \subseteq Callers /\ CallsOK /\ CallsApart /\ LateOK
  BY DEF SessionInv, TypeOK
<1>1. ASSUME NEW d \in Callers PROVE CallOK(call[d])'
  <2>1. PICK x \in Call : x = call[d]
    BY <1>0
  <2>2. CallOK(x)'
    BY <1>0, <2>1 DEF CallsOK
  <2>3. call'[d] = x
    BY <2>1
  <2> QED BY <2>2, <2>3 DEF CallOK, Justified
<1>2. CallsApart'
  BY <1>0 DEF CallsApart
<1>3. ASSUME NEW d \in late PROVE LateCall(call[d])'
  <2>1. PICK x \in Call : x = call[d]
    BY <1>0
  <2>2. LateCall(x) /\ CallOK(x)
    BY <1>0, <2>1 DEF LateOK, CallsOK
  <2>3. x.row.user \in Users
    BY <2>2, LateUser
  <2>4. x.row.expires \in Nat
    <3>1. x.row \in Session
      BY DEF Call
    <3> QED BY <3>1, SessionPolicyAssumption DEF Session
  <2>5. clock >= x.row.expires => clock' >= x.row.expires
    BY <2>4
  <2>6. call'[d] = x
    BY <2>1
  <2> QED BY <2>2, <2>3, <2>5, <2>6 DEF LateCall
<1> QED BY <1>1, <1>2, <1>3 DEF CallsOK, LateOK

LEMMA DisableStep ==
    ASSUME SessionInv, NEW u \in Users, SetUserDisabled(u)
    PROVE  SessionInv'
<1>u. UNCHANGED <<clock, organizations, lastLogin, sessions, cookies, audit, call, activity, late,
                  requests, faults>>
  BY DEF SetUserDisabled, historyVars, boundVars
<1>1. /\ users[u] = "enabled" /\ users' \in [Users -> {"absent", "enabled", "disabled"}]
      /\ users'[u] = "disabled" /\ \A v \in Users : v # u => users'[v] = users[v]
  BY DEF SetUserDisabled, SessionInv, TypeOK
<1>2. \A v \in Users : /\ users'[v] = "absent" <=> users[v] = "absent"
                       /\ users[v] = "disabled" => users'[v] = "disabled"
  BY <1>1
<1>3. \A s, cr, ex : Justified(s, cr, ex) => Justified(s, cr, ex)'
  BY <1>u DEF Justified
<1>4. ASSUME NEW y \in Call, CallOK(y) PROVE CallOK(y)'
  BY <1>u, <1>2, <1>3, <1>4 DEF CallOK
<1>5. clock \in Nat /\ clock' \in Nat /\ clock' >= clock
  BY <1>u, SessionPolicyAssumption DEF SessionInv, TypeOK, Time
<1>6. CallsOK' /\ CallsApart' /\ LateOK'
  BY <1>u, <1>2, <1>4, <1>5, CallsStay
<1>7. TypeOK'
  BY <1>u, <1>1 DEF SessionInv, TypeOK
<1>8. RowsOK'
  <2>1. \A s \in Sessions : sessions[s].user # Nil => sessions[s].user \in Users
    BY DEF SessionInv, TypeOK, Session
  <2> QED BY <1>u, <1>2, <2>1 DEF SessionInv, RowsOK, Justified
<1>9. AuditAccounts'
  BY <1>u, <1>2 DEF SessionInv, AuditAccounts
<1> QED BY <1>6, <1>7, <1>8, <1>9 DEF SessionInv

LEMMA TickStep ==
    ASSUME SessionInv, Tick \/ UNCHANGED vars
    PROVE  SessionInv'
<1>u. UNCHANGED <<organizations, users, lastLogin, sessions, cookies, audit, call, activity, late,
                  requests, faults>>
  BY DEF Tick, vars, userVars, historyVars, boundVars
<1>1. clock \in Nat /\ clock' \in Nat /\ clock' >= clock /\ clock' \in Time
  BY SessionPolicyAssumption DEF Tick, vars, SessionInv, TypeOK, Time
<1>2. \A x : CallOK(x) => CallOK(x)'
  BY <1>u DEF CallOK, Justified
<1>3. CallsOK' /\ CallsApart' /\ LateOK'
  BY <1>u, <1>1, <1>2, CallsStay
<1>4. TypeOK'
  BY <1>u, <1>1 DEF SessionInv, TypeOK
<1>5. RowsOK' /\ AuditAccounts'
  BY <1>u DEF SessionInv, RowsOK, Justified, AuditAccounts
<1> QED BY <1>3, <1>4, <1>5 DEF SessionInv

----------------------------------------------------------------------------
(* The theorems. *)

LEMMA InitEstablishes == Init => SessionInv
<1> SUFFICES ASSUME Init PROVE SessionInv
  OBVIOUS
<1>1. TypeOK
  BY RowsAreRows, SessionPolicyAssumption DEF Init, TypeOK, Time
<1>2. RowsOK
  BY RowsAreRows DEF Init, RowsOK
<1>3. CallsOK /\ CallsApart /\ LateOK
  BY NoCallOK DEF Init, CallsOK, CallsApart, LateOK
<1>4. AuditAccounts
  <2>1. \A e \in Event : audit[e] = 0
    BY DEF Init
  <2>2. /\ \A u \in Users : audit[<<"auth.admin_created", u>>] = 0
        /\ \A s \in Sessions : audit[<<"auth.login_succeeded", s>>] = 0 /\ audit[<<"auth.logout", s>>] = 0
    BY <2>1, Events
  <2>3. \A u \in Users : users[u] = "absent" /\ lastLogin[u] = Nil
    BY DEF Init
  <2>4. \A s \in Sessions : sessions[s].user = Nil /\ sessions[s].revoked = Nil
    BY RowsAreRows DEF Init
  <2> QED BY <2>2, <2>3, <2>4 DEF AuditAccounts
<1> QED BY <1>1, <1>2, <1>3, <1>4 DEF SessionInv

LEMMA NextPreserves == SessionInv /\ [Next]_vars => SessionInv'
<1> SUFFICES ASSUME SessionInv, [Next]_vars PROVE SessionInv'
  OBVIOUS
<1>1. ASSUME NEW c \in Callers, Step(c) PROVE SessionInv'
  BY <1>1, CreateUserStep, CommitLoginStep, AuthenticateStep, ExtendExpiryStep, UserStep, MeStep,
     LogoutReadStep, LogoutStep DEF Step
<1> QED BY <1>1, TickStep, DisableStep, FailStep, AdminStep, LoginStep, ResolverStep DEF Next

LEMMA SessionInvHolds == Spec => []SessionInv
BY InitEstablishes, NextPreserves, PTL DEF Spec

\* For any number of operators, sessions and requests, the audit trail accounts for the rows:
\* one event per operator and per session, a revocation exactly with a logout event, and a
\* last_login_at that is a login.
THEOREM TablesAgreeHolds == Spec => []TablesAgree
<1>1. SessionInv => TablesAgree
  BY DEF SessionInv, TablesAgree
<1> QED BY SessionInvHolds, <1>1, PTL

\* No request that began after its session had ended, or after its operator was disabled,
\* reaches a handler, whatever other requests slid the expiry meanwhile.
THEOREM OverIsOverHolds == Spec => []OverIsOver
<1>1. SessionInv => OverIsOver
  BY DEF SessionInv, LateOK, LateCall, OverIsOver
<1> QED BY SessionInvHolds, <1>1, PTL


\* Only Authenticate accepts a request.
LEMMA OnlyAuthenticateAccepts ==
    ASSUME SessionInv, [Next]_vars, NEW c \in Callers, call[c].pc = "check",
           call'[c].pc \in {"slide", "load user"}
    PROVE  Authenticate(c)
<1>1. call \in [Callers -> Call]
  BY DEF SessionInv, TypeOK
<1>2. ASSUME NEW d \in Callers, NEW rec, Go(d, rec), d # c \/ rec.pc \notin {"slide", "load user"}
      PROVE  FALSE
  BY <1>1, <1>2 DEF Go
<1>3. ~ UNCHANGED call
  OBVIOUS
<1>4. ASSUME NEW d \in Callers, Begin(d, NoCall) PROVE FALSE
  BY <1>2, <1>4, RowsAreRows DEF Begin
<1>5. ASSUME NEW d \in Callers, NEW rec, Begin(d, rec) PROVE FALSE
  <2>1. d # c /\ Go(d, rec)
    BY <1>5 DEF Begin, At
  <2> QED BY <2>1, <1>2
<1>6. ASSUME NEW d \in Callers, Return(d) PROVE FALSE
  BY <1>2, <1>6, RowsAreRows DEF Return
<1>7. ASSUME NEW d \in Callers, Step(d) PROVE Authenticate(c)
  <2>1. CASE CreateUser(d) \/ CommitLogin(d) \/ AuthMe(d) \/ Logout(d)
    BY <2>1, <1>6, <1>7 DEF CreateUser, CommitLogin, AuthMe, Logout
  <2>2. CASE Authenticate(d)
    <3>1. CASE d = c
      BY <2>2, <3>1
    <3>2. CASE d # c
      <4>1. PICK rec : Go(d, rec)
        BY <2>2 DEF Authenticate, Refuse, Return
      <4> QED BY <3>2, <4>1, <1>2, <1>7
    <3> QED BY <3>1, <3>2
  <2>3. CASE ExtendExpiry(d) \/ GetUserByID(d) \/ AuthLogout(d)
    <3>1. PICK rec : Go(d, rec)
      BY <2>3 DEF ExtendExpiry, GetUserByID, AuthLogout, Refuse, Return
    <3>2. d # c
      BY <2>3 DEF ExtendExpiry, GetUserByID, AuthLogout, At
    <3> QED BY <3>1, <3>2, <1>2, <1>7
  <2> QED BY <1>7, <2>1, <2>2, <2>3 DEF Step
<1>8. ASSUME NEW d \in Callers, CallFails(d) PROVE FALSE
  BY <1>6, <1>8 DEF CallFails
<1>9. ASSUME NEW d \in Callers, NEW u \in Users, cmdAdminCreate(d, u) PROVE FALSE
  BY <1>5, <1>9 DEF cmdAdminCreate
<1>10. ASSUME NEW d \in Callers, NEW u \in Users, NEW s \in Sessions, NEW ok \in BOOLEAN,
              Login(d, u, s, ok)
       PROVE  FALSE
  BY <1>5, <1>10 DEF Login
<1>11. ASSUME NEW d \in Callers, NEW cookie, NEW for, SessionResolver(d, cookie, for) PROVE FALSE
  BY <1>5, <1>11 DEF SessionResolver
<1>12. CASE Tick \/ UNCHANGED vars \/ \E u \in Users : SetUserDisabled(u)
  BY <1>3, <1>12 DEF Tick, vars, SetUserDisabled
<1> QED BY <1>7, <1>8, <1>9, <1>10, <1>11, <1>12 DEF Next

LEMMA TimesAreNats ==
    Time \subseteq Nat /\ 0 .. MaxClock + Idle \subseteq Nat /\ Idle \in Nat /\ Absolute \in Nat
BY SessionPolicyAssumption DEF Time

\* A time before an expiry is before what the expiry is bounded by.
LEMMA BeforeExpiry ==
    ASSUME NEW now \in Nat, NEW e \in Nat, NEW from \in Nat, NEW span \in Nat,
           now < e, e <= from + span
    PROVE  now < from + span
OBVIOUS

\* What Authenticate accepts is within both lifetimes.
LEMMA AcceptedWithinPolicy ==
    ASSUME SessionInv, NEW c \in Callers, Authenticate(c), call'[c].pc \in {"slide", "load user"}
    PROVE  /\ clock < sessions[call[c].id].created + Absolute
           /\ \E t \in activity[call[c].id] : clock < t + Idle
<1> DEFINE x == call[c]
<1>1. /\ x \in Call /\ x.id \in Sessions /\ x.row.created = sessions[x.id].created
      /\ Justified(x.id, x.row.created, x.row.expires)
  BY DEF Authenticate, At, SessionInv, TypeOK, CallsOK, CallOK, SessionPcs
<1>2. IsActive(x.row, clock)
  <2> SUFFICES ASSUME ~ IsActive(x.row, clock) PROVE FALSE
    OBVIOUS
  <2>1. call'[c] = NoCall
    BY DEF Authenticate, Refuse, Return, Go, SessionInv, TypeOK
  <2> QED BY <2>1, RowsAreRows
<1>3. PICK e : e = x.row.expires
  OBVIOUS
<1>4. PICK cr : cr = x.row.created
  OBVIOUS
<1>5. e \in Nat /\ cr \in Nat /\ clock \in Nat /\ Idle \in Nat /\ Absolute \in Nat
  <2>1. x.row \in Session /\ clock \in Time
    BY <1>1 DEF Call, SessionInv, TypeOK
  <2>2. e \in 0 .. MaxClock + Idle /\ cr \in Time
    BY <2>1, <1>3, <1>4 DEF Session
  <2> QED BY <2>1, <2>2, TimesAreNats, Zenon
<1>6. clock < e /\ e <= cr + Absolute
  BY <1>1, <1>2, <1>3, <1>4 DEF IsActive, Justified
<1>7. PICK t \in activity[x.id] : e <= t + Idle
  BY <1>1, <1>3 DEF Justified
<1>8. t \in Nat
  <2>1. t \in Time
    BY <1>1 DEF SessionInv, TypeOK
  <2> QED BY <2>1, TimesAreNats, Zenon
<1>9. clock < cr + Absolute
  BY <1>5, <1>6, BeforeExpiry
<1>10. clock < t + Idle
  BY <1>5, <1>6, <1>7, <1>8, BeforeExpiry
<1> QED BY <1>1, <1>4, <1>9, <1>10

\* A revoked row is never written.
LEMMA RevokedRowsStay ==
    ASSUME SessionInv, [Next]_vars
    PROVE  LeavesRevokedRows
<1>0. sessions \in [Sessions -> Session]
  BY DEF SessionInv, TypeOK
<1>1. CASE UNCHANGED sessions
  BY <1>1 DEF LeavesRevokedRows
<1>2. ASSUME NEW c \in Callers, CommitLogin(c) PROVE LeavesRevokedRows
  <2>1. PICK x \in Call : x = call[c]
    BY DEF SessionInv, TypeOK
  <2>2. x.id \in Sessions /\ sessions[x.id].revoked = Nil
    BY <1>2, <2>1, RowsAreRows DEF CommitLogin, At, SessionInv, CallsOK, CallOK
  <2> QED BY <1>0, <1>2, <2>1, <2>2 DEF CommitLogin, insertSession, LeavesRevokedRows
<1>3. ASSUME NEW c \in Callers, ExtendExpiry(c) PROVE LeavesRevokedRows
  <2>1. CASE UNCHANGED sessions
    BY <1>1, <2>1
  <2>2. CASE sessions[call[c].id].revoked = Nil
    <3>1. \A s \in Sessions : s # call[c].id => sessions'[s] = sessions[s]
      BY <1>0, <1>3, <2>2 DEF ExtendExpiry
    <3> QED BY <2>2, <3>1 DEF LeavesRevokedRows
  <2> QED BY <1>3, <2>1, <2>2 DEF ExtendExpiry
<1>4. ASSUME NEW c \in Callers, Logout(c) PROVE LeavesRevokedRows
  <2>1. call[c].id \in Sessions /\ call[c].at \in Time
    BY <1>4 DEF Logout, At, SessionInv, TypeOK, CallsOK, CallOK, SessionPcs, Call
  <2>2. Revoke(call[c].id, call[c].at)
    BY <1>4 DEF Logout
  <2> QED BY <1>0, <2>1, <2>2, RevokeRows DEF LeavesRevokedRows
<1>5. ASSUME NEW c \in Callers, Step(c) PROVE LeavesRevokedRows
  BY <1>1, <1>2, <1>3, <1>4, <1>5
     DEF Step, CreateUser, Authenticate, GetUserByID, AuthMe, AuthLogout
<1>6. CASE \/ Tick \/ UNCHANGED vars \/ \E u \in Users : SetUserDisabled(u)
           \/ \E c \in Callers :
                 \/ CallFails(c) \/ \E u \in Users : cmdAdminCreate(c, u)
                 \/ \E u \in Users, s \in Sessions, ok \in BOOLEAN : Login(c, u, s, ok)
                 \/ \E cookie \in cookies \cup [id : Sessions, mac : {"other"}],
                       for \in {"me", "logout"} : SessionResolver(c, cookie, for)
  BY <1>1, <1>6 DEF Tick, vars, SetUserDisabled, CallFails, cmdAdminCreate, Login, SessionResolver
<1> QED BY <1>5, <1>6 DEF Next

\* Sessions end for every policy and however many requests slide them: every accepted request
\* is within both lifetimes, and a revoked session's row is final.
THEOREM SessionsEndHolds == Spec => SessionsEnd
<1>1. SessionInv /\ [Next]_vars => [AcceptsWithinPolicy /\ LeavesRevokedRows]_vars
  <2> SUFFICES ASSUME SessionInv, [Next]_vars PROVE AcceptsWithinPolicy /\ LeavesRevokedRows
    OBVIOUS
  <2>1. AcceptsWithinPolicy
    BY OnlyAuthenticateAccepts, AcceptedWithinPolicy DEF AcceptsWithinPolicy
  <2> QED BY <2>1, RevokedRowsStay
<1> QED BY SessionInvHolds, <1>1, PTL DEF Spec, SessionsEnd
=============================================================================
