------------------------------ MODULE Sessions ------------------------------
(***************************************************************************)
(* Operator sessions (backend/internal/auth, the session middleware and    *)
(* their repositories): the bootstrap of an operator, login, the           *)
(* resolution of a session cookie with its sliding expiry, logout.         *)
(*                                                                         *)
(* A request reads the session, then the clock, then slides the expiry     *)
(* with an UPDATE of its own, then reads the user; none of this is a       *)
(* transaction, so other requests of the same session, a logout, and the   *)
(* clock run in between.  Login and logout each end in one transaction,    *)
(* which is one step here.                                                 *)
(***************************************************************************)
EXTENDS Naturals, FiniteSets

CONSTANTS
    Users, Sessions,     \* the rows that may be created
    Callers,
    Idle, Absolute,      \* SessionPolicy
    MaxClock,            \* bound of the model
    MaxRequests,         \* bound of the model: requests that are started
    MaxFaults,           \* bound of the model: requests that fail under way
    Nil

\* NewSessionPolicy refuses anything else.
ASSUME SessionPolicyAssumption ==
    /\ Idle \in Nat \ {0} /\ Absolute \in Nat /\ Absolute >= Idle
    /\ MaxClock \in Nat /\ MaxRequests \in Nat /\ MaxFaults \in Nat
    /\ Nil \notin Nat /\ Nil \notin Users \cup Sessions

VARIABLES
    clock,
    organizations,   \* whether the organization's row was provisioned, as {} or {"anchorix"}
    users,           \* the state of each operator
    lastLogin,       \* users.last_login_at
    sessions,        \* the sessions table; user is Nil for a row that is not there
    cookies,         \* the cookies that login responses delivered
    audit,           \* how often each event was written
    call,            \* the requests under way
    activity,        \* history: the times of login and of the passed checks of each session
    late,            \* history: requests whose session was over when they began
    requests, faults

userVars == <<organizations, users, lastLogin>>
historyVars == <<activity, late>>
boundVars == <<requests, faults>>

vars == <<clock, userVars, sessions, cookies, audit, call, historyVars, boundVars>>

Time == 0 .. MaxClock

Session == [user : Users \cup {Nil}, created : Time, expires : 0 .. MaxClock + Idle,
            revoked : Time \cup {Nil}]

NoSession == [user |-> Nil, created |-> 0, expires |-> 0, revoked |-> Nil]

Event == ({"auth.admin_created", "auth.login_failed"} \X Users)
         \cup ({"auth.login_succeeded", "auth.logout"} \X Sessions)

\* A cookie carries a session id and the MAC of the key it was signed with.
Cookie == [id : Sessions, mac : {"session key", "other"}]

\* A request under way: what it is for, the row it read and the time it took.
Call == [pc : {"idle", "create user", "create session", "check", "slide", "load user", "handle", "revoke"},
         for : {"admin", "login", "me", "logout", Nil},
         user : Users \cup {Nil}, id : Sessions \cup {Nil}, row : Session, at : Time]

NoCall == [pc |-> "idle", for |-> Nil, user |-> Nil, id |-> Nil, row |-> NoSession, at |-> 0]

Init ==
    /\ clock = 0 /\ organizations = {}
    /\ users = [u \in Users |-> "absent"] /\ lastLogin = [u \in Users |-> Nil]
    /\ sessions = [s \in Sessions |-> NoSession] /\ cookies = {}
    /\ audit = [e \in Event |-> 0]
    /\ call = [c \in Callers |-> NoCall]
    /\ activity = [s \in Sessions |-> {}] /\ late = {}
    /\ requests = 0 /\ faults = 0

----------------------------------------------------------------------------
(* Steps the requests share. *)

At(c, pc) == call[c].pc = pc

Go(c, rec) == call' = [call EXCEPT ![c] = rec]

Return(c) == Go(c, NoCall)

Begin(c, rec) ==
    /\ At(c, "idle") /\ requests < MaxRequests
    /\ requests' = requests + 1
    /\ Go(c, rec)
    /\ UNCHANGED <<clock, faults>>

Continue == UNCHANGED <<clock, boundVars>>

Record(action, target) == audit' = [audit EXCEPT ![<<action, target>>] = @ + 1]

Tick ==
    /\ clock < MaxClock /\ clock' = clock + 1
    /\ UNCHANGED <<userVars, sessions, cookies, audit, call, historyVars, boundVars>>

\* A request is cancelled, or a statement of it fails, or the server stops: what it had not
\* committed is gone.
CallFails(c) ==
    /\ ~ At(c, "idle") /\ faults < MaxFaults
    /\ faults' = faults + 1
    /\ Return(c)
    /\ late' = late \ {c}
    /\ UNCHANGED <<clock, userVars, sessions, cookies, audit, activity, requests>>

----------------------------------------------------------------------------
(* The bootstrap of an operator: anchorix admin create. *)

EnsureOrganization == organizations' = {"anchorix"}

\* The organization's row is committed on its own, before the operator's.
cmdAdminCreate(c, u) ==
    /\ Begin(c, [NoCall EXCEPT !.pc = "create user", !.for = "admin", !.user = u])
    /\ EnsureOrganization
    /\ UNCHANGED <<users, lastLogin, sessions, cookies, audit, historyVars>>

\* The INSERT of the operator: emails are unique and the organization has to be there.
insertUser(u) == users[u] = "absent" /\ organizations # {} /\ users' = [users EXCEPT ![u] = "enabled"]

\* Mutant of CreateUser: the event is written outside the transaction.
CreateUserAuditedApart(c) ==
    /\ At(c, "create user") /\ Continue /\ Return(c)
    /\ insertUser(call[c].user) \/ (users[call[c].user] # "absent" /\ UNCHANGED users)
    /\ Record("auth.admin_created", call[c].user)
    /\ UNCHANGED <<organizations, lastLogin, sessions, cookies, historyVars>>

CreateUser(c) ==
    /\ At(c, "create user") /\ Continue /\ Return(c)
    /\ \/ insertUser(call[c].user) /\ Record("auth.admin_created", call[c].user)
       \/ users[call[c].user] # "absent" /\ UNCHANGED <<users, audit>>
    /\ UNCHANGED <<organizations, lastLogin, sessions, cookies, historyVars>>

\* users.disabled is set in the database by hand: no code of the server writes it.
SetUserDisabled(u) ==
    /\ users[u] = "enabled" /\ users' = [users EXCEPT ![u] = "disabled"]
    /\ UNCHANGED <<clock, organizations, lastLogin, sessions, cookies, audit, call, historyVars, boundVars>>

----------------------------------------------------------------------------
(* Login. *)

\* Mutant of NextExpiry: the idle deadline alone.
NextExpiryUncapped(now, created) == now + Idle

NextExpiry(now, created) ==
    IF now + Idle < created + Absolute THEN now + Idle ELSE created + Absolute

\* The credentials: an unknown or disabled operator or a wrong password is refused.
GetUserByEmail(u, passwordMatches) == users[u] = "enabled" /\ passwordMatches

\* The event of a refused login is written if it can be: its error is dropped.
auditAuthFailure(u) == Record("auth.login_failed", u) \/ UNCHANGED audit

\* A session id that is in no row and in no login under way.
New(s) == sessions[s] = NoSession /\ \A c \in Callers : call[c].id # s

Login(c, u, s, passwordMatches) ==
    /\ \/ /\ GetUserByEmail(u, passwordMatches) /\ New(s)
          /\ Begin(c, [NoCall EXCEPT !.pc = "create session", !.for = "login", !.user = u, !.id = s,
                                     !.at = clock])
          /\ UNCHANGED audit
       \/ /\ ~ GetUserByEmail(u, passwordMatches)
          /\ Begin(c, NoCall)
          /\ auditAuthFailure(u)
    /\ UNCHANGED <<userVars, sessions, cookies, historyVars>>

insertSession(s, u, at) ==
    sessions' = [sessions EXCEPT ![s] = [user |-> u, created |-> at, expires |-> NextExpiry(at, at),
                                         revoked |-> Nil]]

UpdateLastLogin(u, at) == lastLogin' = [lastLogin EXCEPT ![u] = at]

Sign(s) == [id |-> s, mac |-> "session key"]

\* The handler answers a login with the signed cookie, which may be lost on its way.
AuthLogin(s) == cookies' \in {cookies, cookies \cup {Sign(s)}}

\* The session, the operator's last login and the event are one transaction.
CommitLogin(c) ==
    /\ At(c, "create session") /\ Continue /\ Return(c)
    /\ insertSession(call[c].id, call[c].user, call[c].at)
    /\ UpdateLastLogin(call[c].user, call[c].at)
    /\ Record("auth.login_succeeded", call[c].id)
    /\ AuthLogin(call[c].id)
    /\ activity' = [activity EXCEPT ![call[c].id] = {call[c].at}]
    /\ UNCHANGED <<organizations, users, late>>

----------------------------------------------------------------------------
(* A request with a session cookie. *)

Verify(cookie) == cookie.mac = "session key"

Get(s) == sessions[s].user # Nil /\ sessions[s].revoked = Nil

\* The request is worth nothing from the start: the session is over or its operator disabled.
IsOver(s) ==
    \/ sessions[s].user = Nil \/ sessions[s].revoked # Nil \/ clock >= sessions[s].expires
    \/ users[sessions[s].user] # "enabled"

\* The cookie is verified and its session read; otherwise the request goes on as nobody, and
\* RequireAuth refuses it.
SessionResolver(c, cookie, for) ==
    /\ \/ /\ Verify(cookie) /\ Get(cookie.id)
          /\ Begin(c, [NoCall EXCEPT !.pc = "check", !.for = for, !.id = cookie.id,
                                     !.row = sessions[cookie.id]])
          /\ late' = IF IsOver(cookie.id) THEN late \cup {c} ELSE late
       \/ ~ (Verify(cookie) /\ Get(cookie.id)) /\ Begin(c, NoCall) /\ UNCHANGED late
    /\ UNCHANGED <<userVars, sessions, cookies, audit, activity>>

IsActive(row, now) == row.revoked = Nil /\ now < row.expires

\* The request is refused: it goes on as nobody.
Refuse(c) == Return(c) /\ late' = late \ {c}

\* The row that was read is compared with the clock.  An expiry that would not change is not
\* written.
Authenticate(c) ==
    /\ At(c, "check") /\ Continue
    /\ \/ /\ IsActive(call[c].row, clock)
          /\ Go(c, [call[c] EXCEPT !.at = clock,
                       !.pc = IF NextExpiry(clock, call[c].row.created) = call[c].row.expires
                              THEN "load user" ELSE "slide"])
          /\ activity' = [activity EXCEPT ![call[c].id] = @ \cup {clock}]
          /\ UNCHANGED late
       \/ ~ IsActive(call[c].row, clock) /\ Refuse(c) /\ UNCHANGED activity
    /\ UNCHANGED <<userVars, sessions, cookies, audit>>

\* The UPDATE leaves a revoked row alone, and the request is then refused.
ExtendExpiry(c) ==
    /\ At(c, "slide") /\ Continue
    /\ \/ /\ sessions[call[c].id].revoked = Nil
          /\ sessions' = [sessions EXCEPT ![call[c].id].expires =
                                               NextExpiry(call[c].at, call[c].row.created)]
          /\ Go(c, [call[c] EXCEPT !.pc = "load user"])
          /\ UNCHANGED late
       \/ sessions[call[c].id].revoked # Nil /\ Refuse(c) /\ UNCHANGED sessions
    /\ UNCHANGED <<userVars, cookies, audit, activity>>

\* Mutant of GetUserByID: the disabled flag is not looked at.
GetUserByIDAnyState(c) ==
    /\ At(c, "load user") /\ Continue
    /\ Go(c, [call[c] EXCEPT !.pc = "handle"])
    /\ UNCHANGED <<late, userVars, sessions, cookies, audit, activity>>

\* The operator is read last.
GetUserByID(c) ==
    /\ At(c, "load user") /\ Continue
    /\ \/ /\ users[call[c].row.user] = "enabled"
          /\ Go(c, [call[c] EXCEPT !.pc = "handle"])
          /\ UNCHANGED late
       \/ users[call[c].row.user] # "enabled" /\ Refuse(c)
    /\ UNCHANGED <<userVars, sessions, cookies, audit, activity>>

\* A handler behind RequireAuth; AuthMe only answers.
AuthMe(c) ==
    /\ At(c, "handle") /\ call[c].for = "me" /\ Continue
    /\ Return(c) /\ late' = late \ {c}
    /\ UNCHANGED <<userVars, sessions, cookies, audit, activity>>

\* Logout takes the time before its transaction.
AuthLogout(c) ==
    /\ At(c, "handle") /\ call[c].for = "logout" /\ Continue
    /\ Go(c, [call[c] EXCEPT !.pc = "revoke", !.at = clock])
    /\ UNCHANGED <<userVars, sessions, cookies, audit, historyVars>>

\* Revoke keeps the time of the first logout.
Revoke(s, at) ==
    sessions' = [sessions EXCEPT ![s].revoked = IF @ = Nil THEN at ELSE @]

\* The revocation and its event; the answer blanks the browser's cookie, a copy lives on.
Logout(c) ==
    /\ At(c, "revoke") /\ Continue /\ Return(c)
    /\ Revoke(call[c].id, call[c].at)
    /\ Record("auth.logout", call[c].id)
    /\ late' = late \ {c}
    /\ UNCHANGED <<userVars, cookies, activity>>

----------------------------------------------------------------------------

Step(c) ==
    \/ CreateUser(c) \/ CommitLogin(c)
    \/ Authenticate(c) \/ ExtendExpiry(c) \/ GetUserByID(c)
    \/ AuthMe(c) \/ AuthLogout(c) \/ Logout(c)

Next ==
    \/ Tick
    \/ \E u \in Users : SetUserDisabled(u)
    \/ \E c \in Callers :
        \/ Step(c) \/ CallFails(c)
        \/ \E u \in Users : cmdAdminCreate(c, u) \/ (\E s \in Sessions, ok \in BOOLEAN : Login(c, u, s, ok))
        \/ \E cookie \in cookies \cup [id : Sessions, mac : {"other"}], for \in {"me", "logout"} :
              SessionResolver(c, cookie, for)

Spec == Init /\ [][Next]_vars

----------------------------------------------------------------------------
(* Properties. *)

TypeOK ==
    /\ clock \in Time /\ organizations \subseteq {"anchorix"}
    /\ users \in [Users -> {"absent", "enabled", "disabled"}]
    /\ lastLogin \in [Users -> Time \cup {Nil}]
    /\ sessions \in [Sessions -> Session] /\ cookies \subseteq Cookie
    /\ audit \in [Event -> Nat]
    /\ call \in [Callers -> Call]
    /\ activity \in [Sessions -> SUBSET Time] /\ late \subseteq Callers
    /\ requests \in 0 .. MaxRequests /\ faults \in 0 .. MaxFaults

\* A request that begins after its session was logged out or expired, or after its operator
\* was disabled, reaches no handler (Get, IsActive, GetUserByID).
OverIsOver == \A c \in late : call[c].pc \notin {"handle", "revoke"}

\* This step accepts no request outside the absolute lifetime of its session, or later than
\* the idle lifetime of an earlier accepted one.
AcceptsWithinPolicy ==
    \A c \in Callers :
        call[c].pc = "check" /\ call'[c].pc \in {"slide", "load user"}
        => /\ clock < sessions[call[c].id].created + Absolute
           /\ \E t \in activity[call[c].id] : clock < t + Idle

\* This step changes no row of a revoked session.
LeavesRevokedRows ==
    \A s \in Sessions : sessions[s].revoked # Nil => sessions'[s] = sessions[s]

\* Sessions end: whatever requests slide the expiry in whatever order, a request is accepted
\* only within both lifetimes (Authenticate, NextExpiry), and once a session is revoked a slide
\* that was under way does not move its expiry (ExtendExpiry) and a second logout does not
\* move the time of the first (Revoke).
SessionsEnd == [][AcceptsWithinPolicy /\ LeavesRevokedRows]_vars

\* The audit trail accounts for the tables: an operator and a session have one event of their
\* creation, a session is revoked exactly when a logout was recorded, and last_login_at is a
\* login of the operator.
AuditAccounts ==
    /\ \A u \in Users :
        /\ audit[<<"auth.admin_created", u>>] = (IF users[u] = "absent" THEN 0 ELSE 1)
        /\ lastLogin[u] # Nil => \E s \in Sessions : sessions[s].user = u /\ sessions[s].created = lastLogin[u]
    /\ \A s \in Sessions :
        /\ audit[<<"auth.login_succeeded", s>>] = (IF sessions[s].user = Nil THEN 0 ELSE 1)
        /\ (audit[<<"auth.logout", s>>] > 0) = (sessions[s].revoked # Nil)

\* The rows are well formed and the audit trail accounts for them, although the bootstrap,
\* logins and logouts may overlap or fail half way.
TablesAgree == TypeOK /\ AuditAccounts
=============================================================================
