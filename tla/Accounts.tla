------------------------------- MODULE Accounts -------------------------------
(***************************************************************************)
(* Who may sign in and as what: the accounts of one institution, their     *)
(* sessions (live refresh tokens), and its roles.  A request is a          *)
(* coroutine that may be preempted at each database call.                  *)
(* Source: app/modules/auth/service.py and app/modules/users/service.py.   *)
(*                                                                         *)
(* A password is known here by its epoch: how often the account's has been *)
(* replaced, by whatever request, or the account closed.  A session has    *)
(* the epoch of the credentials it was opened with; since[u] is the epoch  *)
(* of the last that ended u's sessions.  A role's permissions are what was *)
(* shipped, an outdated version of it, or what the institution made them.  *)
(* `excused` is a history variable: what overlapping or failed requests    *)
(* have put out of order, see Accounts' properties.                        *)
(*                                                                         *)
(* A definition just above another with its parameters, and used nowhere,  *)
(* is the slip a programmer could have made there.                         *)
(***************************************************************************)
EXTENDS Integers, FiniteSets, FiniteSetsExt

CONSTANTS Users, Roles, Desks,        \* Desks: the requests under way at once
          OwnerRole, Managers,        \* the roles with users:* and roles:*
          PortalRoles, BuiltIn,
          Founders,                   \* the accounts there at the start
          FailProne,                  \* desks an error may end
          Attempts, Seats,            \* MAX_FAILED_ATTEMPTS, max_admin_users
          Grants,                     \* bound: the sets of roles given
          Scenarios,                  \* bound: what is asked together, and
                                      \* about which accounts and roles
          MaxSessions, MaxEpoch       \* bounds

ASSUME AccountsAssumption ==
    /\ OwnerRole \in Managers /\ OwnerRole \in BuiltIn
    /\ Managers \cup BuiltIn \cup PortalRoles \subseteq Roles
    /\ Founders \subseteq Users /\ Founders # {} /\ IsFiniteSet(Founders)
    /\ FailProne \subseteq Desks
    /\ Grants \subseteq (SUBSET Roles) \ {{}}
    /\ Attempts \in Nat \ {0} /\ Seats \in Nat
    /\ MaxSessions \in Nat /\ MaxEpoch \in Nat

VARIABLES
    user, role,    \* the accounts, by person, and the roles
    session,       \* sessions not revoked, a partial function of their id
    epoch, since,  \* history: see above
    pc, req,       \* per desk: the next database call, its locals
    asked,         \* bound: the scenario of this behaviour
    excused        \* history: see above

vars == <<user, role, session, epoch, since, pc, req, asked, excused>>

-----------------------------------------------------------------------------
User == [there : BOOLEAN, active : BOOLEAN, status : {"invited", "active"},
         roles : SUBSET Roles, failed : 0..Attempts, locked : BOOLEAN,
         reset : BOOLEAN, invite : BOOLEAN]   \* is a link outstanding?

Role == [there : BOOLEAN, deleted : BOOLEAN, edited : BOOLEAN,
         perms : {"shipped", "outdated", "theirs"}, count : Int]

Session == [user : Users, born : 0..MaxEpoch]

NoRequest == [crossed |-> {}]

\* A request's locals, with those it has just got.
Also(f, g) == [x \in DOMAIN f \cup DOMAIN g |->
                 IF x \in DOMAIN f THEN f[x] ELSE g[x]]

Idle(h)         == pc[h] = "idle"
Goto(h, label)  == pc' = [pc EXCEPT ![h] = label]
Finish(h)       == /\ Goto(h, "idle")
                   /\ req' = [req EXCEPT ![h] = NoRequest]

\* A request that changed account u has crossed every other under way.
Crossing(h, u, own) ==
    [g \in Desks |-> IF g = h THEN own
                     ELSE IF Idle(g) THEN req[g]
                     ELSE [req[g] EXCEPT !.crossed = req[g].crossed \cup {u}]]

Excuse(when, topic) == excused' = IF when THEN excused \cup {topic} ELSE excused

Owners(people)  == {u \in people : user[u].there /\ OwnerRole \in user[u].roles}
Holders(r)      == {u \in Users : user[u].there /\ r \in user[u].roles}
OwnersLeft      == Cardinality(Owners(Users))
OwnerCount      == Cardinality({u \in Owners(Users) : user[u].active})

\* get_current_auth, with the permissions the users router asks for.
Authorised(u) ==
    /\ user[u].there /\ user[u].active
    /\ \E r \in user[u].roles \cap Managers : ~role[r].deleted

SeatsTaken == Cardinality({u \in Users : user[u].there /\ user[u].active
                                         /\ user[u].roles \cap PortalRoles = {}})

-----------------------------------------------------------------------------
(* Signing in and out.                                                     *)

\* The bounds: a request is not begun that could need more.
FreeSessions == (1..MaxSessions) \ DOMAIN session
MayIssue     == Cardinality({h \in Desks : pc[h] \in
                               {"enter", "issue", "rotate", "holder", "accept"}})
                  < Cardinality(FreeSessions)
About(u)     == {h \in Desks : "user" \in DOMAIN req[h] /\ req[h].user = u}
MayRenew(u)  == epoch[u] + Cardinality(About(u)) < MaxEpoch

\* Bounds too: within the scenario, and while there is something to say.
May(op, subject) ==
    op \in asked.ops /\ subject \in asked.about /\ excused = {}

Start(h, op, subject, label, locals) ==
    /\ Idle(h) /\ May(op, subject)
    /\ Goto(h, label)
    /\ req' = [req EXCEPT ![h] = locals]
    /\ UNCHANGED <<user, role, session, epoch, since, asked, excused>>

\* A locked or closed account is refused, the latter once it knows the
\* password.
SignIn(h, u, right) ==
    /\ user[u].there /\ ~user[u].locked
    /\ right => (user[u].active /\ MayIssue)
    /\ Start(h, IF right THEN "sign in" ELSE "miss", u,
             IF right THEN "enter" ELSE "miss",
             [crossed |-> {}, user |-> u, born |-> epoch[u],
              tries |-> user[u].failed + 1])

Revoking(u) == {h \in Desks : pc[h] = "revoke" /\ req[h].user = u}

RecordMiss(h) ==
    LET lock == req[h].tries >= Attempts IN
    /\ pc[h] = "miss"
    /\ user' = [user EXCEPT
         ![req[h].user].failed = IF lock THEN 0 ELSE req[h].tries,
         ![req[h].user].locked = lock \/ user[req[h].user].locked]
    /\ Finish(h)
    /\ UNCHANGED <<role, session, epoch, since, asked, excused>>

RecordSignIn(h) ==
    /\ pc[h] = "enter"
    /\ user' = [user EXCEPT ![req[h].user].failed = 0,
                            ![req[h].user].locked = FALSE,
                            ![req[h].user].status = "active"]
    /\ Goto(h, "issue")
    /\ UNCHANGED <<role, session, epoch, since, req, asked, excused>>

IssueTokens(h) ==
    /\ pc[h] = "issue"
    /\ LET s == Min(FreeSessions) IN
         session' = [t \in DOMAIN session \cup {s} |->
             IF t = s THEN [user |-> req[h].user, born |-> req[h].born]
             ELSE session[t]]
    /\ Excuse(req[h].user \in req[h].crossed /\ Revoking(req[h].user) = {},
              "sessions")
    /\ Finish(h)
    /\ UNCHANGED <<user, role, epoch, since, asked>>

LockExpires(u) ==
    /\ user[u].locked
    /\ user' = [user EXCEPT ![u].locked = FALSE]
    /\ UNCHANGED <<role, session, epoch, since, pc, req, asked, excused>>

\* rotate_refresh_token: one revoked is refused.
Refresh(h, s) ==
    /\ s \in DOMAIN session /\ MayIssue
    /\ Start(h, "refresh", session[s].user, "rotate",
             [crossed |-> {}, user |-> session[s].user, born |-> session[s].born,
              session |-> s])

Without(gone) == [s \in DOMAIN session \ gone |-> session[s]]

RevokeRotated(h) ==
    /\ pc[h] = "rotate"
    /\ session' = Without({req[h].session})
    /\ Goto(h, "holder")
    /\ UNCHANGED <<user, role, epoch, since, req, asked, excused>>

StillWelcome(u) == user[u].there /\ user[u].active

CheckHolder(h) ==
    /\ pc[h] = "holder"
    /\ IF StillWelcome(req[h].user) THEN Goto(h, "issue") /\ UNCHANGED req
       ELSE Finish(h)
    /\ UNCHANGED <<user, role, session, epoch, since, asked, excused>>

SessionsOf(u) == {s \in DOMAIN session : session[s].user = u}

SignOut(gone) ==
    /\ "sign out" \in asked.ops
    /\ gone # {}
    /\ session' = Without(gone)
    /\ UNCHANGED <<user, role, epoch, since, pc, req, asked, excused>>

-----------------------------------------------------------------------------
(* Passwords and invitations.                                              *)

\* Whoever changes or resets a password has proved to know the old one, or
\* to hold the link, when the request read the account.
ChangePassword(h, u) ==
    /\ StillWelcome(u) /\ MayRenew(u)
    /\ Start(h, "change password", u, "change", [crossed |-> {}, user |-> u])

StartReset(u) ==
    /\ May("reset password", u)
    /\ user[u].there
    /\ user' = [user EXCEPT ![u].reset = TRUE]
    /\ UNCHANGED <<role, session, epoch, since, pc, req, asked, excused>>

FinishReset(h, u) ==
    /\ user[u].there /\ user[u].reset /\ MayRenew(u)
    /\ Start(h, "reset password", u, "reset", [crossed |-> {}, user |-> u])

\* The first of the two updates of a new password or a closed account; what
\* was let in under the old credentials is revoked by the second.
Renew(h, account) ==
    LET u == req[h].user IN
    /\ user' = [user EXCEPT ![u] = account]
    /\ epoch' = [epoch EXCEPT ![u] = epoch[u] + 1]
    /\ since' = [since EXCEPT ![u] = epoch[u] + 1]
    /\ req' = Crossing(h, u, req[h])
    /\ Goto(h, "revoke")
    /\ UNCHANGED <<role, session, asked>>

StoreChange(h) ==
    /\ pc[h] = "change"
    /\ Renew(h, user[req[h].user])
    /\ UNCHANGED excused

\* finish_password_reset leaves the count of failed attempts.
StoreReset(h) ==
    /\ pc[h] = "reset"
    /\ Renew(h, [user[req[h].user] EXCEPT
                   !.status = "active", !.reset = FALSE, !.locked = FALSE])
    /\ UNCHANGED excused

\* reset_user_password; resend_invite too.
StoreTemporary(h) ==
    /\ pc[h] = "temporary"
    /\ IF user[req[h].user].there
       THEN Renew(h, [user[req[h].user] EXCEPT !.failed = 0, !.locked = FALSE])
       ELSE Finish(h) /\ UNCHANGED <<user, role, session, epoch, since, asked>>
    /\ UNCHANGED excused

ThisSession(u)  == {s \in SessionsOf(u) : \A t \in SessionsOf(u) : s <= t}
Revoked(u)      == SessionsOf(u)

RevokeAll(h) ==
    /\ pc[h] = "revoke"
    /\ session' = Without(Revoked(req[h].user))
    /\ req' = Crossing(h, req[h].user, NoRequest)
    /\ Goto(h, "idle")
    /\ UNCHANGED <<user, role, epoch, since, asked, excused>>

AcceptInvite(h, u) ==
    /\ user[u].there /\ user[u].invite /\ MayIssue /\ MayRenew(u)
    /\ Start(h, "accept invite", u, "accept", [crossed |-> {}, user |-> u])

\* Opens a closed account too.  The password is a new one, and yet no session
\* is revoked.
StoreAccepted(h) ==
    LET u == req[h].user IN
    /\ pc[h] = "accept"
    /\ user' = [user EXCEPT ![u].status = "active", ![u].active = TRUE,
                            ![u].invite = FALSE]
    /\ epoch' = [epoch EXCEPT ![u] = epoch[u] + 1]
    /\ req' = [req EXCEPT ![h] = [crossed |-> {}, user |-> u, born |-> epoch[u] + 1]]
    /\ Goto(h, "issue")
    /\ UNCHANGED <<role, session, since, asked, excused>>

-----------------------------------------------------------------------------
(* Administration: what is wanted, by whom, and whether an owner wants it, *)
(* as authorised before the handler's own first call.                      *)

Wants ==
    [op : {"create"}, user : Users, roles : Grants, invited : BOOLEAN]
    \cup [op : {"credentials"}, user : Users, roles : {{r} : r \in Roles}]
    \cup [op : {"temporary"}, user : Users]
    \cup [op : {"set active"}, user : Users, active : BOOLEAN]
    \cup [op : {"set roles"}, user : Users, roles : Grants]
    \cup [op : {"create role", "edit role", "delete role"}, role : Roles]
    \cup {[op |-> "sync roles", role |-> OwnerRole]}

Subject(want) == IF "user" \in DOMAIN want THEN want.user ELSE want.role

Ask(h, by, want) ==
    /\ Authorised(by)
    /\ want.op = "set active" => (want.user # by \/ want.active)
    /\ want.op \in {"create", "credentials", "set roles"} =>
         \A r \in want.roles : role[r].there
    /\ want.op \in {"credentials", "temporary", "set active"} =>
         MayRenew(want.user)
    /\ Start(h, want.op, Subject(want), want.op,
             Also(want, [crossed |-> {}, asOwner |-> OwnerRole \in user[by].roles]))

Reads(h) == UNCHANGED <<user, role, session, epoch, since, asked, excused>>

\* create_user: the address, then the roles, then the seats.
CheckAddress(h) ==
    /\ pc[h] = "create"
    /\ IF user[req[h].user].there THEN Finish(h)
       ELSE Goto(h, "roles") /\ UNCHANGED req
    /\ Reads(h)

ReadRoles(h) ==
    LET given == {r \in req[h].roles : ~role[r].deleted} IN
    /\ pc[h] = "roles"
    /\ IF given = {} \/ (OwnerRole \in given /\ ~req[h].asOwner)
       THEN Finish(h)
       ELSE /\ Goto(h, IF given \cap PortalRoles = {} THEN "seats" ELSE "insert")
            /\ req' = [req EXCEPT ![h].roles = given]
    /\ Reads(h)

EnforceAdminSeats(h) ==
    /\ pc[h] = "seats"
    /\ IF SeatsTaken >= Seats THEN Finish(h) ELSE Goto(h, "insert") /\ UNCHANGED req
    /\ Reads(h)

\* The index on the address turns a second account into a conflict.
InsertUser(h) ==
    LET u == req[h].user IN
    /\ pc[h] = "insert"
    /\ IF user[u].there THEN Finish(h) /\ UNCHANGED user ELSE
         /\ user' = [user EXCEPT ![u] =
              [there |-> TRUE, active |-> TRUE,
               status |-> IF req[h].invited THEN "invited" ELSE "active",
               roles |-> req[h].roles, failed |-> 0, locked |-> FALSE,
               reset |-> FALSE, invite |-> FALSE]]
         /\ Goto(h, "count")
         /\ UNCHANGED req
    /\ UNCHANGED <<role, session, epoch, since, asked, excused>>

Recounted(rs, by) ==
    [r \in Roles |-> IF r \in rs THEN [role[r] EXCEPT !.count = role[r].count + by]
                     ELSE role[r]]

CountNewUser(h) ==
    /\ pc[h] = "count"
    /\ role' = Recounted(req[h].roles, 1)
    /\ IF req[h].invited THEN Goto(h, "invite") /\ UNCHANGED req ELSE Finish(h)
    /\ UNCHANGED <<user, session, epoch, since, asked, excused>>

\* create_invite_token.
StoreInvite(h) ==
    /\ pc[h] = "invite"
    /\ user' = [user EXCEPT ![req[h].user].invite = TRUE,
                            ![req[h].user].status = "invited"]
    /\ Finish(h)
    /\ UNCHANGED <<role, session, epoch, since, asked, excused>>

\* send_credentials: an account is made, invited again, or reset.
SendCredentials(h) ==
    LET u == user[req[h].user] IN
    /\ pc[h] = "credentials"
    /\ Goto(h, CASE ~u.there -> "create" [] u.status = "invited" -> "renew"
                 [] OTHER -> "temporary")
    /\ req' = [req EXCEPT ![h] = Also(req[h], [invited |-> TRUE])]
    /\ Reads(h)

\* A new password, as with "temporary", but the sessions stay.
RenewInvitation(h) ==
    LET u == req[h].user IN
    /\ pc[h] = "renew"
    /\ user' = [user EXCEPT ![u].failed = 0, ![u].locked = FALSE]
    /\ epoch' = [epoch EXCEPT ![u] = epoch[u] + 1]
    /\ Goto(h, "invite")
    /\ UNCHANGED <<role, session, since, req, asked, excused>>

-----------------------------------------------------------------------------
(* Roles of an account, and whether it is open.                            *)

\* Nobody checks the roles are not deleted.
ReadHeld(h) ==
    LET u == user[req[h].user]  new == req[h].roles IN
    /\ pc[h] = "set roles"
    /\ IF ~u.there \/ (OwnerRole \in new /\ ~req[h].asOwner) THEN Finish(h)
       ELSE /\ Goto(h, IF OwnerRole \in u.roles \ new THEN "other owners" ELSE "minus")
            /\ req' = [req EXCEPT ![h] = Also(req[h], [held |-> u.roles])]
    /\ Reads(h)

ReadAccount(h) ==
    LET u == user[req[h].user] IN
    /\ pc[h] = "set active"
    /\ IF ~u.there THEN Finish(h)
       ELSE /\ Goto(h, IF ~req[h].active /\ OwnerRole \in u.roles
                       THEN "other owners" ELSE "switch")
            /\ UNCHANGED req
    /\ Reads(h)

NoOtherOwner(h)  == OwnersLeft <= 1
LastOwner(h)     == OwnerCount <= 1

CheckOtherOwners(h) ==
    /\ pc[h] = "other owners"
    /\ IF LastOwner(h) THEN Finish(h)
       ELSE /\ Goto(h, IF req[h].op = "set roles" THEN "minus" ELSE "switch")
            /\ UNCHANGED req
    /\ Reads(h)

\* What an overlapping change of the same account makes of the counts, and
\* of any account of the last owner.
Overlapped(h) ==
    excused \cup (IF req[h].crossed # {} THEN {"owners"} ELSE {})
            \cup (IF req[h].user \in req[h].crossed THEN {"counts"} ELSE {})

Dropped(h)  == req[h].held \ req[h].roles
Held(h)     == req[h].held

CountDown(h) ==
    /\ pc[h] = "minus"
    /\ role' = Recounted(Held(h), -1)
    /\ Goto(h, "plus")
    /\ UNCHANGED <<user, session, epoch, since, req, asked, excused>>

CountUp(h) ==
    /\ pc[h] = "plus"
    /\ role' = Recounted(req[h].roles, 1)
    /\ Goto(h, "store roles")
    /\ UNCHANGED <<user, session, epoch, since, req, asked, excused>>

StoreRoles(h) ==
    LET u == req[h].user IN
    /\ pc[h] = "store roles"
    /\ user' = [user EXCEPT ![u].roles = req[h].roles]
    /\ excused' = Overlapped(h)
    /\ req' = Crossing(h, u, NoRequest)
    /\ Goto(h, "idle")
    /\ UNCHANGED <<role, session, epoch, since, asked>>

Switch(h) ==
    LET u == req[h].user IN
    /\ pc[h] = "switch"
    /\ IF req[h].active
       THEN /\ user' = [user EXCEPT ![u].active = TRUE]
            /\ Finish(h)
            /\ UNCHANGED <<role, session, epoch, since, asked, excused>>
       ELSE /\ Renew(h, [user[u] EXCEPT !.active = FALSE])
            /\ excused' = Overlapped(h)

-----------------------------------------------------------------------------
(* The roles themselves.                                                   *)

\* The check of the key and the index on it are one step.
CreateRole(h) ==
    LET r == req[h].role IN
    /\ pc[h] = "create role"
    /\ role' = IF role[r].there THEN role
               ELSE [role EXCEPT ![r] = [there |-> TRUE, deleted |-> FALSE,
                       edited |-> FALSE, perms |-> "theirs", count |-> 0]]
    /\ Finish(h)
    /\ UNCHANGED <<user, session, epoch, since, asked, excused>>

Syncing(r) == {h \in Desks : pc[h] = "sync" /\ r \in req[h].todo}

UpdateRole(h) ==
    LET r == req[h].role IN
    /\ pc[h] = "edit role"
    /\ role' = IF ~role[r].there \/ r = OwnerRole THEN role
               ELSE [role EXCEPT ![r].perms = "theirs", ![r].edited = TRUE]
    /\ Excuse(Syncing(r) # {}, "edits")
    /\ Finish(h)
    /\ UNCHANGED <<user, session, epoch, since, asked>>

CheckUnused(h) ==
    LET r == req[h].role IN
    /\ pc[h] = "delete role"
    /\ IF role[r].there /\ r \notin BuiltIn /\ Holders(r) = {}
       THEN Goto(h, "drop") /\ UNCHANGED req ELSE Finish(h)
    /\ Reads(h)

DropRole(h) ==
    /\ pc[h] = "drop"
    /\ role' = [role EXCEPT ![req[h].role].deleted = TRUE]
    /\ Finish(h)
    /\ UNCHANGED <<user, session, epoch, since, asked, excused>>

Outdated  == {r \in BuiltIn \ {OwnerRole} : role[r].perms # "shipped"}
ToSync    == {r \in Outdated : ~role[r].edited}

ReadBuiltIn(h) ==
    /\ pc[h] = "sync roles"
    /\ Goto(h, "sync")
    /\ req' = [req EXCEPT ![h] = [crossed |-> {}, todo |-> ToSync]]
    /\ Reads(h)

SyncRole(h) ==
    /\ pc[h] = "sync"
    /\ IF req[h].todo = {} THEN Finish(h) /\ UNCHANGED role ELSE
         \E r \in req[h].todo :
           /\ role' = [role EXCEPT ![r].perms = "shipped"]
           /\ req' = [req EXCEPT ![h].todo = req[h].todo \ {r}]
           /\ UNCHANGED pc
    /\ UNCHANGED <<user, session, epoch, since, asked, excused>>

-----------------------------------------------------------------------------
\* A database call raises, or the process dies, between two of a request's
\* updates.
Abort(h) ==
    /\ ~Idle(h) /\ h \in FailProne
    /\ excused' = excused
         \cup (IF pc[h] \in {"count", "plus", "store roles"} THEN {"counts"} ELSE {})
         \cup (IF pc[h] = "revoke" THEN {"sessions"} ELSE {})
    /\ Finish(h)
    /\ UNCHANGED <<user, role, session, epoch, since, asked>>

Init ==
    /\ user = [u \in Users |->
         [there |-> u \in Founders, active |-> TRUE, status |-> "active",
          roles |-> IF u \in Founders THEN {OwnerRole} ELSE {}, failed |-> 0,
          locked |-> FALSE, reset |-> FALSE, invite |-> FALSE]]
    /\ role = [r \in Roles |->
         [there |-> r \in BuiltIn, deleted |-> FALSE, edited |-> FALSE,
          perms |-> "outdated",
          count |-> IF r = OwnerRole THEN Cardinality(Founders) ELSE 0]]
    /\ session = [s \in {} |-> {}]
    /\ epoch = [u \in Users |-> 0] /\ since = [u \in Users |-> 0]
    /\ pc = [h \in Desks |-> "idle"]
    /\ req = [h \in Desks |-> NoRequest]
    /\ asked \in Scenarios
    /\ excused = {}

Visit(h) ==
    \E u \in Users : \/ \E right \in BOOLEAN : SignIn(h, u, right)
                     \/ ChangePassword(h, u) \/ FinishReset(h, u)
                     \/ AcceptInvite(h, u)
                     \/ \E want \in Wants : Ask(h, u, want)

Continue(h) ==
    \/ RecordMiss(h) \/ RecordSignIn(h) \/ IssueTokens(h) \/ RevokeRotated(h)
    \/ CheckHolder(h) \/ StoreChange(h) \/ StoreReset(h) \/ StoreTemporary(h)
    \/ RevokeAll(h) \/ StoreAccepted(h) \/ CheckAddress(h) \/ ReadRoles(h)
    \/ EnforceAdminSeats(h) \/ InsertUser(h) \/ CountNewUser(h) \/ StoreInvite(h)
    \/ SendCredentials(h) \/ RenewInvitation(h) \/ ReadHeld(h) \/ ReadAccount(h)
    \/ CheckOtherOwners(h) \/ CountDown(h) \/ CountUp(h) \/ StoreRoles(h)
    \/ Switch(h) \/ CreateRole(h) \/ UpdateRole(h) \/ CheckUnused(h)
    \/ DropRole(h) \/ ReadBuiltIn(h) \/ SyncRole(h) \/ Abort(h)

Next ==
    \/ \E h \in Desks : Visit(h) \/ Continue(h)
    \/ \E h \in Desks, s \in DOMAIN session : Refresh(h, s)
    \/ \E s \in DOMAIN session : SignOut({s})
    \/ \E u \in Users : SignOut(SessionsOf(u)) \/ StartReset(u) \/ LockExpires(u)

Spec == Init /\ [][Next]_vars

-----------------------------------------------------------------------------
(* Properties.                                                             *)

\* Some open account holds the owner role, as docs/ARCHITECTURE.md promises.
OwnerRemains == OwnerCount >= 1

\* And it does as long as no two changes of accounts overlapped: the guard
\* of update_user_roles and set_user_active counts what it must.
LastOwnerKept == "owners" \notin excused => OwnerRemains

\* A role's user_count is how many hold it, once no request is half way
\* through create_user or update_user_roles, unless two overlapped on one
\* account or one was lost half way.
UserCountsMatch ==
    ("counts" \notin excused
       /\ \A h \in Desks : pc[h] \notin {"count", "plus", "store roles"})
    => \A r \in Roles : role[r].there => role[r].count = Cardinality(Holders(r))

\* A live session was opened no earlier than the last change, reset, temporary
\* password or closure of its account, which is open: each of these ends every
\* session.  A password set by accepting an invitation, or sent by renewing
\* one, ends none and does not count: a session may outlive it, whatever
\* README.md says of a changed password.
SessionsEnd ==
    \A s \in DOMAIN session :
        LET u == session[s].user IN
        Revoking(u) = {} => since[u] <= session[s].born /\ user[u].active

\* And so it is as long as none was issued by a request that had read the
\* account or its token before the sessions were revoked, or was to be revoked
\* by one that failed.
SessionsAreCurrent == "sessions" \notin excused => SessionsEnd

\* What an institution made of a shipped role is never overwritten by
\* sync_builtin_roles, unless edited while that was at work.
EditedRolesKept ==
    "edits" \notin excused =>
        \A r \in Roles : role[r].edited => role[r].perms = "theirs"

\* Roles count their holders and keep what the institution made of them.
RolesInOrder == UserCountsMatch /\ EditedRolesKept
===============================================================================
