------------------------------ MODULE UserAdmin ------------------------------
(***************************************************************************)
(* User administration: services/user_admin.py behind api/users.py, with    *)
(* requests of several administrators at once.  Each request runs in one     *)
(* READ COMMITTED transaction whose writes are flushed by its commit (the    *)
(* session does not autoflush), so it reads in steps and writes at the end.  *)
(* The schema has no unique constraint on users.email.                       *)
(***************************************************************************)
EXTENDS Naturals, Sequences, FiniteSets

CONSTANTS
    Members,      \* users that exist at the start
    Newcomers,    \* users that may be created, one by a request at most
    Orgs,
    OrgOf,        \* [Members -> Orgs]
    Emails,
    EmailOf,      \* [Members -> Emails]
    Requests,
    Passwords,
    FirstPassword, \* of every member at the start
    NoOne         \* no user, no value

Users == Members \union Newcomers
Roles == {"admin", "reviewer"}
Kinds == {"create", "update", "set_password", "change_own_password"}

ASSUME MembersAssumption ==
    /\ OrgOf \in [Members -> Orgs]
    /\ EmailOf \in [Members -> Emails]
    /\ \A u, v \in Members : EmailOf[u] = EmailOf[v] => u = v
    /\ \A o \in Orgs : \E u \in Members : OrgOf[u] = o
    /\ Members \intersect Newcomers = {}
    /\ FirstPassword \in Passwords
    /\ NoOne \notin Users \union Emails \union Passwords \union Roles

VARIABLES
    users,     \* [Users -> UserRow or NoOne]: committed rows
    trail,     \* committed audit entries, in the order of their commits
    pc,        \* [Requests -> Stage]
    req,       \* [Requests -> what is asked, or NoOne]
    loaded,    \* [Requests -> the row of the target as the session holds it]
    changes,   \* [Requests -> the attributes the request is to write]
    began,     \* [Requests -> when its transaction began (now() in it), 0 before]
    raced      \* history: <<r, s>> where s committed while r was under way

vars == <<users, trail, pc, req, loaded, changes, began, raced>>

UserRow == [org : Orgs, email : Emails, role : Roles, password : Passwords]
Stage == {"new", "authenticated", "email", "role", "flush", "done", "refused"}
NoChange == [email |-> NoOne, role |-> NoOne, password |-> NoOne]

Asked == [kind : Kinds, actor : Users, target : Users, email : Emails \union {NoOne},
          role : Roles \union {NoOne}, password : Passwords \union {NoOne},
          current : Passwords \union {NoOne}]
Changes == [email : Emails \union {NoOne}, role : Roles \union {NoOne},
            password : Passwords \union {NoOne}]

ASSUME NoOneAssumption == NoOne \notin UserRow \union Asked

Existing == {u \in Users : users[u] # NoOne}
UnderWay == {r \in Requests : pc[r] \notin {"new", "done", "refused"}}

Init ==
    /\ users = [u \in Users |->
                   IF u \in Members
                   THEN [org |-> OrgOf[u], email |-> EmailOf[u], role |-> "admin",
                         password |-> FirstPassword]
                   ELSE NoOne]
    /\ trail = <<>>
    /\ pc = [r \in Requests |-> "new"]
    /\ req = [r \in Requests |-> NoOne]
    /\ loaded = [r \in Requests |-> NoOne]
    /\ changes = [r \in Requests |-> NoChange]
    /\ began = [r \in Requests |-> 0]
    /\ raced = {}

Goto(r, s) == pc' = [pc EXCEPT ![r] = s]
Org(r) == users[req[r].actor].org

-----------------------------------------------------------------------------
(* api/auth.py: get_current_user and require_roles; api/users.py *)

\* The actor's row decides, not the role in the token.
Permitted(actor, kind) == kind = "change_own_password" \/ users[actor].role = "admin"

\* A session loads a row once: an actor who is the target stays as read here.
Authenticate(r) ==
    /\ pc[r] = "new"
    /\ \E actor \in Existing, kind \in Kinds, target \in Users, email \in Emails \union {NoOne},
          role \in Roles \union {NoOne}, password, current \in Passwords \union {NoOne} :
          /\ Permitted(actor, kind)
          /\ kind = "create" => /\ target \in Newcomers
                                /\ \A s \in Requests : req[s] # NoOne => req[s].target # target
                                /\ NoOne \notin {email, role, password}
          /\ kind = "update" => target \in Existing /\ password = NoOne
          /\ kind = "set_password" => target \in Existing /\ password # NoOne
          /\ kind = "change_own_password" => target = actor /\ password # NoOne
          /\ kind \in {"set_password", "change_own_password"} => email = NoOne /\ role = NoOne
          /\ (current # NoOne) <=> (kind = "change_own_password")
          /\ req' = [req EXCEPT ![r] = [kind |-> kind, actor |-> actor, target |-> target,
                                        email |-> email, role |-> role, password |-> password, current |-> current]]
          /\ loaded' = [loaded EXCEPT ![r] = IF actor = target THEN users[actor] ELSE NoOne]
    /\ began' = [began EXCEPT ![r] = 1 + Cardinality({s \in Requests : began[s] > 0})]
    /\ Goto(r, "authenticated")
    /\ UNCHANGED <<users, trail, changes, raced>>

-----------------------------------------------------------------------------
(* services/user_admin.py *)

\* Seeded fault: the address is looked up among the organization's users only.
EmailTakenInOrg(r, email) ==
    \E u \in Existing : users[u].email = email /\ users[u].org = Org(r)

\* Email is unique globally, as the login identifier.
EmailTaken(r, email) == \E u \in Existing : users[u].email = email

\* _get_user_for_org matches the organization as well as the id.
Load(r) ==
    /\ pc[r] = "authenticated"
    /\ req[r].kind \in {"update", "set_password"}
    /\ IF users[req[r].target].org = Org(r)
       THEN /\ loaded' = [loaded EXCEPT ![r] = IF @ = NoOne THEN users[req[r].target] ELSE @]
            /\ Goto(r, IF req[r].kind = "update" THEN "email" ELSE "flush")
            /\ changes' = [changes EXCEPT ![r].password = req[r].password]
       ELSE /\ Goto(r, "refused")
            /\ UNCHANGED <<loaded, changes>>
    /\ UNCHANGED <<users, trail, req, began, raced>>

CheckEmail(r) ==
    LET email == req[r].email IN
    /\ pc[r] = "email"
    /\ IF email \in {NoOne, loaded[r].email}
       THEN Goto(r, "role") /\ UNCHANGED changes
       ELSE IF EmailTaken(r, email)
            THEN Goto(r, "refused") /\ UNCHANGED changes
            ELSE Goto(r, "role") /\ changes' = [changes EXCEPT ![r].email = email]
    /\ UNCHANGED <<users, trail, req, loaded, began, raced>>

\* Seeded fault: every administrator counts, whatever the organization.
LastAdminOfAll(r) == Cardinality({u \in Existing : users[u].role = "admin"}) = 1

\* admin_count == 1
LastAdmin(r) ==
    Cardinality({u \in Existing : users[u].role = "admin" /\ users[u].org = Org(r)}) = 1

\* Only the demotion of a row loaded as an administrator's is checked.
CheckRole(r) ==
    LET role == req[r].role IN
    /\ pc[r] = "role"
    /\ IF role \in {NoOne, loaded[r].role}
       THEN Goto(r, "flush") /\ UNCHANGED changes
       ELSE IF loaded[r].role = "admin" /\ LastAdmin(r)
            THEN Goto(r, "refused") /\ UNCHANGED changes
            ELSE Goto(r, "flush") /\ changes' = [changes EXCEPT ![r].role = role]
    /\ UNCHANGED <<users, trail, req, loaded, began, raced>>

CheckCreate(r) ==
    /\ pc[r] = "authenticated"
    /\ req[r].kind = "create"
    /\ IF EmailTaken(r, req[r].email)
       THEN Goto(r, "refused") /\ UNCHANGED changes
       ELSE /\ Goto(r, "flush")
            /\ changes' = [changes EXCEPT ![r] = [email |-> req[r].email, role |-> req[r].role,
                                                  password |-> req[r].password]]
    /\ UNCHANGED <<users, trail, req, loaded, began, raced>>

\* Seeded fault: a self-service change does not ask for the current password.
VerifiedAsByAdmin(r) == req[r].kind = "change_own_password"

\* change_own_password verifies against the row loaded at authentication.
Verified(r) == req[r].current = loaded[r].password

VerifyOwn(r) ==
    /\ pc[r] = "authenticated"
    /\ req[r].kind = "change_own_password"
    /\ IF Verified(r)
       THEN Goto(r, "flush") /\ changes' = [changes EXCEPT ![r].password = req[r].password]
       ELSE Goto(r, "refused") /\ UNCHANGED changes
    /\ UNCHANGED <<users, trail, req, loaded, began, raced>>

\* Seeded fault: of several changed fields only one is recorded.
EntryOfOneField(r) ==
    [by |-> r, user |-> req[r].target, kind |-> req[r].kind, email |-> changes[r].email,
     role |-> IF changes[r].email = NoOne THEN changes[r].role ELSE NoOne]

Entry(r) == [by |-> r, user |-> req[r].target, kind |-> req[r].kind,
             email |-> changes[r].email, role |-> changes[r].role]

\* Seeded fault: an update that changes nothing is audited with what it asked.
AuditAskedFor(r) ==
    trail' = Append(trail, [Entry(r) EXCEPT !.email = req[r].email, !.role = req[r].role])

\* The audit row of the same transaction holds what was written; no changes, no row.
Audit(r) == trail' = IF changes[r] = NoChange THEN trail ELSE Append(trail, Entry(r))

Written(old, new) == IF new = NoOne THEN old ELSE new

\* The UPDATE names the changed columns only, and no version: the last one wins.
Commit(r) ==
    LET u == req[r].target
        row == IF req[r].kind = "create"
               THEN [org |-> Org(r), email |-> changes[r].email, role |-> changes[r].role,
                     password |-> changes[r].password]
               ELSE [users[u] EXCEPT !.email = Written(@, changes[r].email),
                                     !.role = Written(@, changes[r].role),
                                     !.password = Written(@, changes[r].password)]
    IN  /\ pc[r] = "flush"
        /\ users' = [users EXCEPT ![u] = row]
        /\ Audit(r)
        /\ raced' = raced \union {<<s, r>> : s \in UnderWay \ {r}}
        /\ Goto(r, "done")
        /\ UNCHANGED <<req, loaded, changes, began>>

Finished == UnderWay = {} /\ UNCHANGED vars

Next ==
    \/ \E r \in Requests :
          \/ Authenticate(r) \/ Load(r) \/ CheckEmail(r) \/ CheckRole(r)
          \/ CheckCreate(r) \/ VerifyOwn(r) \/ Commit(r)
    \/ Finished

Spec == Init /\ [][Next]_vars

-----------------------------------------------------------------------------
(* Properties *)

TypeOK ==
    /\ users \in [Users -> UserRow \union {NoOne}]
    /\ pc \in [Requests -> Stage]
    /\ req \in [Requests -> Asked \union {NoOne}]
    /\ loaded \in [Requests -> UserRow \union {NoOne}]
    /\ changes \in [Requests -> Changes]
    /\ DOMAIN began = Requests
    /\ raced \subseteq Requests \X Requests

Raced(r, s) == <<r, s>> \in raced \/ <<s, r>> \in raced

\* An organization loses its last administrator only when two changes of its
\* users overlap (_ensure_not_last_admin_demoted counts committed rows).
AdminRemains ==
    \A o \in Orgs :
        (\A u \in Existing : users[u].org = o => users[u].role # "admin")
        => \E r, s \in Requests : /\ pc[r] = "done" /\ pc[s] = "done"
                                  /\ Org(r) = o /\ Org(s) = o
                                  /\ Raced(r, s)

\* Two users share the login identifier only when the two requests that wrote
\* it overlap (_ensure_email_available; no constraint backs it).
EmailsUnique ==
    \A u, v \in Existing :
        u # v /\ users[u].email = users[v].email
        => \E r, s \in Requests :
              /\ Raced(r, s)
              /\ changes[r].email = users[u].email /\ req[r].target \in {u, v}
              /\ pc[r] = "done" /\ pc[s] = "done"

\* The entries that name a role of the user's.
Naming(u) == {k \in 1..Len(trail) : trail[k].user = u /\ trail[k].role # NoOne}

\* Entry k tells the role of the user's row; without one it is that of the start.
Tells(u, k) == trail[k].role = users[u].role
Untold(u) == Naming(u) = {} /\ users[u].role = "admin"

\* What the audit trail says of a user's role is the row's role ("the user
\* table and its audit trail can never diverge"): the last committed entry that
\* names one tells it.
TrailMatchesRows ==
    \A u \in Existing :
        \/ Untold(u)
        \/ \E k \in Naming(u) : Tells(u, k) /\ \A j \in Naming(u) : j <= k

\* created_at is the time the transaction began, and the trail is read by it.
NoLater(j, k) == began[trail[j].by] <= began[trail[k].by]

\* Read newest first (api/audit_logs.py), the trail tells the row's role unless
\* two changes of the same user overlapped.
ReadTrailMatchesRows ==
    \A u \in Existing :
        \/ Untold(u)
        \/ \E k \in Naming(u) : Tells(u, k) /\ \A j \in Naming(u) : NoLater(j, k)
        \/ \E r, s \in Requests : Raced(r, s) /\ req[r].target = u /\ req[s].target = u

\* A self-service change replaces the password its caller proved to know, unless
\* another change of the same user overlapped (change_own_password).
OwnPasswordProven ==
    [][\A r \in Requests :
          (Commit(r) /\ req[r].kind = "change_own_password")
          => \/ req[r].current = users[req[r].actor].password
             \/ \E s \in Requests : <<r, s>> \in raced /\ req[s].target = req[r].actor]_vars

=============================================================================
