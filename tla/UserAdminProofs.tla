-------------------------- MODULE UserAdminProofs --------------------------
(***************************************************************************)
(* The last administrator, the unique address and the proof of the old      *)
(* password fail only where requests overlap: proved for any organizations, *)
(* users and number of requests.                                            *)
(***************************************************************************)
EXTENDS UserAdmin, FiniteSetTheorems, TLAPS

Busy == {"authenticated", "email", "role", "flush"}
Target(r) == req[r].target
Creates(r) == req[r].kind = "create"

\* s committed while r was under way.
Overtook(s, r) == <<r, s>> \in raced /\ pc[s] = "done"

\* What a request holds in each stage.
RequestOK(r) ==
    IF pc[r] = "new" THEN req[r] = NoOne /\ changes[r] = NoChange
    ELSE /\ req[r] \in Asked /\ req[r].actor \in Existing
         /\ Creates(r) =>
               /\ pc[r] \notin {"email", "role"} /\ Target(r) \in Newcomers
               /\ pc[r] # "done" => Target(r) \notin Existing
               /\ pc[r] = "authenticated" => NoOne \notin {req[r].email, req[r].role, req[r].password}
               /\ pc[r] = "flush" =>
                     NoOne \notin {changes[r].email, changes[r].role, changes[r].password}
         /\ ~Creates(r) =>
               /\ Target(r) \in Existing
               /\ pc[r] \in {"email", "role", "flush"} => users[Target(r)].org = Org(r)
               /\ pc[r] \in {"email", "role"} => req[r].kind = "update" /\ loaded[r] # NoOne
               /\ req[r].kind = "change_own_password" =>
                     Target(r) = req[r].actor /\ loaded[r] # NoOne
         /\ pc[r] = "done" => Target(r) \in Existing /\ users[Target(r)].org = Org(r)
         /\ pc[r] \in {"authenticated", "email", "role"} => changes[r].role = NoOne
         /\ pc[r] \in {"authenticated", "email"} => changes[r].email = NoOne

\* A loaded row is current unless another request has since written it.
LoadedOK(r) ==
    pc[r] \in Busy /\ ~Creates(r) /\ loaded[r] # NoOne =>
        \/ loaded[r] = users[Target(r)]
        \/ \E s \in Requests : Overtook(s, r) /\ Target(s) = Target(r)

PasswordOK(r) ==
    pc[r] = "flush" /\ req[r].kind = "change_own_password" => req[r].current = loaded[r].password

\* A demotion leaves another administrator unless a colleague's request has
\* committed since.
AdminOK(r) ==
    pc[r] = "flush" /\ ~Creates(r) /\ changes[r].role = "reviewer" =>
        \/ \E s \in Requests : Overtook(s, r) /\ Org(s) = Org(r)
        \/ \E u \in Existing \ {Target(r)} : users[u].role = "admin" /\ users[u].org = Org(r)

\* A new address is free unless a request has committed since.
EmailOK(r) ==
    pc[r] \in {"role", "flush"} /\ changes[r].email # NoOne =>
        \/ \E s \in Requests : Overtook(s, r)
        \/ \A u \in Existing \ {Target(r)} : users[u].email # changes[r].email

EachOK(r) == RequestOK(r) /\ LoadedOK(r) /\ PasswordOK(r) /\ AdminOK(r) /\ EmailOK(r)

\* Every newcomer is the target of the one request that creates it.
TargetsOK ==
    /\ \A r, s \in Requests :
          (/\ r # s /\ req[r] # NoOne /\ req[s] # NoOne
           /\ Creates(r) /\ Creates(s)) => Target(r) # Target(s)
    /\ \A u \in Existing \intersect Newcomers : \E s \in Requests : req[s] # NoOne /\ Target(s) = u

IInv == TypeOK /\ (\A r \in Requests : EachOK(r)) /\ TargetsOK /\ AdminRemains /\ EmailsUnique

USE MembersAssumption, NoOneAssumption

LEMMA NoOneIsNoRole == NoOne # "reviewer"
BY DEF Roles

LEMMA InitOK == Init => IInv
<1> SUFFICES ASSUME Init PROVE IInv
  OBVIOUS
<1>1. TypeOK
  BY DEF Init, TypeOK, Users, UserRow, Roles, Stage, Changes, NoChange
<1>2. \A u \in Users : users[u] # NoOne <=> u \in Members
  BY <1>1 DEF Init, TypeOK, Users, UserRow, Roles
<1>3. (\A r \in Requests : EachOK(r)) /\ TargetsOK
  BY <1>2 DEF Init, EachOK, RequestOK, LoadedOK, PasswordOK, AdminOK, EmailOK, Busy, TargetsOK, Existing
<1>4. AdminRemains
  BY <1>2 DEF Init, AdminRemains, Existing, Users
<1>5. EmailsUnique
  BY <1>2 DEF Init, EmailsUnique, Existing, Users
<1> QED BY <1>1, <1>3, <1>4, <1>5 DEF IInv

\* What excuses a missing administrator or a shared address goes on excusing it.
Excused(o) == \E r, s \in Requests : /\ pc[r] = "done" /\ pc[s] = "done"
                                     /\ Org(r) = o /\ Org(s) = o /\ Raced(r, s)
Shared(u, v) == \E r, s \in Requests :
                    /\ Raced(r, s) /\ changes[r].email = users[u].email
                    /\ Target(r) \in {u, v} /\ pc[r] = "done" /\ pc[s] = "done"

\* Requests that are done stay as they are, and overlaps are not forgotten.
DoneStays ==
    /\ raced \subseteq raced'
    /\ \A r \in Requests : pc[r] = "done" =>
          pc'[r] = "done" /\ changes'[r] = changes[r] /\ Org(r)' = Org(r) /\ Target(r)' = Target(r)

LEMMA ExcusesStand ==
    ASSUME DoneStays
    PROVE  /\ \A o \in Orgs : Excused(o) => Excused(o)'
           /\ \A u, v \in Users : users'[u].email = users[u].email /\ Shared(u, v) => Shared(u, v)'
<1>1. ASSUME NEW o \in Orgs, Excused(o) PROVE Excused(o)'
  <2>1. PICK r, s \in Requests : /\ pc[r] = "done" /\ pc[s] = "done"
                                 /\ Org(r) = o /\ Org(s) = o /\ Raced(r, s)
    BY <1>1 DEF Excused
  <2> QED BY <2>1 DEF DoneStays, Excused, Raced
<1>2. ASSUME NEW u \in Users, NEW v \in Users, users'[u].email = users[u].email, Shared(u, v) 
          PROVE  Shared(u, v)'
  <2>1. PICK r, s \in Requests :
            /\ Raced(r, s) /\ changes[r].email = users[u].email
            /\ Target(r) \in {u, v} /\ pc[r] = "done" /\ pc[s] = "done"
    BY <1>2 DEF Shared
  <2>2. Raced(r, s)' /\ changes'[r].email = users'[u].email /\ Target(r)' \in {u, v}
        /\ pc'[r] = "done" /\ pc'[s] = "done"
    BY <1>2, <2>1 DEF DoneStays, Raced
  <2> QED BY <2>2 DEF Shared
<1> QED BY <1>1, <1>2

LEMMA PropertiesStand ==
    ASSUME IInv, DoneStays, UNCHANGED users
    PROVE  AdminRemains' /\ EmailsUnique'
<1>1. AdminRemains <=> \A o \in Orgs : (\A u \in Existing : users[u].org = o => users[u].role # "admin")
                                        => Excused(o)
  BY DEF AdminRemains, Excused
<1>2. EmailsUnique <=> \A u, v \in Existing : u # v /\ users[u].email = users[v].email => Shared(u, v)
  BY DEF EmailsUnique, Shared, Target
<1>3. AdminRemains' <=> \A o \in Orgs : (\A u \in Existing : users[u].org = o => users[u].role # "admin")
                                         => Excused(o)'
  BY DEF AdminRemains, Excused, Existing
<1>4. EmailsUnique' <=> \A u, v \in Existing : u # v /\ users[u].email = users[v].email => Shared(u, v)'
  BY DEF EmailsUnique, Shared, Target, Existing
<1> QED BY <1>1, <1>2, <1>3, <1>4, ExcusesStand DEF IInv, Existing

\* A step of r that reads, checks and decides disturbs no other request and no
\* committed row.
LEMMA ReadStepOK ==
    ASSUME IInv, NEW r \in Requests, pc[r] \in Busy, NEW st \in Stage, st \notin {"new", "done"},
           Goto(r, st), UNCHANGED <<users, req, began, raced>>,
           loaded' \in [Requests -> UserRow \union {NoOne}], changes' \in [Requests -> Changes],
           \A s \in Requests \ {r} : loaded'[s] = loaded[s] /\ changes'[s] = changes[s],
           EachOK(r)'
    PROVE  IInv'
<1>1. \A s \in Requests : /\ Org(s)' = Org(s) /\ Target(s)' = Target(s) /\ Creates(s)' = Creates(s)
                          /\ pc[s] = "done" => pc'[s] = "done" /\ changes'[s] = changes[s]
  BY DEF IInv, TypeOK, Goto, Busy, Org, Target, Creates
<1>2. TypeOK'
  BY DEF IInv, TypeOK, Goto
<1>3. ASSUME NEW s \in Requests \ {r} PROVE EachOK(s)'
  <2>1. pc'[s] = pc[s] /\ loaded'[s] = loaded[s] /\ changes'[s] = changes[s] /\ EachOK(s)
    BY DEF IInv, TypeOK, Goto
  <2>2. \A q \in Requests : Overtook(q, s) => Overtook(q, s)'
    BY <1>1 DEF Overtook
  <2>3. RequestOK(s)' /\ PasswordOK(s)'
    BY <1>1, <2>1 DEF EachOK, RequestOK, PasswordOK, Existing, Creates, Target, Org
  <2>4. LoadedOK(s)' /\ AdminOK(s)' /\ EmailOK(s)'
    BY <1>1, <2>1, <2>2 DEF EachOK, LoadedOK, AdminOK, EmailOK, Existing
  <2> QED BY <2>3, <2>4 DEF EachOK
<1>4. TargetsOK'
  BY DEF IInv, TargetsOK, Existing, Creates, Target
<1>5. DoneStays
  BY <1>1 DEF DoneStays
<1> QED BY <1>2, <1>3, <1>4, <1>5, PropertiesStand DEF IInv

LEMMA RefusedOK ==
    ASSUME IInv, NEW r \in Requests, pc[r] \in Busy, Goto(r, "refused"),
           UNCHANGED <<loaded, changes, users, trail, req, began, raced>>
    PROVE  IInv'
<1>1. EachOK(r) /\ pc'[r] = "refused"
  BY DEF IInv, TypeOK, Goto
<1>2. RequestOK(r)'
  BY <1>1 DEF EachOK, RequestOK, Busy, Creates, Target, Org, Existing
<1>3. LoadedOK(r)' /\ PasswordOK(r)' /\ AdminOK(r)' /\ EmailOK(r)'
  BY <1>1 DEF LoadedOK, PasswordOK, AdminOK, EmailOK, Busy
<1> QED BY <1>2, <1>3, ReadStepOK DEF IInv, TypeOK, EachOK, Stage

LEMMA AuthenticateOK == ASSUME IInv, NEW r \in Requests, Authenticate(r) PROVE IInv'
<1>1. /\ pc[r] = "new" /\ Goto(r, "authenticated") /\ UNCHANGED <<users, trail, changes, raced>>
      /\ DOMAIN began' = Requests
  BY DEF IInv, TypeOK, Authenticate
<1>2. PICK a \in Asked :
        /\ req' = [req EXCEPT ![r] = a] /\ a.actor \in Existing
        /\ a.kind = "create" =>
              /\ a.target \in Newcomers /\ NoOne \notin {a.email, a.role, a.password}
              /\ \A s \in Requests : req[s] # NoOne => req[s].target # a.target
        /\ a.kind # "create" => a.target \in Existing
        /\ a.kind = "change_own_password" => a.target = a.actor
        /\ loaded' = [loaded EXCEPT ![r] = IF a.actor = a.target THEN users[a.actor] ELSE NoOne]
  <2>1. PICK actor \in Existing, kind \in Kinds, target \in Users, email \in Emails \union {NoOne},
             role \in Roles \union {NoOne}, password \in Passwords \union {NoOne},
             current \in Passwords \union {NoOne} :
          /\ Permitted(actor, kind)
          /\ kind = "create" => /\ target \in Newcomers
                                /\ \A s \in Requests : req[s] # NoOne => req[s].target # target
                                /\ NoOne \notin {email, role, password}
          /\ kind = "update" => target \in Existing /\ password = NoOne
          /\ kind = "set_password" => target \in Existing /\ password # NoOne
          /\ kind = "change_own_password" => target = actor /\ password # NoOne
          /\ kind \in {"set_password", "change_own_password"} => email = NoOne /\ role = NoOne
          /\ (current # NoOne) <=> (kind = "change_own_password")
          /\ req' = [req EXCEPT ![r] = [kind |-> kind, actor |-> actor, target |-> target,
                        email |-> email, role |-> role, password |-> password, current |-> current]]
          /\ loaded' = [loaded EXCEPT ![r] = IF actor = target THEN users[actor] ELSE NoOne]
    BY Zenon DEF Authenticate
  <2> DEFINE a == [kind |-> kind, actor |-> actor, target |-> target, email |-> email,
                   role |-> role, password |-> password, current |-> current]
  <2>2. a \in Asked
    BY DEF Asked, Existing
  <2>3. kind # "create" => target \in Existing
    BY <2>1 DEF Kinds
  <2> QED BY <2>1, <2>2, <2>3
<1>3. TypeOK'
  BY <1>1, <1>2 DEF IInv, TypeOK, Goto, Stage, Existing
<1>4. \A s \in Requests : /\ pc[s] # "new" => Org(s)' = Org(s) /\ Target(s)' = Target(s)
                          /\ (pc[s] = "done") <=> (pc'[s] = "done")
                          /\ s # r => UNCHANGED <<pc[s], req[s], loaded[s], changes[s]>>
  BY <1>1, <1>2 DEF IInv, TypeOK, Goto, Org, Target
<1>5. ASSUME NEW s \in Requests \ {r} PROVE EachOK(s)'
  <2>1. EachOK(s) /\ \A q \in Requests : Overtook(q, s) => pc[q] # "new" /\ Overtook(q, s)'
    BY <1>1, <1>4 DEF IInv, Overtook
  <2>2. RequestOK(s)' /\ PasswordOK(s)'
    BY <1>1, <1>4, <2>1 DEF EachOK, RequestOK, PasswordOK, Existing, Creates, Target, Org
  <2>3. LoadedOK(s)' /\ AdminOK(s)' /\ EmailOK(s)'
    BY <1>1, <1>4, <2>1 DEF EachOK, LoadedOK, AdminOK, EmailOK, Existing, Busy, Creates
  <2> QED BY <2>2, <2>3 DEF EachOK
<1>6. EachOK(r)'
  <2>1. req'[r] = a /\ a # NoOne /\ pc'[r] = "authenticated" /\ changes'[r] = changes[r]
    BY <1>1, <1>2 DEF IInv, TypeOK, Goto
  <2>2. changes[r].role = NoOne /\ changes[r].email = NoOne
    BY <1>1 DEF IInv, EachOK, RequestOK, NoChange
  <2>3. \A u \in Users : users[u] # NoOne => users[u] \in UserRow
    BY DEF IInv, TypeOK
  <2>4. a.actor \in Users /\ (a.actor = a.target => loaded'[r] = users[a.target] /\ loaded'[r] # NoOne)
        /\ (a.actor # a.target => loaded'[r] = NoOne)
    BY <1>1, <1>2 DEF IInv, TypeOK, Existing
  <2>5. a.target \in Newcomers /\ (\A s \in Requests : req[s] # NoOne => req[s].target # a.target)
        => a.target \notin Existing
    BY DEF IInv, TargetsOK, Target
  <2>6. RequestOK(r)'
    BY <1>1, <1>2, <2>1, <2>2, <2>4, <2>5 DEF RequestOK, Creates, Target, Org, Existing
  <2>7. LoadedOK(r)' /\ PasswordOK(r)' /\ AdminOK(r)' /\ EmailOK(r)'
    BY <1>1, <2>1, <2>4 DEF LoadedOK, PasswordOK, AdminOK, EmailOK, Target
  <2> QED BY <2>6, <2>7 DEF EachOK
<1>7. TargetsOK'
  <2>1. req'[r] = a /\ \A s \in Requests \ {r} : req'[s] = req[s]
    BY <1>2 DEF IInv, TypeOK
  <2>2. req[r] = NoOne
    BY <1>1 DEF IInv, EachOK, RequestOK
  <2> QED BY <1>1, <1>2, <2>1, <2>2 DEF IInv, TargetsOK, Existing, Creates, Target
<1>8. DoneStays
  BY <1>1, <1>4 DEF DoneStays
<1> QED BY <1>1, <1>3, <1>5, <1>6, <1>7, <1>8, PropertiesStand DEF IInv

LEMMA LoadOK == ASSUME IInv, NEW r \in Requests, Load(r) PROVE IInv'
<1>1. pc[r] = "authenticated" /\ req[r].kind \in {"update", "set_password"} /\ EachOK(r) /\ req[r] \in Asked
  BY DEF IInv, Load, EachOK, RequestOK
<1>2. Target(r) \in Existing /\ users[Target(r)] \in UserRow /\ ~Creates(r)
  BY <1>1 DEF EachOK, RequestOK, IInv, TypeOK, Existing, Creates
<1>3. CASE users[Target(r)].org = Org(r)
  <2> DEFINE st == IF req[r].kind = "update" THEN "email" ELSE "flush"
             l == IF loaded[r] = NoOne THEN users[Target(r)] ELSE loaded[r]
  <2>1. /\ loaded' = [loaded EXCEPT ![r] = l] /\ Goto(r, st)
        /\ changes' = [changes EXCEPT ![r].password = req[r].password]
        /\ UNCHANGED <<users, trail, req, began, raced>>
    BY <1>3 DEF Load, Target
  <2>2. /\ loaded' \in [Requests -> UserRow \union {NoOne}] /\ changes' \in [Requests -> Changes]
        /\ changes'[r].role = NoOne /\ changes'[r].email = NoOne /\ loaded'[r] = l /\ l # NoOne
        /\ pc'[r] = st
        /\ \A s \in Requests \ {r} : loaded'[s] = loaded[s] /\ changes'[s] = changes[s]
    BY <1>1, <1>2, <2>1 DEF IInv, TypeOK, Goto, Changes, Asked, EachOK, RequestOK
  <2>3. \A q \in Requests : Overtook(q, r) => Overtook(q, r)'
    BY <2>1, <1>1 DEF Overtook, Goto, IInv, TypeOK
  <2>4. EachOK(r)'
    <3>0. Org(r)' = Org(r) /\ Target(r)' = Target(r) /\ req' = req /\ users' = users
      BY <2>1 DEF Org, Target
    <3>1. RequestOK(r)'
      BY <1>1, <1>2, <1>3, <2>2, <3>0 DEF EachOK, RequestOK, Creates, Target, Existing
    <3>3. PasswordOK(r)' /\ AdminOK(r)' /\ EmailOK(r)'
      <4>1. PasswordOK(r)'
        BY <1>1, <3>0 DEF PasswordOK
      <4>2. AdminOK(r)' /\ EmailOK(r)'
        BY <2>2, NoOneIsNoRole DEF AdminOK, EmailOK
      <4> QED BY <4>1, <4>2
    <3>2. LoadedOK(r)'
      BY <1>1, <1>2, <2>1, <2>2, <2>3 DEF EachOK, LoadedOK, Busy, Target, Creates
    <3> QED BY <3>1, <3>2, <3>3 DEF EachOK
  <2> QED BY <1>1, <2>1, <2>2, <2>4, ReadStepOK DEF Stage, Busy
<1>4. CASE users[Target(r)].org # Org(r)
  <2>1. Goto(r, "refused") /\ UNCHANGED <<loaded, changes, users, trail, req, began, raced>>
    BY <1>4 DEF Load, Target
  <2> QED BY <1>1, <2>1, RefusedOK DEF Busy
<1> QED BY <1>3, <1>4

LEMMA CheckEmailOK == ASSUME IInv, NEW r \in Requests, CheckEmail(r) PROVE IInv'
<1>1. pc[r] = "email" /\ EachOK(r) /\ req[r] \in Asked /\ ~Creates(r)
      /\ UNCHANGED <<users, trail, req, loaded, began, raced>>
  BY DEF IInv, CheckEmail, EachOK, RequestOK
<1>2. CASE Goto(r, "refused") /\ UNCHANGED changes
  BY <1>1, <1>2, RefusedOK DEF Busy
<1>3. CASE Goto(r, "role") /\ UNCHANGED changes
  <2>1. RequestOK(r)' /\ PasswordOK(r)' /\ AdminOK(r)' /\ EmailOK(r)' /\ LoadedOK(r)'
    <3>1. pc'[r] = "role" /\ (\A s \in Requests \ {r} : pc'[s] = pc[s])
      BY <1>3 DEF IInv, TypeOK, Goto
    <3>2. \A s \in Requests : Overtook(s, r)' <=> Overtook(s, r)
      BY <1>1, <3>1 DEF Overtook
    <3>3. RequestOK(r)'
      BY <1>1, <1>3, <3>1 DEF EachOK, RequestOK, Creates, Target, Org, Existing
    <3>4. PasswordOK(r)' /\ AdminOK(r)'
      BY <3>1 DEF PasswordOK, AdminOK
    <3>5. EmailOK(r)' /\ LoadedOK(r)'
      BY <1>1, <1>3, <3>1, <3>2 DEF EachOK, RequestOK, EmailOK, LoadedOK, Creates, Target, Existing, Busy
    <3> QED BY <3>3, <3>4, <3>5
  <2> QED BY <1>1, <1>3, <2>1, ReadStepOK DEF IInv, TypeOK, EachOK, Stage, Busy
<1>4. CASE /\ ~EmailTaken(r, req[r].email) /\ Goto(r, "role")
           /\ changes' = [changes EXCEPT ![r].email = req[r].email]
  <2>1. /\ changes' \in [Requests -> Changes] /\ changes'[r].role = changes[r].role
        /\ changes'[r].email = req[r].email /\ pc'[r] = "role"
        /\ \A s \in Requests \ {r} : changes'[s] = changes[s] /\ pc'[s] = pc[s]
    <3>1. req[r].email \in Emails \union {NoOne} /\ changes[r] \in Changes
      BY <1>1 DEF IInv, TypeOK, Asked
    <3>2. [changes[r] EXCEPT !.email = req[r].email] \in Changes
      BY <3>1 DEF Changes
    <3> QED BY <1>1, <1>4, <3>1, <3>2 DEF IInv, TypeOK, Changes, Goto
  <2>2. RequestOK(r)' /\ PasswordOK(r)' /\ AdminOK(r)' /\ LoadedOK(r)'
    BY <1>1, <2>1 DEF EachOK, RequestOK, PasswordOK, AdminOK, LoadedOK, Creates,
       Target, Org, Existing, Overtook, Busy
  <2>3. EmailOK(r)'
    BY <1>1, <1>4, <2>1 DEF EmailOK, EmailTaken, Existing, Target
  <2> QED BY <1>1, <1>4, <2>1, <2>2, <2>3, ReadStepOK DEF IInv, TypeOK, EachOK, Stage, Busy
<1> QED BY <1>2, <1>3, <1>4 DEF CheckEmail

LEMMA CheckRoleOK == ASSUME IInv, NEW r \in Requests, CheckRole(r) PROVE IInv'
<1>1. pc[r] = "role" /\ EachOK(r) /\ req[r] \in Asked /\ ~Creates(r) /\ req[r].kind = "update"
      /\ changes[r].role = NoOne /\ loaded[r] \in UserRow /\ Target(r) \in Existing
      /\ users[Target(r)].org = Org(r)
      /\ UNCHANGED <<users, trail, req, loaded, began, raced>>
  BY DEF IInv, TypeOK, CheckRole, EachOK, RequestOK
<1>2. CASE Goto(r, "refused") /\ UNCHANGED changes
  BY <1>1, <1>2, RefusedOK DEF Busy
<1>3. CASE Goto(r, "flush") /\ UNCHANGED changes
  <2>1. RequestOK(r)' /\ PasswordOK(r)' /\ AdminOK(r)' /\ EmailOK(r)' /\ LoadedOK(r)'
    <3>1. pc'[r] = "flush" /\ \A s \in Requests \ {r} : pc'[s] = pc[s]
      BY <1>3 DEF IInv, TypeOK, Goto
    <3>2. \A s \in Requests : Overtook(s, r)' <=> Overtook(s, r)
      BY <1>1, <3>1 DEF Overtook
    <3>3. RequestOK(r)' /\ PasswordOK(r)' /\ AdminOK(r)'
      <4>1. RequestOK(r)'
        BY <1>1, <1>3, <3>1 DEF EachOK, RequestOK, Creates, Target, Org, Existing
      <4>2. PasswordOK(r)' /\ AdminOK(r)'
        BY <1>1, <1>3, <3>1, NoOneIsNoRole DEF PasswordOK, AdminOK
      <4> QED BY <4>1, <4>2
    <3>4. EmailOK(r)' /\ LoadedOK(r)'
      BY <1>1, <1>3, <3>1, <3>2 DEF EachOK, RequestOK, EmailOK, LoadedOK, Creates, Target, Existing, Busy
    <3> QED BY <3>3, <3>4
  <2> QED BY <1>1, <1>3, <2>1, ReadStepOK DEF IInv, TypeOK, EachOK, Stage, Busy
<1>4. CASE /\ req[r].role \notin {NoOne, loaded[r].role}
           /\ ~(loaded[r].role = "admin" /\ LastAdmin(r)) /\ Goto(r, "flush")
           /\ changes' = [changes EXCEPT ![r].role = req[r].role]
  <2>1. /\ changes' \in [Requests -> Changes] /\ changes'[r].email = changes[r].email
        /\ changes'[r].role = req[r].role /\ pc'[r] = "flush"
        /\ \A s \in Requests \ {r} : changes'[s] = changes[s] /\ pc'[s] = pc[s]
    <3>1. req[r].role \in Roles \union {NoOne} /\ changes[r] \in Changes
      BY <1>1 DEF IInv, TypeOK, Asked
    <3>2. [changes[r] EXCEPT !.role = req[r].role] \in Changes
      BY <3>1 DEF Changes
    <3> QED BY <1>1, <1>4, <3>1, <3>2 DEF IInv, TypeOK, Changes, Goto
  <2>2. \A s \in Requests : Overtook(s, r)' <=> Overtook(s, r)
    BY <1>1, <2>1 DEF Overtook
  <2>3. RequestOK(r)' /\ PasswordOK(r)' /\ EmailOK(r)' /\ LoadedOK(r)'
    BY <1>1, <2>1, <2>2 DEF EachOK, RequestOK, PasswordOK, EmailOK, LoadedOK, Creates,
       Target, Org, Existing, Busy
  <2>4. AdminOK(r)'
    <3>1. SUFFICES ASSUME req[r].role = "reviewer",
                          ~\E s \in Requests : Overtook(s, r) /\ Org(s) = Org(r)
                   PROVE  \E u \in Existing \ {Target(r)} : users[u].role = "admin" /\ users[u].org = Org(r)
      BY <1>1, <2>1, <2>2 DEF AdminOK, Org, Target, Existing
    <3>2. loaded[r].role = "admin"
      BY <1>1, <1>4, <3>1 DEF UserRow, Roles
    <3>3. ~\E s \in Requests : Overtook(s, r) /\ Target(s) = Target(r)
      <4>1. ASSUME NEW s \in Requests, Overtook(s, r), Target(s) = Target(r) PROVE Org(s) = Org(r)
        BY <1>1, <4>1 DEF IInv, EachOK, RequestOK, Overtook
      <4> QED BY <3>1, <4>1
    <3>4. users[Target(r)].role = "admin"
      BY <1>1, <3>2, <3>3 DEF EachOK, LoadedOK, Busy
    <3> DEFINE A == {u \in Existing : users[u].role = "admin" /\ users[u].org = Org(r)}
    <3>5. Target(r) \in A /\ Cardinality(A) # 1
      BY <1>1, <1>4, <3>2, <3>4 DEF LastAdmin
    <3>6. A # {Target(r)}
      BY <3>5, FS_Singleton
    <3> QED BY <3>5, <3>6
  <2> QED BY <1>1, <1>4, <2>1, <2>3, <2>4, ReadStepOK DEF IInv, TypeOK, EachOK, Stage, Busy
<1> QED BY <1>2, <1>3, <1>4 DEF CheckRole

LEMMA CheckCreateOK == ASSUME IInv, NEW r \in Requests, CheckCreate(r) PROVE IInv'
<1>1. pc[r] = "authenticated" /\ EachOK(r) /\ req[r] \in Asked /\ Creates(r)
      /\ UNCHANGED <<users, trail, req, loaded, began, raced>>
  BY DEF IInv, CheckCreate, EachOK, RequestOK, Creates
<1>2. CASE Goto(r, "refused") /\ UNCHANGED changes
  BY <1>1, <1>2, RefusedOK DEF Busy
<1>3. CASE /\ ~EmailTaken(r, req[r].email) /\ Goto(r, "flush")
           /\ changes' = [changes EXCEPT ![r] = [email |-> req[r].email, role |-> req[r].role,
                                                 password |-> req[r].password]]
  <2>1. /\ changes' \in [Requests -> Changes] /\ pc'[r] = "flush"
        /\ changes'[r].email = req[r].email /\ changes'[r].role = req[r].role
        /\ changes'[r].password = req[r].password
        /\ \A s \in Requests \ {r} : changes'[s] = changes[s]
    BY <1>1, <1>3 DEF IInv, TypeOK, Changes, Asked, Goto
  <2>2. RequestOK(r)' /\ PasswordOK(r)' /\ AdminOK(r)' /\ LoadedOK(r)'
    BY <1>1, <2>1 DEF EachOK, RequestOK, PasswordOK, AdminOK, LoadedOK, Creates, Target, Org, Existing
  <2>3. EmailOK(r)'
    BY <1>1, <1>3, <2>1 DEF EmailOK, EmailTaken, Existing, Target
  <2> QED BY <1>1, <1>3, <2>1, <2>2, <2>3, ReadStepOK DEF IInv, TypeOK, EachOK, Stage, Busy
<1> QED BY <1>2, <1>3 DEF CheckCreate

LEMMA VerifyOwnOK == ASSUME IInv, NEW r \in Requests, VerifyOwn(r) PROVE IInv'
<1>1. pc[r] = "authenticated" /\ EachOK(r) /\ req[r] \in Asked /\ ~Creates(r)
      /\ req[r].kind = "change_own_password"
      /\ UNCHANGED <<users, trail, req, loaded, began, raced>>
  BY DEF IInv, VerifyOwn, EachOK, RequestOK, Creates
<1>2. CASE Goto(r, "refused") /\ UNCHANGED changes
  BY <1>1, <1>2, RefusedOK DEF Busy
<1>3. CASE /\ Verified(r) /\ Goto(r, "flush")
           /\ changes' = [changes EXCEPT ![r].password = req[r].password]
  <2>1. /\ changes' \in [Requests -> Changes] /\ pc'[r] = "flush"
        /\ changes'[r].email = changes[r].email /\ changes'[r].role = changes[r].role
        /\ \A s \in Requests \ {r} : changes'[s] = changes[s] /\ pc'[s] = pc[s]
    <3>1. changes[r] \in Changes /\ req[r].password \in Passwords \union {NoOne}
      BY <1>1 DEF IInv, TypeOK, EachOK, RequestOK, Asked
    <3>2. [changes[r] EXCEPT !.password = req[r].password] \in Changes
      BY <3>1 DEF Changes
    <3> QED BY <1>3, <3>1, <3>2 DEF IInv, TypeOK, Changes, Goto
  <2>2. RequestOK(r)' /\ AdminOK(r)' /\ EmailOK(r)'
    <3>1. users[Target(r)].org = Org(r) /\ changes[r].role = NoOne /\ changes[r].email = NoOne
      BY <1>1 DEF EachOK, RequestOK, Org, Creates, Target
    <3>2. RequestOK(r)'
      BY <1>1, <2>1, <3>1 DEF EachOK, RequestOK, Creates, Target, Org, Existing
    <3>3. AdminOK(r)' /\ EmailOK(r)'
      BY <2>1, <3>1, NoOneIsNoRole DEF AdminOK, EmailOK
    <3> QED BY <3>2, <3>3
  <2>3. PasswordOK(r)' /\ LoadedOK(r)'
    BY <1>1, <1>3, <2>1 DEF EachOK, PasswordOK, LoadedOK, Verified, Creates, Target, Overtook, Busy
  <2> QED BY <1>1, <1>3, <2>1, <2>2, <2>3, ReadStepOK DEF IInv, TypeOK, EachOK, Stage, Busy
<1> QED BY <1>2, <1>3 DEF VerifyOwn

\* The one step that writes: what it breaks, another request's overlap excuses.
LEMMA CommitOK == ASSUME IInv, NEW r \in Requests, Commit(r) PROVE IInv'
<1>0. PICK u \in Users : u = Target(r)
  BY DEF IInv, TypeOK, EachOK, RequestOK, Commit, Asked, Target
<1> DEFINE row == IF Creates(r)
                  THEN [org |-> Org(r), email |-> changes[r].email, role |-> changes[r].role,
                        password |-> changes[r].password]
                  ELSE [users[u] EXCEPT !.email = Written(@, changes[r].email),
                                        !.role = Written(@, changes[r].role),
                                        !.password = Written(@, changes[r].password)]
<1>1. /\ pc[r] = "flush" /\ users' = [users EXCEPT ![u] = row]
      /\ raced' = raced \union {<<s, r>> : s \in UnderWay \ {r}}
      /\ Goto(r, "done") /\ UNCHANGED <<req, loaded, changes, began>>
  BY <1>0 DEF Commit, Target, Creates
<1>2. /\ EachOK(r) /\ req[r] \in Asked /\ req[r] # NoOne /\ req[r].actor \in Existing
      /\ users[req[r].actor] \in UserRow /\ Org(r) \in Orgs /\ u \in Users
      /\ changes[r] \in Changes
  BY <1>0, <1>1 DEF IInv, TypeOK, EachOK, RequestOK, Existing, Org, UserRow, Target, Asked
<1>3. \A v \in Existing : v \in Users /\ users[v] \in UserRow /\ users[v] # NoOne
  BY DEF IInv, TypeOK, Existing
<1>4. /\ row \in UserRow /\ row.org = Org(r) /\ row # NoOne
      /\ changes[r].email # NoOne => row.email = changes[r].email
      /\ u \in Existing => ~Creates(r) /\ users[u].org = Org(r)
      /\ u \notin Existing => Creates(r) /\ changes[r].email # NoOne
  <2>1. CASE Creates(r)
    <3>1. row \in UserRow /\ row.org = Org(r) /\ u \notin Existing
          /\ row.email = changes[r].email /\ changes[r].email # NoOne
      BY <1>0, <1>1, <1>2, <2>1 DEF EachOK, RequestOK, UserRow, Changes
    <3> QED BY <2>1, <3>1
  <2>2. CASE ~Creates(r)
    <3>1. users[u] \in UserRow /\ users[u].org = Org(r) /\ u \in Existing
      BY <1>0, <1>1, <1>2, <1>3, <2>2 DEF EachOK, RequestOK
    <3>2. /\ row.org = users[u].org /\ row.email = Written(users[u].email, changes[r].email)
          /\ row \in UserRow
      BY <1>2, <2>2, <3>1 DEF UserRow, Written, Changes
    <3> QED BY <2>2, <3>1, <3>2 DEF Written
  <2> QED BY <2>1, <2>2
<1>5. ~Creates(r) => /\ changes[r].email = NoOne => row.email = users[u].email
                     /\ row.role = Written(users[u].role, changes[r].role)
  BY <1>1, <1>2, <1>3 DEF EachOK, RequestOK, UserRow, Written
<1> HIDE DEF row
<1>6. /\ users' \in [Users -> UserRow \union {NoOne}] /\ users'[u] = row
      /\ (\A v \in Users \ {u} : users'[v] = users[v])
      /\ (\A v \in Users : v \in Existing' <=> v \in Existing \union {u})
      /\ (\A v \in Existing : v \in Existing' /\ users'[v].org = users[v].org)
  BY <1>1, <1>2, <1>3, <1>4 DEF IInv, TypeOK, Existing
<1>7. /\ pc'[r] = "done" /\ (\A s \in Requests \ {r} : pc'[s] = pc[s])
      /\ (\A s \in Requests : Target(s)' = Target(s) /\ (Creates(s) <=> Creates(s)'))
      /\ (\A s \in Requests : pc[s] # "new" => Org(s)' = Org(s))
      /\ raced \subseteq raced'
  BY <1>1, <1>6 DEF IInv, TypeOK, EachOK, RequestOK, Goto, Target, Creates, Org
<1>8. \A s \in Requests \ {r} : pc[s] \in Busy => Overtook(r, s)'
  BY <1>1, <1>7 DEF Overtook, UnderWay, Busy
<1>9. \A s \in Requests \ {r}, q \in Requests : Overtook(q, s) => Overtook(q, s)'
  BY <1>7 DEF Overtook
<1>10. DoneStays
  BY <1>1, <1>7 DEF DoneStays
<1>11. TypeOK'
  BY <1>1, <1>6 DEF IInv, TypeOK, Goto, Stage, UnderWay
<1>12. ASSUME NEW s \in Requests \ {r} PROVE EachOK(s)'
  <2>1. EachOK(s) /\ pc'[s] = pc[s] /\ UNCHANGED <<req[s], loaded[s], changes[s]>>
    BY <1>1, <1>7 DEF IInv
  <2>2. RequestOK(s)'
    <3>1. ASSUME pc[s] # "new", Creates(s), pc[s] # "done" PROVE Target(s) \notin Existing'
      <4>1. Target(s) \notin Existing /\ Target(s) \in Users /\ req[s] # NoOne
        BY <2>1, <3>1 DEF EachOK, RequestOK, Asked, Target
      <4>2. Target(s) # u
        BY <1>0, <1>2, <1>4, <3>1, <4>1 DEF IInv, TargetsOK
      <4> QED BY <1>6, <4>1, <4>2
    <3>2. CASE pc[s] = "new"
      BY <2>1, <3>2 DEF EachOK, RequestOK
    <3>3. CASE pc[s] # "new" /\ Creates(s)
      <4>1. req[s].actor \in Existing' /\ (pc[s] = "done" => /\ Target(s) \in Existing'
                                                             /\ users'[Target(s)].org = Org(s))
        BY <1>6, <2>1, <3>3 DEF EachOK, RequestOK
      <4> QED BY <1>7, <2>1, <3>1, <3>3, <4>1 DEF EachOK, RequestOK
    <3>4. CASE pc[s] # "new" /\ ~Creates(s)
      <4>1. req[s].actor \in Existing' /\ Target(s) \in Existing'
            /\ users'[Target(s)].org = users[Target(s)].org
        BY <1>6, <2>1, <3>4 DEF EachOK, RequestOK
      <4> QED BY <1>7, <2>1, <3>4, <4>1 DEF EachOK, RequestOK
    <3> QED BY <3>2, <3>3, <3>4
  <2>3. LoadedOK(s)'
    <3>1. SUFFICES ASSUME pc[s] \in Busy, ~Creates(s), loaded[s] # NoOne PROVE LoadedOK(s)'
      BY <1>7, <2>1 DEF LoadedOK
    <3>2. CASE Target(s) = u
      BY <1>0, <1>7, <1>8, <3>1, <3>2 DEF LoadedOK
    <3>3. CASE Target(s) # u
      <4>1. Target(s) \in Existing
        BY <2>1, <3>1 DEF EachOK, RequestOK, Busy
      <4> QED BY <1>3, <1>6, <1>7, <1>9, <2>1, <3>1, <3>3, <4>1 DEF EachOK, LoadedOK
    <3> QED BY <3>2, <3>3
  <2>4. PasswordOK(s)'
    BY <2>1 DEF EachOK, PasswordOK
  <2>5. AdminOK(s)'
    <3>1. SUFFICES ASSUME pc[s] = "flush", ~Creates(s), changes[s].role = "reviewer"
                   PROVE  AdminOK(s)'
      BY <1>7, <2>1 DEF AdminOK
    <3>2. CASE Org(r) = Org(s)
      BY <1>1, <1>7, <1>8, <3>1, <3>2 DEF AdminOK, Busy
    <3>3. CASE \E q \in Requests : Overtook(q, s) /\ Org(q) = Org(s)
      BY <1>7, <1>9, <3>1, <3>3 DEF AdminOK, Overtook
    <3>4. CASE /\ Org(r) # Org(s)
               /\ \E v \in Existing \ {Target(s)} : users[v].role = "admin" /\ users[v].org = Org(s)
      BY <1>3, <1>4, <1>6, <1>7, <3>1, <3>4 DEF AdminOK
    <3> QED BY <2>1, <3>1, <3>2, <3>3, <3>4 DEF EachOK, AdminOK
  <2>6. EmailOK(s)'
    BY <1>8, <2>1 DEF EmailOK, Busy
  <2> QED BY <2>2, <2>3, <2>4, <2>5, <2>6 DEF EachOK
<1>13. EachOK(r)'
  <2>1. RequestOK(r)'
    BY <1>0, <1>1, <1>2, <1>4, <1>6, <1>7 DEF EachOK, RequestOK
  <2> QED BY <1>7, <2>1 DEF EachOK, LoadedOK, PasswordOK, AdminOK, EmailOK, Busy
<1>14. TargetsOK'
  <2>1. \A v \in Existing' \intersect Newcomers : \E s \in Requests : req'[s] # NoOne /\ Target(s)' = v
    BY <1>0, <1>1, <1>2, <1>6, <1>7 DEF IInv, TargetsOK, Existing
  <2> QED BY <1>1, <1>7, <2>1 DEF IInv, TargetsOK
<1>15. AdminRemains'
  <2>1. SUFFICES ASSUME NEW o \in Orgs,
                        \A v \in Existing' : users'[v].org = o => users'[v].role # "admin"
                 PROVE  Excused(o)'
    BY DEF AdminRemains, Excused
  <2>2. CASE Excused(o)
    BY <1>10, <2>2, ExcusesStand
  <2>3. CASE ~Excused(o)
    <3>1. PICK v \in Existing : users[v].org = o /\ users[v].role = "admin"
      BY <2>3 DEF IInv, AdminRemains, Excused
    <3>2. v = u /\ ~Creates(r) /\ Org(r) = o /\ changes[r].role = "reviewer"
      BY <1>2, <1>3, <1>4, <1>5, <1>6, <2>1, <3>1 DEF Written, Changes, Roles
    <3>3. ~\E w \in Existing \ {u} : users[w].role = "admin" /\ users[w].org = Org(r)
      BY <1>3, <1>6, <2>1, <3>2
    <3>4. PICK s \in Requests : Overtook(s, r) /\ Org(s) = Org(r)
      BY <1>0, <1>1, <1>2, <3>2, <3>3 DEF EachOK, AdminOK
    <3>5. /\ pc'[r] = "done" /\ pc'[s] = "done" /\ Org(r)' = o /\ Org(s)' = o /\ Raced(r, s)'
      BY <1>1, <1>7, <1>10, <3>2, <3>4 DEF Overtook, DoneStays, Raced
    <3> QED BY <3>5 DEF Excused
  <2> QED BY <2>2, <2>3
<1>16. EmailsUnique'
  <2>1. ASSUME NEW w \in Existing', w # u, users'[w].email = users'[u].email
        PROVE  Shared(u, w)'
    <3>1. w \in Existing /\ w \in Users /\ users'[w] = users[w]
      BY <1>6, <2>1 DEF Existing
    <3>2. CASE changes[r].email = NoOne
      <4>1. u \in Existing /\ users'[u].email = users[u].email
        BY <1>4, <1>5, <1>6, <3>2
      <4>2. Shared(u, w)
        BY <2>1, <3>1, <4>1 DEF IInv, EmailsUnique, Shared, Target
      <4> QED BY <1>2, <1>10, <3>1, <4>1, <4>2, ExcusesStand
    <3>3. CASE changes[r].email # NoOne
      <4>1. users'[u].email = changes[r].email
        BY <1>4, <1>6, <3>3
      <4>2. PICK s \in Requests : Overtook(s, r)
        BY <1>0, <1>1, <1>2, <2>1, <3>1, <3>3, <4>1 DEF EachOK, EmailOK
      <4>3. Raced(r, s)' /\ pc'[s] = "done"
        BY <1>7, <4>2, <1>10 DEF Raced, Overtook, DoneStays
      <4> QED BY <1>0, <1>1, <1>7, <4>1, <4>3 DEF Shared
    <3> QED BY <3>2, <3>3
  <2>2. ASSUME NEW v \in Existing', NEW w \in Existing', v # w, users'[v].email = users'[w].email
        PROVE  Shared(v, w)'
    <3>1. CASE v = u
      BY <2>1, <2>2, <3>1
    <3>2. CASE w = u
      <4>1. Shared(w, v)'
        BY <2>1, <2>2, <3>2
      <4> QED BY <2>2, <4>1 DEF Shared
    <3>3. CASE v # u /\ w # u
      <4>1. v \in Existing /\ w \in Existing /\ users'[v] = users[v] /\ users'[w] = users[w]
            /\ v \in Users /\ w \in Users
        BY <1>6, <2>2, <3>3 DEF Existing
      <4>2. Shared(v, w)
        BY <2>2, <4>1 DEF IInv, EmailsUnique, Shared, Target
      <4> QED BY <1>10, <4>1, <4>2, ExcusesStand
    <3> QED BY <3>1, <3>2, <3>3
  <2> QED BY <2>2 DEF EmailsUnique, Shared, Target
<1> QED BY <1>11, <1>12, <1>13, <1>14, <1>15, <1>16 DEF IInv

LEMMA NextOK == IInv /\ [Next]_vars => IInv'
<1> SUFFICES ASSUME IInv, [Next]_vars PROVE IInv'
  OBVIOUS
<1>1. ASSUME UNCHANGED vars PROVE IInv'
  <2>1. /\ UNCHANGED <<users, pc, req, loaded, changes, began, raced>>
        /\ \A r, s \in Requests : Overtook(r, s)' <=> Overtook(r, s)
    BY <1>1 DEF vars, Overtook
  <2>2. TypeOK' /\ TargetsOK'
    BY <2>1 DEF IInv, TypeOK, TargetsOK, Existing, Target, Creates
  <2>3. \A r \in Requests : EachOK(r)'
    BY <2>1 DEF IInv, EachOK, RequestOK, LoadedOK, PasswordOK, AdminOK, EmailOK, Existing,
       Target, Creates, Org
  <2>4. DoneStays
    BY <2>1 DEF DoneStays, Org, Target
  <2> QED BY <2>1, <2>2, <2>3, <2>4, PropertiesStand DEF IInv
<1> QED BY <1>1, AuthenticateOK, LoadOK, CheckEmailOK, CheckRoleOK, CheckCreateOK, VerifyOwnOK,
           CommitOK DEF Next, Finished

THEOREM Invariance == Spec => []IInv
<1> QED BY InitOK, NextOK, PTL DEF Spec

\* An organization loses its last administrator only where two requests of its
\* users overlap (update_user, _ensure_not_last_admin_demoted).
THEOREM LastAdminProtected == Spec => []AdminRemains
<1>1. IInv => AdminRemains
  BY DEF IInv
<1> QED BY <1>1, Invariance, PTL

\* An address is shared only where the requests that wrote it overlap
\* (_ensure_email_available).
THEOREM AddressesAreUnique == Spec => []EmailsUnique
<1>1. IInv => EmailsUnique
  BY DEF IInv
<1> QED BY <1>1, Invariance, PTL

\* A self-service change proves the password it replaces, unless another change
\* of the same user overlapped (change_own_password).
THEOREM OldPasswordIsProven == Spec => OwnPasswordProven
<1> DEFINE P == \A r \in Requests :
          (Commit(r) /\ req[r].kind = "change_own_password")
          => \/ req[r].current = users[req[r].actor].password
             \/ \E s \in Requests : <<r, s>> \in raced /\ req[s].target = req[r].actor
<1>1. IInv /\ [Next]_vars => [P]_vars
  <2> SUFFICES ASSUME IInv, NEW r \in Requests, Commit(r), req[r].kind = "change_own_password"
               PROVE  \/ req[r].current = users[req[r].actor].password
                      \/ \E s \in Requests : <<r, s>> \in raced /\ req[s].target = req[r].actor
    OBVIOUS
  <2>1. pc[r] = "flush" /\ EachOK(r) /\ ~Creates(r)
    BY DEF Commit, IInv, Creates
  <2>2. Target(r) = req[r].actor /\ loaded[r] # NoOne /\ req[r].current = loaded[r].password
    BY <2>1 DEF EachOK, RequestOK, PasswordOK
  <2> QED BY <2>1, <2>2 DEF EachOK, LoadedOK, Busy, Overtook, Target
<1> QED BY <1>1, Invariance, PTL DEF Spec, OwnPasswordProven

-----------------------------------------------------------------------------
(* What the audit trail says *)

Entries == [by : Requests, user : Users, kind : Kinds, email : Emails \union {NoOne},
            role : Roles \union {NoOne}]

Started == {s \in Requests : began[s] > 0}

\* Transactions are numbered in the order of their beginnings.
BeganOK ==
    /\ IsFiniteSet(Started)
    /\ \A s \in Requests : /\ began[s] \in Nat /\ began[s] <= Cardinality(Started)
                           /\ began[s] = 0 <=> pc[s] = "new"

\* An entry is of a request that has committed, and of its target.
TrailOK ==
    /\ trail \in Seq(Entries)
    /\ \A k \in 1..Len(trail) : pc[trail[k].by] = "done" /\ Target(trail[k].by) = trail[k].user

RacedOK == \A p \in raced : pc[p[1]] # "new" /\ pc[p[2]] # "new"

\* A request under way began after all that committed, those aside that it raced.
OrderOK ==
    \A r, s \in Requests :
        pc[r] \in Busy /\ pc[s] = "done" => <<r, s>> \in raced \/ began[s] < began[r]

TInv == BeganOK /\ TrailOK /\ RacedOK /\ OrderOK /\ TrailMatchesRows /\ ReadTrailMatchesRows

Answered(u) == Untold(u) \/ \E k \in Naming(u) : Tells(u, k) /\ \A j \in Naming(u) : j <= k
ReadAnswered(u) == \/ Untold(u)
                   \/ \E k \in Naming(u) : Tells(u, k) /\ \A j \in Naming(u) : NoLater(j, k)
Overlapped(u) == \E r, s \in Requests : Raced(r, s) /\ Target(r) = u /\ Target(s) = u

LEMMA TrailsBySubject ==
    /\ TrailMatchesRows <=> \A u \in Existing : Answered(u)
    /\ ReadTrailMatchesRows <=> \A u \in Existing : ReadAnswered(u) \/ Overlapped(u)
BY DEF TrailMatchesRows, ReadTrailMatchesRows, Answered, ReadAnswered, Overlapped, Target

LEMMA TrailInitOK == Init => TInv
<1> SUFFICES ASSUME Init PROVE TInv
  OBVIOUS
<1>1. BeganOK
  <2>1. Started = {}
    BY DEF Init, Started
  <2> QED BY <2>1, FS_EmptySet DEF Init, BeganOK
<1>2. TrailOK /\ RacedOK /\ OrderOK
  BY DEF Init, TrailOK, RacedOK, OrderOK, Busy
<1>3. \A u \in Existing : Untold(u)
  <2>1. ASSUME NEW u \in Existing PROVE Untold(u)
    <3>1. u \in Users /\ users[u] # NoOne
      BY DEF Existing
    <3>2. u \in Members /\ users[u].role = "admin"
      BY <3>1 DEF Init, Users
    <3> QED BY <3>2 DEF Init, Untold, Naming
  <2> QED BY <2>1
<1> QED BY <1>1, <1>2, <1>3 DEF TInv, TrailMatchesRows, ReadTrailMatchesRows

LEMMA TrailEntry ==
    ASSUME TrailOK, NEW k \in 1..Len(trail)
    PROVE  /\ trail[k] \in Entries /\ trail[k].by \in Requests
           /\ pc[trail[k].by] = "done" /\ Target(trail[k].by) = trail[k].user
<1>1. trail[k] \in Entries
  BY DEF TrailOK
<1> QED BY <1>1 DEF TrailOK, Entries

\* A user whose row, entries and overlaps a step leaves alone is told as before.
LEMMA TellingStands ==
    ASSUME NEW u \in Users, TypeOK, TrailOK, RacedOK,
           users'[u].role = users[u].role, Naming(u)' = Naming(u),
           \A k \in 1..Len(trail) : trail'[k] = trail[k],
           raced \subseteq raced',
           \A s \in Requests : pc[s] # "new" => began'[s] = began[s] /\ Target(s)' = Target(s)
    PROVE  /\ Answered(u) => Answered(u)'
           /\ ReadAnswered(u) => ReadAnswered(u)'
           /\ Overlapped(u) => Overlapped(u)'
<1>1. \A k \in Naming(u) : /\ k \in 1..Len(trail) /\ trail[k].by \in Requests
                           /\ pc[trail[k].by] = "done" /\ trail'[k] = trail[k]
                           /\ Tells(u, k) => Tells(u, k)'
  BY TrailEntry DEF Naming, Tells
<1>2. Untold(u) => Untold(u)'
  BY DEF Untold
<1>3. Answered(u) => Answered(u)'
  BY <1>1, <1>2 DEF Answered
<1>4. \A j, k \in Naming(u) : NoLater(j, k) => NoLater(j, k)'
  BY <1>1 DEF NoLater
<1>5. ReadAnswered(u) => ReadAnswered(u)'
  BY <1>1, <1>2, <1>4 DEF ReadAnswered
<1>6. ASSUME NEW r \in Requests, NEW s \in Requests, Raced(r, s), Target(r) = u, Target(s) = u
      PROVE  Overlapped(u)'
  <2>1. pc[r] # "new" /\ pc[s] # "new"
    BY <1>6 DEF Raced, RacedOK
  <2> QED BY <1>6, <2>1 DEF Overlapped, Raced
<1> QED BY <1>3, <1>5, <1>6 DEF Overlapped

\* A step that commits nothing leaves what is told of every user.
LEMMA TrailsStand ==
    ASSUME TypeOK, TInv, UNCHANGED <<users, trail, raced>>,
           \A s \in Requests : /\ pc[s] # "new" =>
                                    /\ began'[s] = began[s] /\ Target(s)' = Target(s)
                                    /\ pc'[s] # "new"
                               /\ pc[s] = "done" <=> pc'[s] = "done"
    PROVE  TrailOK' /\ RacedOK' /\ TrailMatchesRows' /\ ReadTrailMatchesRows'
<1>1. TrailOK'
  <2>1. ASSUME NEW k \in 1..Len(trail)
        PROVE  pc'[trail'[k].by] = "done" /\ req'[trail'[k].by].target = trail'[k].user
    <3>1. trail[k].by \in Requests /\ pc[trail[k].by] = "done" /\ Target(trail[k].by) = trail[k].user
      BY TrailEntry DEF TInv
    <3>2. PICK s \in Requests : s = trail[k].by
      BY <3>1
    <3>3. pc'[s] = "done" /\ Target(s)' = Target(s)
      BY <3>1, <3>2
    <3> QED BY <3>1, <3>2, <3>3 DEF Target
  <2> QED BY <2>1 DEF TInv, TrailOK, Target
<1>2. RacedOK'
  BY DEF TInv, RacedOK, TypeOK
<1>3. ASSUME NEW u \in Existing
      PROVE  Answered(u)' /\ (ReadAnswered(u)' \/ Overlapped(u)')
  <2>1. u \in Users /\ Answered(u) /\ (ReadAnswered(u) \/ Overlapped(u))
    BY TrailsBySubject DEF TInv, Existing
  <2>2. Naming(u)' = Naming(u) /\ users'[u].role = users[u].role
    BY DEF Naming
  <2> QED BY <2>1, <2>2, TellingStands DEF TInv
<1>4. Existing' = Existing
  BY DEF Existing
<1>5. TrailMatchesRows' /\ ReadTrailMatchesRows'
  BY <1>3, <1>4 DEF TrailMatchesRows, ReadTrailMatchesRows, Answered, ReadAnswered, Overlapped, Target
<1> QED BY <1>1, <1>2, <1>5

LEMMA TrailAuthenticateOK == ASSUME IInv, TInv, NEW r \in Requests, Authenticate(r) PROVE TInv'
<1>1. /\ pc[r] = "new" /\ Goto(r, "authenticated") /\ UNCHANGED <<users, trail, changes, raced>>
      /\ began' = [began EXCEPT ![r] = 1 + Cardinality(Started)]
      /\ \A s \in Requests \ {r} : req'[s] = req[s]
  BY DEF IInv, TypeOK, Authenticate, Started
<1>2. /\ pc'[r] = "authenticated" /\ began'[r] = 1 + Cardinality(Started)
      /\ (\A s \in Requests \ {r} : pc'[s] = pc[s] /\ began'[s] = began[s] /\ Target(s)' = Target(s))
  BY <1>1 DEF IInv, TypeOK, Goto, Target
<1>3. /\ IsFiniteSet(Started) /\ Cardinality(Started) \in Nat /\ r \notin Started
      /\ \A s \in Requests : began[s] \in Nat /\ began[s] <= Cardinality(Started)
  BY <1>1, FS_CardinalityType DEF TInv, BeganOK, Started
<1>4. Started' = Started \union {r}
  BY <1>2, <1>3 DEF Started
<1>5. IsFiniteSet(Started') /\ Cardinality(Started') = 1 + Cardinality(Started)
  <2>1. /\ IsFiniteSet(Started \union {r})
        /\ Cardinality(Started \union {r}) = Cardinality(Started) + 1
    BY <1>3, FS_AddElement
  <2>2. Cardinality(Started \union {r}) = 1 + Cardinality(Started)
    BY <1>3, <2>1
  <2> QED BY <1>4, <2>1, <2>2, Zenon
<1>6. BeganOK'
  <2>1. ASSUME NEW s \in Requests
        PROVE  /\ began'[s] \in Nat /\ began'[s] <= 1 + Cardinality(Started)
               /\ began'[s] = 0 <=> pc'[s] = "new"
    BY <1>2, <1>3 DEF TInv, BeganOK
  <2> QED BY <1>5, <2>1 DEF BeganOK
<1>7. OrderOK'
  <2>1. ASSUME NEW q \in Requests, NEW s \in Requests, pc'[q] \in Busy, pc'[s] = "done"
        PROVE  <<q, s>> \in raced' \/ began'[s] < began'[q]
    <3>1. s # r /\ pc[s] = "done" /\ began'[s] = began[s]
      BY <1>2, <2>1
    <3>2. CASE q = r
      BY <1>2, <1>3, <3>1, <3>2
    <3>3. CASE q # r
      BY <1>1, <1>2, <2>1, <3>1, <3>3 DEF TInv, OrderOK
    <3> QED BY <3>2, <3>3
  <2> QED BY <2>1 DEF OrderOK
<1>8. TrailOK' /\ RacedOK' /\ TrailMatchesRows' /\ ReadTrailMatchesRows'
  BY <1>1, <1>2, TrailsStand DEF IInv
<1> QED BY <1>6, <1>7, <1>8 DEF TInv

\* Reading, checking and refusing write neither rows nor entries.
LEMMA TrailReadStepOK ==
    ASSUME IInv, TInv, NEW r \in Requests, pc[r] \in Busy,
           NEW st \in Stage, st \notin {"new", "done"},
           Goto(r, st), UNCHANGED <<users, trail, req, began, raced>>
    PROVE  TInv'
<1>1. /\ pc'[r] = st /\ (\A s \in Requests \ {r} : pc'[s] = pc[s])
      /\ (\A s \in Requests : Target(s)' = Target(s) /\ began'[s] = began[s])
      /\ pc[r] \notin {"new", "done"}
  BY DEF IInv, TypeOK, Goto, Target, Busy
<1>2. BeganOK'
  BY <1>1 DEF TInv, BeganOK, Started
<1>3. OrderOK'
  BY <1>1 DEF TInv, OrderOK
<1>4. TrailOK' /\ RacedOK' /\ TrailMatchesRows' /\ ReadTrailMatchesRows'
  BY <1>1, TrailsStand DEF IInv
<1> QED BY <1>2, <1>3, <1>4 DEF TInv

LEMMA TrailDecideOK ==
    ASSUME IInv, TInv, NEW r \in Requests,
           Load(r) \/ CheckEmail(r) \/ CheckRole(r) \/ CheckCreate(r) \/ VerifyOwn(r)
    PROVE  TInv'
<1>1. /\ pc[r] \in Busy /\ UNCHANGED <<users, trail, req, began, raced>>
      /\ \E st \in {"email", "role", "flush", "refused"} : Goto(r, st)
  BY DEF Load, CheckEmail, CheckRole, CheckCreate, VerifyOwn, Busy
<1> QED BY <1>1, TrailReadStepOK DEF Stage

\* What a commit does to the user's row and to the trail.
CommitsRole(r) ==
    LET u == Target(r) IN
    /\ u \in Users /\ users' \in [Users -> UserRow \union {NoOne}]
    /\ \A v \in Users \ {u} : users'[v] = users[v]
    /\ \A v \in Existing' : v = u \/ v \in Existing
    /\ changes[r].role # NoOne => users'[u].role = changes[r].role
    /\ changes[r].role = NoOne => u \in Existing /\ users'[u].role = users[u].role

CommitsEntry(r) ==
    /\ Len(trail) \in Nat /\ trail' \in Seq(Entries)
    /\ \A k \in 1..Len(trail) : trail'[k] = trail[k]
    /\ \/ trail' = trail /\ changes[r].role = NoOne
       \/ /\ Len(trail') = Len(trail) + 1
          /\ trail'[Len(trail) + 1] \in Entries
          /\ trail'[Len(trail) + 1] = Entry(r)

LEMMA CommitRole == ASSUME IInv, NEW r \in Requests, Commit(r) PROVE CommitsRole(r)
<1>1. /\ RequestOK(r) /\ pc[r] = "flush" /\ req[r] \in Asked /\ req[r] # NoOne
      /\ changes[r] \in Changes /\ Target(r) \in Users
      /\ req[r].actor \in Users /\ users[req[r].actor] \in UserRow
  BY DEF IInv, TypeOK, EachOK, RequestOK, Commit, Asked, Target, Existing
<1>2. PICK u \in Users : u = Target(r)
  BY <1>1
<1>3. CASE Creates(r)
  <2> DEFINE row == [org |-> Org(r), email |-> changes[r].email, role |-> changes[r].role,
                     password |-> changes[r].password]
  <2>1. users' = [users EXCEPT ![u] = row]
    BY <1>2, <1>3 DEF Commit, Target, Creates
  <2>2. changes[r].role # NoOne /\ changes[r].email # NoOne /\ changes[r].password # NoOne
    BY <1>1, <1>3 DEF RequestOK
  <2>3. row \in UserRow
    BY <1>1, <2>2 DEF UserRow, Changes, Org
  <2> QED BY <1>2, <2>1, <2>2, <2>3 DEF CommitsRole, IInv, TypeOK, Existing
<1>4. CASE ~Creates(r)
  <2> DEFINE row == [users[u] EXCEPT !.email = Written(@, changes[r].email),
                                     !.role = Written(@, changes[r].role),
                                     !.password = Written(@, changes[r].password)]
  <2>1. users' = [users EXCEPT ![u] = row]
    BY <1>2, <1>4 DEF Commit, Target, Creates
  <2>2. u \in Existing /\ users[u] \in UserRow
    BY <1>1, <1>2, <1>4 DEF RequestOK, IInv, TypeOK, Existing
  <2>3. row \in UserRow /\ row.role = Written(users[u].role, changes[r].role)
    BY <1>1, <2>2 DEF UserRow, Written, Changes
  <2> HIDE DEF row
  <2> QED BY <1>2, <2>1, <2>2, <2>3 DEF CommitsRole, IInv, TypeOK, Existing, Written
<1> QED BY <1>3, <1>4

LEMMA CommitEntry == ASSUME IInv, TrailOK, NEW r \in Requests, Commit(r) PROVE CommitsEntry(r)
<1>1. /\ RequestOK(r) /\ pc[r] = "flush" /\ req[r] \in Asked /\ changes[r] \in Changes
      /\ trail' = IF changes[r] = NoChange THEN trail ELSE Append(trail, Entry(r))
  BY DEF IInv, TypeOK, EachOK, RequestOK, Commit, Audit
<1>2. Entry(r) \in Entries
  BY <1>1 DEF Entry, Entries, Asked, Changes
<1>3. trail \in Seq(Entries) /\ Len(trail) \in Nat
  BY DEF TrailOK
<1>4. CASE changes[r] = NoChange
  BY <1>1, <1>3, <1>4 DEF CommitsEntry, NoChange
<1>5. CASE changes[r] # NoChange
  <2>1. trail' = Append(trail, Entry(r))
    BY <1>1, <1>5
  <2>2. /\ trail' \in Seq(Entries) /\ Len(trail') = Len(trail) + 1
        /\ trail'[Len(trail) + 1] = Entry(r)
        /\ \A k \in 1..Len(trail) : trail'[k] = trail[k]
    BY <1>2, <1>3, <2>1
  <2> QED BY <1>2, <1>3, <2>2 DEF CommitsEntry
<1> QED BY <1>4, <1>5

LEMMA TrailCommitOK == ASSUME IInv, TInv, NEW r \in Requests, Commit(r) PROVE TInv'
<1>1. /\ pc[r] = "flush" /\ Goto(r, "done") /\ UNCHANGED <<req, loaded, changes, began>>
      /\ raced' = raced \union {<<s, r>> : s \in UnderWay \ {r}}
  BY DEF Commit
<1>2. /\ pc'[r] = "done" /\ (\A s \in Requests \ {r} : pc'[s] = pc[s]) /\ r \in Requests
      /\ (\A s \in Requests : Target(s)' = Target(s) /\ began'[s] = began[s])
      /\ raced \subseteq raced' /\ pc[r] \in Busy
  BY <1>1 DEF IInv, TypeOK, Goto, Target, Busy
<1>3. CommitsRole(r) /\ CommitsEntry(r)
  BY CommitRole, CommitEntry DEF TInv
<1>4. /\ Entry(r).by = r /\ Entry(r).user = Target(r) /\ Entry(r).role = changes[r].role
  BY DEF Entry, Target
<1>5. BeganOK'
  BY <1>1, <1>2 DEF TInv, BeganOK, Started
<1>6. TrailOK'
  <2>1. ASSUME NEW k \in 1..Len(trail')
        PROVE  pc'[trail'[k].by] = "done" /\ req'[trail'[k].by].target = trail'[k].user
    <3>1. CASE k \in 1..Len(trail)
      <4>1. /\ trail'[k] = trail[k] /\ trail[k].by \in Requests
            /\ pc[trail[k].by] = "done" /\ Target(trail[k].by) = trail[k].user
        BY <1>3, <3>1, TrailEntry DEF CommitsEntry, TInv
      <4> QED BY <1>1, <1>2, <4>1 DEF Target
    <3>2. CASE k \notin 1..Len(trail)
      <4>1. k = Len(trail) + 1 /\ trail'[k] = Entry(r)
        BY <1>3, <3>2 DEF CommitsEntry
      <4> QED BY <1>1, <1>2, <1>4, <4>1 DEF Target
    <3> QED BY <3>1, <3>2
  <2> QED BY <1>3, <2>1 DEF TrailOK, CommitsEntry, Target
<1>7. RacedOK'
  <2>1. ASSUME NEW p \in raced' PROVE pc'[p[1]] # "new" /\ pc'[p[2]] # "new"
    <3>1. CASE p \in raced
      BY <1>2, <3>1 DEF TInv, RacedOK, IInv, TypeOK
    <3>2. CASE p \notin raced
      <4>1. PICK s \in UnderWay \ {r} : p = <<s, r>>
        BY <1>1, <2>1, <3>2
      <4> QED BY <1>2, <4>1 DEF UnderWay
    <3> QED BY <3>1, <3>2
  <2> QED BY <2>1 DEF RacedOK
<1>8. OrderOK'
  <2>1. ASSUME NEW q \in Requests, NEW s \in Requests, pc'[q] \in Busy, pc'[s] = "done"
        PROVE  <<q, s>> \in raced' \/ began'[s] < began'[q]
    <3>1. q # r /\ pc[q] \in Busy
      BY <1>2, <2>1 DEF Busy
    <3>2. CASE s = r
      BY <1>1, <3>1, <3>2 DEF UnderWay, Busy
    <3>3. CASE s # r
      BY <1>2, <2>1, <3>1, <3>3 DEF TInv, OrderOK
    <3> QED BY <3>2, <3>3
  <2> QED BY <2>1 DEF OrderOK
<1>9. \A v \in Existing' : Answered(v)' /\ (ReadAnswered(v)' \/ Overlapped(v)')
  <2>1. ASSUME NEW v \in Existing', v # Target(r) \/ changes[r].role = NoOne
        PROVE  Answered(v)' /\ (ReadAnswered(v)' \/ Overlapped(v)')
    <3>1. v \in Users /\ v \in Existing /\ Answered(v) /\ (ReadAnswered(v) \/ Overlapped(v))
      BY <1>3, <2>1, TrailsBySubject DEF CommitsRole, TInv, Existing
    <3>2. users'[v].role = users[v].role
      BY <1>3, <2>1, <3>1 DEF CommitsRole
    <3>3. Naming(v)' = Naming(v)
      BY <1>3, <1>4, <2>1 DEF CommitsEntry, Naming
    <3> QED BY <1>2, <1>3, <3>1, <3>2, <3>3, TellingStands DEF IInv, TInv, CommitsEntry
  <2>2. ASSUME NEW v \in Existing', v = Target(r), changes[r].role # NoOne
        PROVE  Answered(v)' /\ (ReadAnswered(v)' \/ Overlapped(v)')
    <3>0. PICK n \in Nat : n = Len(trail) + 1
      BY <1>3 DEF CommitsEntry
    <3>1. n \in Naming(v)' /\ Tells(v, n)'
      BY <1>3, <1>4, <2>2, <3>0 DEF CommitsRole, CommitsEntry, Naming, Tells
    <3>2. \A j \in Naming(v)' : /\ j \in 1..n
                                /\ j # n => j \in 1..Len(trail) /\ trail'[j] = trail[j]
                                            /\ trail[j].user = v
      BY <1>3, <2>2, <3>0 DEF CommitsEntry, Naming
    <3>3. \A j \in Naming(v)' : j <= n
      BY <1>3, <3>2 DEF CommitsEntry
    <3>4. CASE \E s \in Requests \ {r} : Raced(r, s) /\ Target(s) = v
      <4>1. Overlapped(v)'
        BY <1>2, <2>2, <3>4 DEF Overlapped, Raced
      <4> QED BY <3>1, <3>3, <4>1 DEF Answered
    <3>5. CASE \A s \in Requests \ {r} : ~Raced(r, s) \/ Target(s) # v
      <4>1. ASSUME NEW j \in Naming(v)' PROVE NoLater(j, n)'
        <5>0. trail'[n].by = r /\ began'[r] = began[r] /\ began[r] \in Nat
          BY <1>2, <1>3, <1>4, <2>2, <3>0 DEF CommitsEntry, TInv, BeganOK
        <5>1. CASE j = n
          BY <5>0, <5>1 DEF NoLater
        <5>2. CASE j # n
          <6>1. /\ trail'[j] = trail[j] /\ trail[j].by \in Requests /\ pc[trail[j].by] = "done"
                /\ Target(trail[j].by) = v
            BY <3>2, <4>1, <5>2, TrailEntry DEF TInv
          <6>2. PICK s \in Requests : s = trail[j].by
            BY <6>1
          <6>3. pc[s] = "done" /\ Target(s) = v /\ s # r
            BY <1>1, <6>1, <6>2
          <6>4. began[s] < began[r] /\ began[s] \in Nat
            BY <1>2, <3>5, <6>3 DEF TInv, OrderOK, BeganOK, Raced
          <6> QED BY <1>2, <5>0, <6>1, <6>2, <6>4 DEF NoLater
        <5> QED BY <5>1, <5>2
      <4> QED BY <3>1, <3>3, <4>1 DEF Answered, ReadAnswered
    <3> QED BY <3>4, <3>5
  <2> QED BY <2>1, <2>2
<1>10. TrailMatchesRows' /\ ReadTrailMatchesRows'
  BY <1>9 DEF TrailMatchesRows, ReadTrailMatchesRows, Answered, ReadAnswered, Overlapped, Target
<1> QED BY <1>5, <1>6, <1>7, <1>8, <1>10 DEF TInv

LEMMA TrailNextOK == IInv /\ TInv /\ [Next]_vars => TInv'
<1> SUFFICES ASSUME IInv, TInv, [Next]_vars PROVE TInv'
  OBVIOUS
<1>1. ASSUME UNCHANGED vars PROVE TInv'
  <2>1. BeganOK' /\ OrderOK'
    BY <1>1 DEF vars, TInv, BeganOK, Started, OrderOK
  <2>2. TrailOK' /\ RacedOK' /\ TrailMatchesRows' /\ ReadTrailMatchesRows'
    BY <1>1, TrailsStand DEF vars, IInv, Target
  <2> QED BY <2>1, <2>2 DEF TInv
<1> QED BY <1>1, TrailAuthenticateOK, TrailDecideOK, TrailCommitOK DEF Next, Finished

LEMMA TrailInvariance == Spec => []TInv
<1> QED BY TrailInitOK, TrailNextOK, Invariance, PTL DEF Spec

\* The audit trail never diverges from the user table: the last committed entry
\* that names a role of a user's tells the role of the row (_add_user_audit in
\* the transaction of the change).
THEOREM TrailIsTrue == Spec => []TrailMatchesRows
<1>1. TInv => TrailMatchesRows
  BY DEF TInv
<1> QED BY <1>1, TrailInvariance, PTL

\* Read newest first (list_audit_logs), by the time each transaction began, the
\* trail is as true, unless two changes of the same user overlapped.
THEOREM TrailReadsTrue == Spec => []ReadTrailMatchesRows
<1>1. TInv => ReadTrailMatchesRows
  BY DEF TInv
<1> QED BY <1>1, TrailInvariance, PTL

=============================================================================
