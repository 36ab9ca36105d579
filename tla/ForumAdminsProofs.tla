------------------------- MODULE ForumAdminsProofs -------------------------
(***************************************************************************)
(* Who administers a forum, for any sets of requests, users, forums and    *)
(* names: one owner, one forum per name, and no role that changes without  *)
(* the entitlement.                                                        *)
(*                                                                         *)
(* An endpoint decides on roles that are stale by its statement.  What     *)
(* survives until then is in Sound: forums do not go, the owner of a forum *)
(* never changes, and the roles that were read are among those the caller  *)
(* and the target have had since the request began.                        *)
(***************************************************************************)
EXTENDS ForumAdmins, TLAPS

Role == Roles \cup {NoRole}

\* What a request q may rely on.
Sound(q) ==
    /\ role[q.forum][q.by] \in q.callers
    /\ role[q.forum][q.to] \in q.targets
    /\ q.kind = "create" => q.at \in {"name", "write"}
    /\ q.kind # "create" => q.at # "name"
    /\ q.at = "user" => q.kind = "add"
    /\ q.kind # "create" /\ q.at # "forum" => forum[q.forum] # NoForum
    /\ q.kind # "create" /\ q.at \in {"target", "user", "write"} =>
          q.caller \in q.callers \cap Roles /\ CallerMay(q, q.caller)
    /\ q.kind \in {"remove", "edit"} /\ q.at = "write" =>
          /\ role[q.forum][q.to] # "OWNER"
          /\ \E t \in q.targets : TargetMay(q, t)

AllSound == \A r \in Request : req[r] # Idle => Sound(req[r])

IInv == TypeOK /\ OneOwner /\ OneName /\ AllSound

(***************************************************************************)
(* What the permissions grant                                              *)
(***************************************************************************)

\* add_admin: a caller that may add in the role asked for may turn nobody into it.
LEMMA AddPermitted ==
    ASSUME NEW q \in Asked, q.kind = "add", NEW c \in Roles, CallerMay(q, c)
    PROVE  MayTurn(c, NoRole, q.new)
    BY DEF CallerMay, check_permission, Mapping, Permissions, OwnerExclusive, MayTurn, Roles,
           NoRole, Asked, Grantable

\* remove_admin
LEMMA RemovePermitted ==
    ASSUME NEW q \in Asked, q.kind = "remove", q.caller \in Roles, NEW t \in Role, TargetMay(q, t)
    PROVE  MayTurn(q.caller, t, NoRole)
    BY DEF TargetMay, check_permission, Mapping, Permissions, OwnerExclusive, MayTurn, Roles,
           NoRole, Role

\* edit_admin_permissions
LEMMA EditPermitted ==
    ASSUME NEW q \in Asked, q.kind = "edit", q.caller \in Roles, NEW t \in Role, TargetMay(q, t)
    PROVE  MayTurn(q.caller, t, q.new)
    BY DEF TargetMay, check_permission, Mapping, Permissions, OwnerExclusive, MayTurn, Roles,
           NoRole, Role, Asked, Grantable

(***************************************************************************)
(* A change of one role                                                    *)
(***************************************************************************)

\* The types of what SetRole changes.
LEMMA SetRoleType ==
    ASSUME TypeOK, NEW f \in Forum, NEW u \in User, NEW new \in Role, NEW r \in Request,
           SetRole(f, u, new, r)
    PROVE  role' \in [Forum -> Admins] /\ req' \in [Request -> Asked \cup {Idle}]
<1>1. role' \in [Forum -> Admins]
    BY DEF TypeOK, SetRole, Admins, Role
<1>2. ASSUME NEW x \in Request
      PROVE  req'[x] \in Asked \cup {Idle}
  <2>1. CASE x = r \/ req[x] = Idle \/ req[x].forum # f
      BY <2>1 DEF TypeOK, SetRole
  <2>2. CASE x # r /\ req[x] # Idle /\ req[x].forum = f
    <3>1. req[x] \in Asked
        BY <2>2 DEF TypeOK
    <3> DEFINE cs == IF req[x].by = u THEN req[x].callers \cup {new} ELSE req[x].callers
               ts == IF req[x].to = u THEN req[x].targets \cup {new} ELSE req[x].targets
    <3>2. cs \in SUBSET Role /\ ts \in SUBSET Role
        BY <3>1 DEF Asked, Role
    <3>3. req'[x] = [req[x] EXCEPT !.callers = cs, !.targets = ts]
        BY <2>2 DEF SetRole
    <3> HIDE DEF cs, ts
    <3>4. req'[x] \in Asked
        BY <3>1, <3>2, <3>3 DEF Asked, Role
    <3> QED BY <3>4
  <2> QED BY <2>1, <2>2
<1> QED BY <1>1, <1>2 DEF SetRole

\* The other requests stay sound: what they have read is now stale, and their histories say so.
LEMMA SetRoleSound ==
    ASSUME IInv, NEW f \in Forum, NEW u \in User, NEW new \in Role, NEW r \in Request,
           SetRole(f, u, new, r),
           \A g \in Forum : forum[g] # NoForum => forum'[g] # NoForum,
           new = "OWNER" => forum[f] = NoForum
    PROVE  AllSound'
<1> SUFFICES ASSUME NEW x \in Request, req'[x] # Idle
             PROVE  Sound(req[x])'
    BY DEF AllSound
<1> DEFINE q == req[x]
<1>1. x # r /\ q # Idle /\ q \in Asked /\ Sound(q)
    BY DEF SetRole, IInv, TypeOK, AllSound
<1>2. CASE q.forum # f
  <2>1. req'[x] = q /\ role'[q.forum] = role[q.forum]
      BY <1>1, <1>2 DEF SetRole, IInv, TypeOK, Admins, Asked
  <2> QED BY <1>1, <2>1 DEF Sound, Asked, CallerMay, TargetMay
<1>3. CASE q.forum = f
  <2>0. PICK p : p = req'[x]
      OBVIOUS
  <2>1. p = [q EXCEPT !.callers = IF q.by = u THEN @ \cup {new} ELSE @,
                      !.targets = IF q.to = u THEN @ \cup {new} ELSE @]
      BY <2>0, <1>1, <1>3 DEF SetRole
  <2>2. /\ p.kind = q.kind /\ p.forum = f /\ p.by = q.by /\ p.to = q.to /\ p.new = q.new
        /\ p.at = q.at /\ p.caller = q.caller
        /\ q.callers \subseteq p.callers /\ q.targets \subseteq p.targets
        /\ q.by = u => new \in p.callers
        /\ q.to = u => new \in p.targets
      BY <2>1, <1>1, <1>3 DEF Asked
  <2>3. \A v \in User : role'[f][v] = IF v = u THEN new ELSE role[f][v]
      BY DEF SetRole, IInv, TypeOK, Admins
  <2>4. q.by \in User /\ q.to \in User
      BY <1>1 DEF Asked
  <2>5. role'[p.forum][p.by] \in p.callers /\ role'[p.forum][p.to] \in p.targets
      BY <2>2, <2>3, <2>4, <1>1, <1>3 DEF Sound
  <2>6. p.kind # "create" /\ p.at # "forum" => forum[f] # NoForum /\ forum'[p.forum] # NoForum
      BY <2>2, <1>1, <1>3 DEF Sound
  <2>7. \A c : CallerMay(q, c) => CallerMay(p, c)
      BY <2>2 DEF CallerMay
  <2>8. \A t : q.kind \in {"remove", "edit"} /\ TargetMay(q, t) => TargetMay(p, t)
      BY <2>2 DEF TargetMay
  <2>9. ASSUME p.kind \in {"remove", "edit"}, p.at = "write"
        PROVE  role'[p.forum][p.to] # "OWNER" /\ \E t \in p.targets : TargetMay(p, t)
    <3>1. forum[f] # NoForum
        BY <2>6, <2>9
    <3>2. role[f][q.to] # "OWNER" /\ \E t \in q.targets : TargetMay(q, t)
        BY <2>2, <2>9, <1>1, <1>3 DEF Sound
    <3>3. role'[p.forum][p.to] # "OWNER"
        BY <2>2, <2>3, <2>4, <3>1, <3>2
    <3> QED BY <2>2, <2>8, <2>9, <3>2, <3>3
  <2>10. p.kind # "create" /\ p.at \in {"target", "user", "write"} =>
             p.caller \in p.callers \cap Roles /\ CallerMay(p, p.caller)
      BY <2>2, <2>7, <1>1 DEF Sound
  <2>11. /\ p.kind = "create" => p.at \in {"name", "write"}
         /\ p.kind # "create" => p.at # "name"
         /\ p.at = "user" => p.kind = "add"
      BY <2>2, <1>1 DEF Sound
  <2>12. Sound(p)'
      BY <2>5, <2>6, <2>9, <2>10, <2>11 DEF Sound, CallerMay, TargetMay
  <2> QED BY <2>0, <2>12 DEF Sound, CallerMay, TargetMay
<1> QED BY <1>2, <1>3

(***************************************************************************)
(* The invariant                                                           *)
(***************************************************************************)

\* The initial state.
LEMMA InitIInv == Init => IInv
<1> SUFFICES ASSUME Init PROVE IInv
    OBVIOUS
<1>1. TypeOK /\ OneName /\ AllSound
    BY DEF Init, TypeOK, OneName, AllSound, Admins
<1>2. \A f \in Forum : \A u \in User : role[f][u] # "OWNER"
    BY DEF Init, NoRole
<1>3. OneOwner
    BY <1>2 DEF Init, OneOwner
<1> QED BY <1>1, <1>3 DEF IInv

\* The lookups and failures: nobody's role changes, and one request moves on by what its
\* lookup returned.
Lookup(r) ==
    \/ \E k \in Kinds, u, t \in User, f \in Forum, new \in Grantable, n \in Name :
          Begin(r, k, u, f, t, new, n)
    \/ get_forum(r) \/ get_caller(r) \/ get_target(r) \/ get_user(r) \/ get_forum_by_name(r)
    \/ Fail(r)

\* A lookup leaves the tables alone and one request moves on, to a request of its type.
LEMMA LookupStep ==
    ASSUME IInv, NEW r \in Request, Lookup(r)
    PROVE  /\ UNCHANGED <<forum, role>>
           /\ req' = [req EXCEPT ![r] = req'[r]]
           /\ req'[r] \in Asked \cup {Idle}
           /\ req'[r] # Idle => Sound(req'[r])
<1> USE DEF IInv, TypeOK, Asked, Kinds, Steps, Grantable, Roles, NoRole
<1>0. UNCHANGED <<forum, role>>
    BY DEF Lookup, Begin, get_forum, get_caller, get_target, get_user, get_forum_by_name, Fail
<1>1. ASSUME NEW k \in Kinds, NEW u \in User, NEW t \in User, NEW f \in Forum,
             NEW new \in Grantable, NEW n \in Name, Begin(r, k, u, f, t, new, n)
      PROVE  /\ req' = [req EXCEPT ![r] = req'[r]]
             /\ req'[r] \in Asked
             /\ Sound(req'[r])
  <2>1. role[f][u] \in Role /\ role[f][t] \in Role
      BY DEF Admins, Role
  <2> QED BY <1>1, <2>1 DEF Begin, Sound, Role
<1>2. CASE get_forum(r)
    BY <1>2 DEF get_forum, At, Advance, AllSound, Sound
<1>3. CASE get_caller(r)
  <2> DEFINE c == role[req[r].forum][req[r].by]
             at == IF req[r].kind = "edit_forum" THEN "write" ELSE "target"
  <2>1. req[r] \in Asked /\ Sound(req[r]) /\ req[r].at = "caller" /\ c # NoRole /\ CallerMay(req[r], c)
      BY <1>3 DEF get_caller, At, AllSound
  <2>2. c \in Roles
      BY <2>1 DEF Admins
  <2>3. req' = [req EXCEPT ![r] = [req[r] EXCEPT !.caller = c, !.at = at]]
      BY <1>3 DEF get_caller
  <2>4. c \in req[r].callers
      BY <2>1 DEF Sound
  <2>5. at \in {"write", "target"} /\ (at = "write" => req[r].kind = "edit_forum")
      OBVIOUS
  <2> HIDE DEF c, at
  <2>6. PICK p : p = [req[r] EXCEPT !.caller = c, !.at = at]
      OBVIOUS
  <2>7. /\ p \in Asked /\ p.at = at /\ p.caller = c /\ p.new = req[r].new
        /\ p.kind = req[r].kind /\ p.forum = req[r].forum /\ p.by = req[r].by /\ p.to = req[r].to
        /\ p.callers = req[r].callers /\ p.targets = req[r].targets
      BY <2>1, <2>2, <2>5, <2>6
  <2>8. CallerMay(p, c)
      BY <2>1, <2>7 DEF CallerMay
  <2>9. Sound(p)
      BY <2>1, <2>2, <2>4, <2>5, <2>7, <2>8 DEF Sound
  <2>10. req' = [req EXCEPT ![r] = p]
      BY <2>3, <2>6
  <2>11. req'[r] = p
      BY <2>10
  <2> QED BY <1>0, <2>7, <2>9, <2>10, <2>11
<1>4. ASSUME get_target(r) \/ get_user(r)
      PROVE  /\ req' = [req EXCEPT ![r] = req'[r]]
             /\ req'[r] \in Asked
             /\ Sound(req'[r])
  <2>1. /\ req[r] \in Asked /\ Sound(req[r])
        /\ req[r].kind # "create" /\ req[r].at \in {"target", "user"}
      BY <1>4 DEF get_target, get_user, At, AllSound, Sound
  <2>2. PICK at \in {"write", "user"} :
            /\ req' = [req EXCEPT ![r] = [req[r] EXCEPT !.at = at]]
            /\ at = "user" => req[r].kind = "add"
      BY <1>4 DEF get_target, get_user, Advance
  <2>3. PICK p : p = [req[r] EXCEPT !.at = at]
      OBVIOUS
  <2>4. /\ p \in Asked /\ p.at = at /\ p.caller = req[r].caller /\ p.new = req[r].new
        /\ p.kind = req[r].kind /\ p.forum = req[r].forum /\ p.by = req[r].by /\ p.to = req[r].to
        /\ p.callers = req[r].callers /\ p.targets = req[r].targets
      BY <2>1, <2>3
  <2>5. req[r].kind \in {"remove", "edit"} =>
            /\ role[p.forum][p.to] # "OWNER"
            /\ \E t \in req[r].targets : TargetMay(req[r], t)
      BY <1>4, <2>1, <2>4 DEF get_target, get_user, At, Sound, TargetMay
  <2>6. \A t : req[r].kind \in {"remove", "edit"} /\ TargetMay(req[r], t) => TargetMay(p, t)
      BY <2>4 DEF TargetMay
  <2>7. CallerMay(p, p.caller) /\ p.caller \in p.callers \cap Roles
      BY <2>1, <2>4 DEF Sound, CallerMay
  <2>8. Sound(p)
      BY <2>1, <2>2, <2>4, <2>5, <2>6, <2>7 DEF Sound
  <2> QED BY <2>1, <2>2, <2>3, <2>4, <2>8
<1>6. CASE get_forum_by_name(r)
    BY <1>6 DEF get_forum_by_name, At, Advance, AllSound, Sound
<1>7. CASE Fail(r)
    BY <1>7 DEF Fail
<1> QED BY <1>0, <1>1, <1>2, <1>3, <1>4, <1>6, <1>7 DEF Lookup

\* Lookups keep the invariant.
LEMMA LookupIInv ==
    ASSUME IInv, NEW r \in Request, Lookup(r)
    PROVE  IInv'
<1>1. /\ UNCHANGED <<forum, role>>
      /\ req' = [req EXCEPT ![r] = req'[r]]
      /\ req'[r] \in Asked \cup {Idle}
      /\ req'[r] # Idle => Sound(req'[r])
    BY LookupStep
<1>2. TypeOK' /\ OneOwner' /\ OneName'
    BY <1>1 DEF IInv, TypeOK, OneOwner, OneName
<1>3. ASSUME NEW x \in Request, req'[x] # Idle
      PROVE  Sound(req[x])'
  <2>1. PICK p : p = req'[x]
      OBVIOUS
  <2>2. Sound(p)
      BY <1>1, <1>3, <2>1 DEF IInv, TypeOK, AllSound
  <2>3. Sound(p)'
      BY <1>1, <2>2 DEF Sound, CallerMay, TargetMay
  <2> QED BY <2>1, <2>3 DEF Sound, CallerMay, TargetMay
<1> QED BY <1>2, <1>3 DEF IInv, AllSound

\* create_forum: the new forum's only owner is its creator, and its name is free.
LEMMA CreateIInv ==
    ASSUME IInv, NEW r \in Request, create_forum(r)
    PROVE  IInv'
<1> DEFINE q == req[r]
           new == [name |-> q.name, creator |-> q.by, edited |-> FALSE]
<1>1. /\ q \in Asked /\ forum[q.forum] = NoForum /\ NameFree(q.name)
      /\ forum' = [forum EXCEPT ![q.forum] = new]
      /\ SetRole(q.forum, q.by, "OWNER", r)
    BY DEF create_forum, At, IInv, TypeOK
<1>2. q.forum \in Forum /\ q.by \in User /\ q.name \in Name /\ "OWNER" \in Role
    BY <1>1 DEF Asked, Role, Roles
<1>a. new \in Row
    BY <1>2 DEF Row
<1>3. new \in Row /\ new # NoForum
    BY <1>a, ForumAssumption
<1>4. role' \in [Forum -> Admins] /\ req' \in [Request -> Asked \cup {Idle}]
    BY <1>1, <1>2, SetRoleType DEF IInv
<1>5. TypeOK'
    BY <1>1, <1>3, <1>4 DEF IInv, TypeOK
<1>6. \A g \in Forum : forum'[g] = IF g = q.forum THEN new ELSE forum[g]
    BY <1>1, <1>2 DEF IInv, TypeOK
<1>7. AllSound'
    BY <1>1, <1>2, <1>3, <1>6, SetRoleSound
<1>8. OneName'
    BY <1>1, <1>2, <1>6 DEF IInv, OneName, NameFree
<1>9. ASSUME NEW g \in Forum
      PROVE  {u \in User : role'[g][u] = "OWNER"} =
                 IF forum'[g] = NoForum THEN {} ELSE {forum'[g].creator}
  <2>1. \A u \in User : role'[g][u] = IF g = q.forum /\ u = q.by THEN "OWNER" ELSE role[g][u]
      BY <1>1, <1>2 DEF SetRole, IInv, TypeOK, Admins
  <2>2. {u \in User : role[g][u] = "OWNER"} = IF forum[g] = NoForum THEN {} ELSE {forum[g].creator}
      BY DEF IInv, OneOwner
  <2>3. CASE g = q.forum
    <3>1. forum'[g] # NoForum /\ forum'[g].creator = q.by
        BY <1>3, <1>6, <2>3
    <3>2. \A u \in User : role[g][u] # "OWNER"
        BY <1>1, <2>2, <2>3
    <3> QED BY <1>2, <2>1, <2>3, <3>1, <3>2
  <2>4. CASE g # q.forum
      BY <1>6, <2>1, <2>2, <2>4
  <2> QED BY <2>3, <2>4
<1>10. OneOwner'
    BY <1>9 DEF OneOwner
<1> QED BY <1>5, <1>7, <1>8, <1>10 DEF IInv

\* A change of one role other than the owner's.
LEMMA RoleIInv ==
    ASSUME IInv, UNCHANGED forum, NEW r \in Request, NEW f \in Forum, NEW u \in User,
           NEW new \in Role, SetRole(f, u, new, r), new # "OWNER", role[f][u] # "OWNER"
    PROVE  IInv'
<1>1. TypeOK'
    BY SetRoleType DEF IInv, TypeOK
<1>2. AllSound'
    BY SetRoleSound
<1>3. \A g \in Forum : \A v \in User : role'[g][v] = "OWNER" <=> role[g][v] = "OWNER"
    BY DEF SetRole, IInv, TypeOK, Admins
<1>4. OneOwner' /\ OneName'
    BY <1>3 DEF IInv, OneOwner, OneName
<1> QED BY <1>1, <1>2, <1>4 DEF IInv

\* add_forum_admin, remove_forum_admin and update_admin_role change one role, not the
\* owner's, of the forum and the target they are about, and what they make of it is what
\* the caller's role, as it was read, permits.
LEMMA WriteStep ==
    ASSUME IInv, NEW r \in Request,
           add_forum_admin(r) \/ remove_forum_admin(r) \/ update_admin_role(r)
    PROVE  /\ UNCHANGED forum
           /\ req[r] \in Asked /\ req[r] # Idle
           /\ \E new \in Role :
                 /\ SetRole(req[r].forum, req[r].to, new, r)
                 /\ new # "OWNER" /\ role[req[r].forum][req[r].to] # "OWNER"
                 /\ new # role[req[r].forum][req[r].to] =>
                       \E c \in req[r].callers, t \in req[r].targets : MayTurn(c, t, new)
<1> DEFINE q == req[r]
           old == role[q.forum][q.to]
<1>1. q \in Asked /\ q # Idle /\ q.at = "write" /\ Sound(q)
    BY DEF add_forum_admin, remove_forum_admin, update_admin_role, At, IInv, TypeOK, AllSound
<1>2. q.new \in Grantable /\ q.targets \subseteq Role /\ q.forum \in Forum /\ q.to \in User
    BY <1>1 DEF Asked, Role
<1>3. NoRole \in Role /\ q.new \in Role /\ q.new # "OWNER" /\ NoRole # "OWNER"
    BY <1>2 DEF Role, Roles, Grantable, NoRole
<1>4. CASE add_forum_admin(r)
  <2>1. q.kind = "add" /\ old = NoRole /\ SetRole(q.forum, q.to, q.new, r) /\ UNCHANGED forum
      BY <1>4 DEF add_forum_admin
  <2>2. q.caller \in q.callers \cap Roles /\ CallerMay(q, q.caller) /\ NoRole \in q.targets
      BY <1>1, <2>1 DEF Sound
  <2>3. MayTurn(q.caller, NoRole, q.new)
      BY <1>1, <2>1, <2>2, AddPermitted
  <2> QED BY <1>1, <1>3, <2>1, <2>2, <2>3
<1>5. CASE remove_forum_admin(r)
  <2>1. q.kind = "remove" /\ SetRole(q.forum, q.to, NoRole, r) /\ UNCHANGED forum
      BY <1>5 DEF remove_forum_admin
  <2>2. /\ q.caller \in q.callers \cap Roles /\ old # "OWNER"
        /\ \E t \in q.targets : TargetMay(q, t)
      BY <1>1, <2>1 DEF Sound
  <2>3. \E t \in q.targets : MayTurn(q.caller, t, NoRole)
      BY <1>1, <1>2, <2>1, <2>2, RemovePermitted
  <2> QED BY <1>1, <1>3, <2>1, <2>2, <2>3
<1>6. CASE update_admin_role(r)
  <2>1. /\ q.kind = "edit" /\ UNCHANGED forum
        /\ SetRole(q.forum, q.to, IF old = NoRole THEN NoRole ELSE q.new, r)
      BY <1>6 DEF update_admin_role
  <2>2. /\ q.caller \in q.callers \cap Roles /\ old # "OWNER"
        /\ \E t \in q.targets : TargetMay(q, t)
      BY <1>1, <2>1 DEF Sound
  <2>3. \E t \in q.targets : MayTurn(q.caller, t, q.new)
      BY <1>1, <1>2, <2>1, <2>2, EditPermitted
  <2> HIDE DEF old
  <2>4. CASE old = NoRole
      BY <1>1, <1>3, <2>1, <2>2, <2>4 DEF old
  <2>5. CASE old # NoRole
      BY <1>1, <1>3, <2>1, <2>2, <2>3, <2>5 DEF old
  <2> QED BY <2>4, <2>5
<1> QED BY <1>4, <1>5, <1>6

\* update_forum: the row keeps its name and its creator.
LEMMA UpdateIInv ==
    ASSUME IInv, NEW r \in Request, update_forum(r)
    PROVE  IInv'
<1> DEFINE f == req[r].forum
<1>1. /\ f \in Forum /\ forum[f] # NoForum /\ forum[f] \in Row
      /\ forum' = [forum EXCEPT ![f] = [forum[f] EXCEPT !.edited = TRUE]]
      /\ req' = [req EXCEPT ![r] = Idle] /\ UNCHANGED role
    BY DEF update_forum, At, IInv, TypeOK, AllSound, Sound, Asked
<1>2. PICK row \in Row : row = [forum[f] EXCEPT !.edited = TRUE]
    BY <1>1 DEF Row
<1>3. row # NoForum /\ row.name = forum[f].name /\ row.creator = forum[f].creator
    BY <1>1, <1>2, ForumAssumption DEF Row
<1>4. \A g \in Forum : forum'[g] = IF g = f THEN row ELSE forum[g]
    BY <1>1, <1>2 DEF IInv, TypeOK
<1>a. forum' = [forum EXCEPT ![f] = row]
    BY <1>1, <1>2
<1>b. forum' \in [Forum -> Row \cup {NoForum}]
    BY <1>a, <1>1 DEF IInv, TypeOK
<1>5. TypeOK'
    BY <1>1, <1>b DEF IInv, TypeOK
<1>6. OneName'
    BY <1>1, <1>3, <1>4 DEF IInv, OneName
<1>8. \A g \in Forum : (forum'[g] = NoForum <=> forum[g] = NoForum)
                        /\ (forum[g] # NoForum => forum'[g].creator = forum[g].creator)
    BY <1>1, <1>3, <1>4
<1>9. OneOwner'
    BY <1>1, <1>8 DEF IInv, OneOwner
<1>7. ASSUME NEW x \in Request, req'[x] # Idle
      PROVE  Sound(req[x])'
  <2>1. req'[x] = req[x] /\ Sound(req[x]) /\ req[x] \in Asked
      BY <1>1, <1>7 DEF IInv, TypeOK, AllSound
  <2>2. PICK p \in Asked : p = req[x] /\ p = req'[x]
      BY <2>1
  <2>3. Sound(p)'
      BY <1>1, <1>3, <1>4, <2>1, <2>2 DEF Sound, Asked, CallerMay, TargetMay
  <2> QED BY <2>2, <2>3 DEF Sound, CallerMay, TargetMay
<1> QED BY <1>5, <1>6, <1>7, <1>9 DEF IInv, AllSound

\* The invariant is inductive.
LEMMA NextIInv == IInv /\ [Next]_vars => IInv'
<1> SUFFICES ASSUME IInv, [Next]_vars PROVE IInv'
    OBVIOUS
<1>1. ASSUME NEW r \in Request, Lookup(r)
      PROVE  IInv'
    BY <1>1, LookupIInv
<1>2. ASSUME NEW r \in Request, create_forum(r)
      PROVE  IInv'
    BY <1>2, CreateIInv
<1>3. ASSUME NEW r \in Request, update_forum(r)
      PROVE  IInv'
    BY <1>3, UpdateIInv
<1>4. ASSUME NEW r \in Request, add_forum_admin(r) \/ remove_forum_admin(r) \/ update_admin_role(r)
      PROVE  IInv'
  <2>1. req[r].forum \in Forum /\ req[r].to \in User
      BY <1>4, WriteStep DEF Asked
  <2> QED BY <1>4, <2>1, WriteStep, RoleIInv
<1>5. CASE UNCHANGED vars
  <2>1. TypeOK' /\ OneOwner' /\ OneName'
      BY <1>5 DEF vars, IInv, TypeOK, OneOwner, OneName
  <2>2. ASSUME NEW x \in Request, req'[x] # Idle
        PROVE  Sound(req[x])'
    <3>1. PICK p : p = req[x]
        OBVIOUS
    <3>2. forum' = forum /\ role' = role /\ req'[x] = p /\ Sound(p)
        BY <1>5, <2>2, <3>1 DEF vars, IInv, AllSound
    <3>3. Sound(p)'
        BY <3>2 DEF Sound, CallerMay, TargetMay
    <3> QED BY <3>2, <3>3 DEF Sound, CallerMay, TargetMay
  <2> QED BY <2>1, <2>2 DEF IInv, AllSound
<1> QED BY <1>1, <1>2, <1>3, <1>4, <1>5 DEF Next, Lookup

\* The invariant of ForumAdmins.
LEMMA Invariant == Spec => []IInv
    BY InitIInv, NextIInv, PTL DEF Spec

(***************************************************************************)
(* The theorems                                                            *)
(***************************************************************************)

\* The tables and the requests keep their types through every endpoint.
THEOREM ForumTypes == Spec => []TypeOK
<1>1. IInv => TypeOK
    BY DEF IInv
<1> QED BY Invariant, <1>1, PTL

\* However the endpoints of routers/forums.py interleave, in any number of requests, a forum has
\* exactly the owner that created it.
THEOREM AlwaysOneOwner == Spec => []OneOwner
<1>1. IInv => OneOwner
    BY DEF IInv
<1> QED BY Invariant, <1>1, PTL

\* No two forums have one name, whatever create_forum looked up before it inserted.
THEOREM AlwaysOneName == Spec => []OneName
<1>1. IInv => OneName
    BY DEF IInv
<1> QED BY Invariant, <1>1, PTL

\* Every step satisfies what ChangeEntitled says of it.
LEMMA StepEntitled ==
    ASSUME IInv, [Next]_vars
    PROVE  /\ \A f \in Forum, u \in User :
                 role'[f][u] # role[f][u] /\ forum[f] # NoForum
                 => \E r \in Request :
                       /\ req[r] # Idle /\ req'[r] = Idle
                       /\ req[r].forum = f /\ req[r].to = u
                       /\ \E c \in req[r].callers, t \in req[r].targets :
                             MayTurn(c, t, role'[f][u])
           /\ \A f \in Forum :
                 forum'[f] # forum[f] /\ forum[f] # NoForum
                 => \E r \in Request :
                       /\ req[r] # Idle /\ req'[r] = Idle
                       /\ req[r].forum = f /\ req[r].callers \cap Editors # {}
<1> USE DEF IInv, TypeOK
<1>1. ASSUME NEW r \in Request, Lookup(r)
      PROVE  UNCHANGED <<forum, role>>
    BY <1>1, LookupStep
<1>2. ASSUME NEW r \in Request, create_forum(r), NEW f \in Forum, forum[f] # NoForum
      PROVE  forum'[f] = forum[f] /\ role'[f] = role[f]
    BY <1>2 DEF create_forum, SetRole, Admins
<1>3. ASSUME NEW r \in Request, update_forum(r), NEW f \in Forum, forum'[f] # forum[f]
      PROVE  /\ UNCHANGED role
             /\ req[r] # Idle /\ req'[r] = Idle
             /\ req[r].forum = f /\ req[r].callers \cap Editors # {}
  <2>1. /\ req[r] # Idle /\ Sound(req[r]) /\ req[r].kind = "edit_forum" /\ req[r].at = "write"
        /\ req' = [req EXCEPT ![r] = Idle] /\ UNCHANGED role
        /\ forum' = [forum EXCEPT ![req[r].forum].edited = TRUE]
      BY <1>3 DEF update_forum, At, AllSound
  <2>2. req[r].callers \cap Editors # {}
      BY <2>1 DEF Sound, Editors, Roles
  <2>3. req[r].forum = f
      BY <1>3, <2>1
  <2> QED BY <2>1, <2>2, <2>3
<1>4. ASSUME NEW r \in Request, add_forum_admin(r) \/ remove_forum_admin(r) \/ update_admin_role(r),
             NEW f \in Forum, NEW u \in User, role'[f][u] # role[f][u]
      PROVE  /\ req[r] # Idle /\ req'[r] = Idle /\ req[r].forum = f /\ req[r].to = u
             /\ \E c \in req[r].callers, t \in req[r].targets : MayTurn(c, t, role'[f][u])
  <2>1. req[r] \in Asked /\ req[r] # Idle
      BY <1>4, WriteStep
  <2>2. PICK new \in Role :
            /\ SetRole(req[r].forum, req[r].to, new, r)
            /\ new # role[req[r].forum][req[r].to] =>
                  \E c \in req[r].callers, t \in req[r].targets : MayTurn(c, t, new)
      BY <1>4, WriteStep
  <2>3. req'[r] = Idle /\ role' = [role EXCEPT ![req[r].forum][req[r].to] = new]
      BY <2>2 DEF SetRole
  <2>4. f = req[r].forum /\ u = req[r].to /\ role'[f][u] = new
      BY <1>4, <2>1, <2>3 DEF Asked, Admins
  <2> QED BY <1>4, <2>1, <2>2, <2>3, <2>4
<1>5. ASSUME NEW r \in Request, add_forum_admin(r) \/ remove_forum_admin(r) \/ update_admin_role(r)
      PROVE  UNCHANGED forum
    BY <1>5, WriteStep
<1>6. ASSUME NEW f \in Forum, NEW u \in User, role'[f][u] # role[f][u], forum[f] # NoForum
      PROVE  \E r \in Request :
                /\ req[r] # Idle /\ req'[r] = Idle
                /\ req[r].forum = f /\ req[r].to = u
                /\ \E c \in req[r].callers, t \in req[r].targets : MayTurn(c, t, role'[f][u])
  <2>1. PICK r \in Request : add_forum_admin(r) \/ remove_forum_admin(r) \/ update_admin_role(r)
      BY <1>1, <1>2, <1>3, <1>6 DEF Next, Lookup, vars, update_forum
  <2> QED BY <1>4, <1>6, <2>1
<1>7. ASSUME NEW f \in Forum, forum'[f] # forum[f], forum[f] # NoForum
      PROVE  \E r \in Request :
                /\ req[r] # Idle /\ req'[r] = Idle
                /\ req[r].forum = f /\ req[r].callers \cap Editors # {}
  <2>1. PICK r \in Request : update_forum(r)
      BY <1>1, <1>2, <1>5, <1>7 DEF Next, Lookup, vars
  <2> QED BY <1>3, <1>7, <2>1
<1> QED BY <1>6, <1>7

\* In any number of requests, a role changes only by a request whose caller and target held,
\* during that request, roles that entitle to the change, however stale they are when
\* add_admin, remove_admin or edit_admin_permissions comes to its statement.
THEOREM ChangesEntitled == Spec => ChangeEntitled
<1>1. IInv /\ [Next]_vars => ChangeEntitled!1
    BY StepEntitled
<1> QED BY Invariant, <1>1, PTL DEF Spec, ChangeEntitled
=============================================================================
