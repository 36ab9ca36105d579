---------------------------- MODULE ForumAdmins ----------------------------
(***************************************************************************)
(* Who administers a forum: the endpoints of routers/forums.py that create *)
(* a forum, edit it, and add, remove, promote or demote its admins.  Each  *)
(* is a chain of lookups (the forum, the caller's role, the target's role, *)
(* the target user), a decision on what they returned, and one statement   *)
(* in a session of its own: what was looked up may have changed by then.   *)
(* The database gives what its constraints give and nothing more: one row  *)
(* per (forum, user) and one forum per name.                               *)
(*                                                                         *)
(* A lookup returns the row the database holds or raises, which is what    *)
(* happens when the cache has an entry: its keys are bytes and the row     *)
(* cannot be rebuilt (CacheLoad).  With that repaired it may also return   *)
(* None although there is a row, from a negative entry that outlives the   *)
(* insertion; the model has both.  A statement succeeds or raises.         *)
(***************************************************************************)
EXTENDS FiniteSets

CONSTANTS
    Request,      \* requests in progress, in any worker process
    User,
    Forum,        \* forum ids
    Name,         \* forum names
    NoForum,      \* a forum id without a row
    Idle          \* a request slot in which nothing runs

ASSUME RequestAssumption == IsFiniteSet(Request) /\ Idle \notin Request
ASSUME UserAssumption == User # {}

\* A row of the forums table.
Row == [name : Name, creator : User, edited : BOOLEAN]

ASSUME ForumAssumption == NoForum \notin Row

Roles == {"ADMIN", "SUPER", "OWNER"}
Grantable == {"ADMIN", "SUPER"}            \* AdminAddModel.role
NoRole == "none"

VARIABLES
    forum,        \* the forums table: a row, or NoForum
    role,         \* the forum_admins table: each user's role in each forum, or NoRole
    req           \* each request: what it asks, what its lookups returned, its next step

vars == <<forum, role, req>>

(***************************************************************************)
(* models/admin_permissions.py                                             *)
(***************************************************************************)

Permissions ==
    {"ADD_RULE", "ADD_ADMIN", "ADD_SUPER", "EDIT_FORUM", "DEMOTE_TO_ADMIN",
     "PROMOTE_TO_SUPER", "REMOVE_ADMIN", "REMOVE_SUPER", "DELETE_COMMENT",
     "DELETE_POST", "DELETE_RULE", "DELETE_FORUM"}

OwnerExclusive == {"ADD_SUPER", "REMOVE_SUPER", "DELETE_FORUM"}

Mapping == [OWNER |-> Permissions,
            SUPER |-> Permissions \ OwnerExclusive,
            ADMIN |-> {"DELETE_POST", "DELETE_COMMENT"}]

check_permission(r, permission) == permission \in Mapping[r]

(***************************************************************************)
(* Requests.  callers and targets are history: the roles the caller and    *)
(* the target have had in the forum since the request began.               *)
(***************************************************************************)

Kinds == {"create", "edit_forum", "add", "remove", "edit"}
Steps == {"forum", "caller", "target", "user", "name", "write"}

Begin(r, kind, u, f, t, new, n) ==
    /\ req[r] = Idle
    /\ (kind = "create") = (forum[f] = NoForum)            \* any other would get a 404
    /\ kind \in {"create", "edit_forum"} => t = u          \* no target
    /\ kind \notin {"add", "edit"} => new = "ADMIN"        \* no role
    /\ req' = [req EXCEPT ![r] =
          [kind |-> kind, by |-> u, forum |-> f, to |-> t, new |-> new, name |-> n,
           at |-> IF kind = "create" THEN "name" ELSE "forum",
           caller |-> NoRole, callers |-> {role[f][u]}, targets |-> {role[f][t]}]]
    /\ UNCHANGED <<forum, role>>

At(r, step) == req[r] # Idle /\ req[r].at = step

Advance(r, step) == req' = [req EXCEPT ![r].at = step]

\* An HTTPException, a lookup that finds nothing or raises, a statement that raises.
Fail(r) ==
    /\ req[r] # Idle
    /\ req' = [req EXCEPT ![r] = Idle]
    /\ UNCHANGED <<forum, role>>

(***************************************************************************)
(* Lookups                                                                 *)
(***************************************************************************)

\* repo.get_forum
get_forum(r) ==
    /\ At(r, "forum")
    /\ forum[req[r].forum] # NoForum
    /\ Advance(r, "caller")
    /\ UNCHANGED <<forum, role>>

\* Mutant of CallerMay: no permission is asked for at this point.
AnyCallerMay(q, c) == TRUE

\* What the caller's role must permit before the target is looked up.  edit_forum
\* compares the role with "staff", which no role is.
CallerMay(q, c) ==
    q.kind = "add" => check_permission(c, IF q.new = "ADMIN" THEN "ADD_ADMIN" ELSE "ADD_SUPER")

\* repo.get_forum_admin for the caller
get_caller(r) ==
    LET q == req[r]
        c == role[q.forum][q.by]
    IN  /\ At(r, "caller")
        /\ c # NoRole
        /\ CallerMay(q, c)
        /\ req' = [req EXCEPT ![r].caller = c,
                              ![r].at = IF q.kind = "edit_forum" THEN "write" ELSE "target"]
        /\ UNCHANGED <<forum, role>>

\* Mutant of TargetMay: the owner's row is not told apart.
TargetMayBeOwner(q, t) ==
    CASE q.kind = "remove" ->
            /\ t # NoRole
            /\ check_permission(q.caller, IF t = "ADMIN" THEN "REMOVE_ADMIN" ELSE "REMOVE_SUPER")
      [] OTHER -> TRUE

\* What remove_admin and edit_admin_permissions decide on the target's role; a role
\* change among peers and one to the role held are refused.
TargetMay(q, t) ==
    CASE q.kind = "add" -> t = NoRole
      [] q.kind = "remove" ->
            /\ t \notin {NoRole, "OWNER"}
            /\ check_permission(q.caller, IF t = "ADMIN" THEN "REMOVE_ADMIN" ELSE "REMOVE_SUPER")
      [] q.kind = "edit" ->
            /\ t \notin {NoRole, "OWNER", q.new, q.caller}
            /\ check_permission(q.caller,
                                IF q.new = "ADMIN" THEN "DEMOTE_TO_ADMIN" ELSE "PROMOTE_TO_SUPER")

\* repo.get_forum_admin for the target: its row, or None from a negative cache entry
get_target(r) ==
    LET q == req[r]
    IN  /\ At(r, "target")
        /\ \E t \in {role[q.forum][q.to], NoRole} : TargetMay(q, t)
        /\ Advance(r, IF q.kind = "add" THEN "user" ELSE "write")
        /\ UNCHANGED <<forum, role>>

\* user_repo.get_user, under the cache key of the forum: any cached hash answers it
get_user(r) ==
    /\ At(r, "user")
    /\ Advance(r, "write")
    /\ UNCHANGED <<forum, role>>

\* The lookups of the anime and of repo.get_forum_by_name; the latter asks the database.
get_forum_by_name(r) ==
    /\ At(r, "name")
    /\ \A f \in Forum : forum[f] # NoForum => forum[f].name # req[r].name
    /\ Advance(r, "write")
    /\ UNCHANGED <<forum, role>>

(***************************************************************************)
(* Statements.  Each commits in its own session.                           *)
(***************************************************************************)

\* The requests that are under way on a row see its new role.
SetRole(f, u, new, r) ==
    /\ role' = [role EXCEPT ![f][u] = new]
    /\ req' = [x \in Request |->
          LET q == req[x] IN
          IF x = r \/ q = Idle \/ q.forum # f THEN (IF x = r THEN Idle ELSE q)
          ELSE [q EXCEPT !.callers = IF q.by = u THEN @ \cup {new} ELSE @,
                         !.targets = IF q.to = u THEN @ \cup {new} ELSE @]]

\* uq_forum_name.  Mutant of NameFree: the constraint is missing.
NoConstraint(n) == TRUE

NameFree(n) == \A f \in Forum : forum[f] # NoForum => forum[f].name # n

\* repo.create_forum: the forum and its owner in one transaction.  What it returns is
\* cached best-effort; `desscription` is no column, so as it stands the insert raises.
create_forum(r) ==
    LET q == req[r]
    IN  /\ At(r, "write") /\ q.kind = "create"
        /\ NameFree(q.name)
        /\ forum[q.forum] = NoForum                \* the id the sequence gives
        /\ forum' = [forum EXCEPT ![q.forum] = [name |-> q.name, creator |-> q.by, edited |-> FALSE]]
        /\ SetRole(q.forum, q.by, "OWNER", r)

\* repo.update_forum with a description; with a title it names a column there is not.
update_forum(r) ==
    LET q == req[r]
    IN  /\ At(r, "write") /\ q.kind = "edit_forum"
        /\ forum' = [forum EXCEPT ![q.forum].edited = TRUE]
        /\ req' = [req EXCEPT ![r] = Idle]
        /\ UNCHANGED role

\* repo.add_forum_admin: the primary key refuses a second row
add_forum_admin(r) ==
    LET q == req[r]
    IN  /\ At(r, "write") /\ q.kind = "add"
        /\ role[q.forum][q.to] = NoRole
        /\ SetRole(q.forum, q.to, q.new, r)
        /\ UNCHANGED forum

\* Mutant of remove_forum_admin: the row stays, its role emptied.
empty_forum_admin(r) ==
    LET q == req[r]
    IN  /\ At(r, "write") /\ q.kind = "remove"
        /\ SetRole(q.forum, q.to, "", r)
        /\ UNCHANGED forum

\* repo.remove_forum_admin: whatever the role has become
remove_forum_admin(r) ==
    LET q == req[r]
    IN  /\ At(r, "write") /\ q.kind = "remove"
        /\ SetRole(q.forum, q.to, NoRole, r)
        /\ UNCHANGED forum

\* repo.update_admin_role: no row is updated when the admin has been removed
update_admin_role(r) ==
    LET q == req[r]
    IN  /\ At(r, "write") /\ q.kind = "edit"
        /\ SetRole(q.forum, q.to, IF role[q.forum][q.to] = NoRole THEN NoRole ELSE q.new, r)
        /\ UNCHANGED forum

(***************************************************************************)
(* Specification                                                           *)
(***************************************************************************)

Init ==
    /\ forum = [f \in Forum |-> NoForum]
    /\ role = [f \in Forum |-> [u \in User |-> NoRole]]
    /\ req = [r \in Request |-> Idle]

Next ==
    \E r \in Request :
        \/ \E k \in Kinds, u, t \in User, f \in Forum, new \in Grantable, n \in Name :
              Begin(r, k, u, f, t, new, n)
        \/ get_forum(r)
        \/ get_caller(r)
        \/ get_target(r)
        \/ get_user(r)
        \/ get_forum_by_name(r)
        \/ create_forum(r)
        \/ update_forum(r)
        \/ add_forum_admin(r)
        \/ remove_forum_admin(r)
        \/ update_admin_role(r)
        \/ Fail(r)

Spec == Init /\ [][Next]_vars

(***************************************************************************)
(* Properties                                                              *)
(***************************************************************************)

\* One row per user at most: the primary key is (forum_id, user_id).
Admins == [User -> Roles \cup {NoRole}]

Asked ==
    [kind : Kinds, by : User, forum : Forum, to : User, new : Grantable, name : Name,
     at : Steps, caller : Roles \cup {NoRole},
     callers : SUBSET (Roles \cup {NoRole}), targets : SUBSET (Roles \cup {NoRole})]

\* Types of the two tables and of the requests.
TypeOK ==
    /\ forum \in [Forum -> Row \cup {NoForum}]
    /\ role \in [Forum -> Admins]
    /\ req \in [Request -> Asked \cup {Idle}]

\* However the five endpoints interleave, a forum has exactly one owner, who created it,
\* and a forum that does not exist has no admins: create_forum's transaction and the
\* refusals of add_admin, remove_admin and edit_admin_permissions keep the owner's row.
OneOwner ==
    \A f \in Forum :
        {u \in User : role[f][u] = "OWNER"} = IF forum[f] = NoForum THEN {} ELSE {forum[f].creator}

\* The name is looked up before the insertion, in another session: it is uq_forum_name
\* that keeps two concurrent create_forum from giving two forums one name.
\* (resource_server/README.md:1390 and the error at forums.py:166 say one name per anime; the lookup and
\* the constraint are of the name alone, so this is the stronger rule.)
OneName ==
    \A f, g \in Forum :
        f # g /\ forum[f] # NoForum /\ forum[g] # NoForum => forum[f].name # forum[g].name

\* What a caller of role c may turn a target of role t into, by the table of
\* admin_permissions.py and the rule on peers.  It is wider than resource_server/README.md:1602, "Only the
\* owner can perform this action" of a change of role: the table gives a super
\* PROMOTE_TO_SUPER, and edit_admin_permissions lets a super promote an admin.
MayTurn(c, t, new) ==
    \/ c = "OWNER" /\ t # "OWNER" /\ new # "OWNER"
    \/ c = "SUPER" /\ t = NoRole /\ new = "ADMIN"
    \/ c = "SUPER" /\ t = "ADMIN" /\ new \in {NoRole, "SUPER"}

\* Who may edit a forum: whoever holds a role in it.  resource_server/README.md:1482 says "Only super or
\* owner admins", and the table has no EDIT_FORUM for an ADMIN, but edit_forum does not
\* consult it: forums.py:706 refuses the role "staff", which no role is, and so nobody.
Editors == {"ADMIN", "SUPER", "OWNER"}

\* A role changes only at the hand of a request whose caller held, at some point of the
\* request, a role that entitles to it, the target having held, at some point of it, a
\* role it applies to: the roles may be stale by the statement, but never older than the
\* request.  The lookups of the caller and of the target need not be of one moment.  A
\* forum is edited only by one of its Editors: in both, the entitlement is what the code
\* grants, which is more than the README says (see MayTurn and Editors).
ChangeEntitled ==
    [][/\ \A f \in Forum, u \in User :
          role'[f][u] # role[f][u] /\ forum[f] # NoForum
          => \E r \in Request :
                /\ req[r] # Idle /\ req'[r] = Idle
                /\ req[r].forum = f /\ req[r].to = u
                /\ \E c \in req[r].callers, t \in req[r].targets :
                      MayTurn(c, t, role'[f][u])
       /\ \A f \in Forum :
          forum'[f] # forum[f] /\ forum[f] # NoForum
          => \E r \in Request : /\ req[r] # Idle /\ req'[r] = Idle
                                /\ req[r].forum = f /\ req[r].callers \cap Editors # {}]_vars
=============================================================================
