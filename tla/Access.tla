-------------------------------- MODULE Access --------------------------------
(***************************************************************************)
(* Who may act in a business: MembershipService, RoleService and           *)
(* AuthorizationService (core_platform/security/service.py), the tenant    *)
(* context of a request (api/deps.py), EntitlementService, the creation of *)
(* a business (organization/service.py) and the sessions it all starts     *)
(* from (identity/service.py).                                             *)
(*                                                                         *)
(* Transactions and steps are those of the other request modules.  A       *)
(* request resolves its session, its tenant context and its capability in  *)
(* one statement each, and acts on what it has read.                       *)
(*                                                                         *)
(* Abstracted: a user has one session, that can only end; branches stand   *)
(* for branches and locations; a command names a member of its own         *)
(* business; "work" is any operation of the other services; businesses     *)
(* have different slugs, the catalogue of capabilities is seeded, and of   *)
(* the other services' idempotency keys only those matter that an          *)
(* invitation is given, too.                                               *)
(* What a dependency has loaded is read again by the service: the identity *)
(* map keeps no object that nobody refers to.                              *)
(***************************************************************************)
EXTENDS Integers, Sequences

CONSTANTS Requests,     \* they name the business, the roles that they create
          NoRequest,
          Users,
          Shops,        \* businesses that may be there at the start
          Branches, NoBranch,
          Capabilities, NoCapability,
          Keys, NoKey,
          Permissions,  \* the codes of SYSTEM_PERMISSIONS in their order
          Needs,        \* the code that the route of an operation requires
          Scenes        \* what is there at the start, and what the requests ask for

Positions == DOMAIN Permissions
Codes == {Permissions[i] : i \in Positions}
Businesses == Shops \cup Requests
Roles == Shops \cup Requests   \* a business and its Owner role have one name
Members == Businesses \X Users

Statuses == {"invited", "active", "suspended", "revoked"}

\* The operations behind require_perms, and the others.
Gated == {"invite", "suspend", "revoke", "role", "attach", "assign", "scope",
          "grant", "ungrant", "work"}
Command == [op: Gated \cup {"activate", "create", "logout"}, by: Users, at: Branches \cup {NoBranch},
            shop: Businesses, user: Users, role: Roles, code: Codes,
            branch: Branches \cup {NoBranch}, capability: Capabilities \cup {NoCapability},
            key: Keys \cup {NoKey}]

Role == [of: Businesses, codes: SUBSET Codes]

\* A unique row of business_entitlements; "deleted" is soft deleted.
Grant == {"none", "granted", "deleted"}

ASSUME PermissionsAssumption ==
  /\ Permissions # <<>>
  /\ Permissions \in Seq(STRING) /\ \A i, j \in Positions : Permissions[i] = Permissions[j] => i = j
  /\ Needs \in [Gated -> Codes]
ASSUME NamesAssumption ==
  /\ Shops \cap Requests = {} /\ NoRequest \notin Requests
  /\ NoBranch \notin Branches /\ NoCapability \notin Capabilities /\ NoKey \notin Keys

\* Permissions that a new release adds are seeded with the next business.
Opening(b) ==
  /\ b.sessions \subseteq Users
  /\ b.permissions \subseteq Codes
  /\ DOMAIN b.members \subseteq Shops \X Users /\ \A m \in DOMAIN b.members : b.members[m] \in Statuses
  /\ DOMAIN b.roles \subseteq Shops
  /\ \A x \in DOMAIN b.roles : b.roles[x] \in Role /\ b.roles[x].codes \subseteq b.permissions
  /\ b.assigned \subseteq (DOMAIN b.members) \X (DOMAIN b.roles)
  /\ b.scopes \subseteq (DOMAIN b.members) \X (Branches \cup {NoBranch})
  /\ b.grants \in [Businesses \X Capabilities -> Grant]
ASSUME ScenesAssumption == \A s \in Scenes : Opening(s.books) /\ s.asks \in [Requests -> Command]

VARIABLES
  \* committed
  sessions,     \* users whose token is valid
  permissions,  \* codes that have been seeded
  members,      \* status of each membership
  roles,        \* business and codes of each role
  assigned,     \* membership_roles
  scopes,       \* scope assignments
  grants,       \* business entitlements
  announced,    \* businesses with a business.created event
  keys,         \* idempotency rows
  foreign,      \* those of other services' commands
  past,         \* what was committed after each commit, and by whom
  \* per request
  pc, cmd,
  began,        \* how many commits there were when it resolved its session
  view,         \* the roles, or the permission codes, that it has read
  copy,         \* the row that it has loaded
  read,         \* and how many commits there were then
  code,         \* the position of the permission it seeds
  held          \* rows it has written and unique values it has inserted

db == <<sessions, permissions, members, roles, assigned, scopes, grants, announced, keys, foreign,
        past>>
own == <<cmd, began, view, copy, read, code>>
vars == <<db, pc, own, held>>

InFlight == {"session", "member", "scopes", "roles", "codes", "capability", "lookup", "load",
             "write", "recheck", "claim", "commit", "seed", "permission", "owner", "appoint", "announce"}
\* "clashed" on a unique or foreign key; "gone": refused, without effect or crashed.
Finished == {"done", "clashed", "gone"}

\* Everything a decision is taken from.
Holds(m) == UNION {roles[x].codes : x \in {y \in DOMAIN roles : <<m, y>> \in assigned}}
Moment(r) ==
  [by |-> r, sessions |-> sessions, members |-> members, scopes |-> scopes, grants |-> grants,
   codes |-> [m \in DOMAIN members |-> Holds(m)]]

\* logout takes the token itself.
First(c) == IF c.op = "logout" THEN "load" ELSE "session"

Init ==
  /\ \E s \in Scenes :
       /\ sessions = s.books.sessions /\ permissions = s.books.permissions
       /\ members = s.books.members /\ roles = s.books.roles
       /\ assigned = s.books.assigned /\ scopes = s.books.scopes /\ grants = s.books.grants
       /\ cmd = s.asks
  /\ announced = {} /\ keys = {} /\ foreign = {}
  /\ past = <<Moment(NoRequest)>>
  /\ pc = [r \in Requests |-> First(cmd[r])]
  /\ began = [r \in Requests |-> 0]
  /\ view = [r \in Requests |-> {}]
  /\ copy = [r \in Requests |-> "none"]
  /\ read = [r \in Requests |-> 0]
  /\ code = [r \in Requests |-> 1]
  /\ held = [r \in Requests |-> {}]

Goto(r, label) == pc' = [pc EXCEPT ![r] = label]

\* A check that reads and goes on.
Pass(r, at, next) ==
  /\ pc[r] = at
  /\ Goto(r, next)
  /\ UNCHANGED <<db, own, held>>

Release_KeepLocks(r) == UNCHANGED held
Release(r) == held' = [held EXCEPT ![r] = {}]

\* What a request knew goes with it.
End(r, at, outcome) ==
  /\ pc[r] = at
  /\ Goto(r, outcome)
  /\ Release(r)
  /\ began' = [began EXCEPT ![r] = 0] /\ read' = [read EXCEPT ![r] = 0]
  /\ view' = [view EXCEPT ![r] = {}] /\ copy' = [copy EXCEPT ![r] = "none"]
  /\ code' = [code EXCEPT ![r] = 1]
  /\ UNCHANGED <<db, cmd>>

Actor(r) == <<cmd[r].shop, cmd[r].by>>
Target(r) == <<cmd[r].shop, cmd[r].user>>

-----------------------------------------------------------------------------
(* resolve_user and build_tenant_context *)

ResolveUser(r) ==
  /\ pc[r] = "session" /\ cmd[r].by \in sessions
  /\ began' = [began EXCEPT ![r] = Len(past)]
  /\ Goto(r, CASE cmd[r].op = "create" -> "seed" [] cmd[r].op = "activate" -> "load" [] OTHER -> "member")
  /\ UNCHANGED <<db, cmd, view, copy, read, code, held>>

RejectUser(r) == End(r, "session", "gone") /\ cmd[r].by \notin sessions

Admits_Anyone(m) == m \in DOMAIN members
Admits(m) == m \in DOMAIN members /\ members[m] = "active"

FindMember(r) == Pass(r, "member", "scopes") /\ Admits(Actor(r))
RejectMember(r) == End(r, "member", "gone") /\ ~Admits(Actor(r))

\* No branch among the member's assignments allows every branch.
Allowed(rows, m) == {row[2] : row \in {row \in rows : row[1] = m}} \ {NoBranch}
InScope(rows, m, at) == at = NoBranch \/ Allowed(rows, m) = {} \/ at \in Allowed(rows, m)

CheckScope(r) == Pass(r, "scopes", "roles") /\ InScope(scopes, Actor(r), cmd[r].at)
RejectScope(r) == End(r, "scopes", "gone") /\ ~InScope(scopes, Actor(r), cmd[r].at)

ReadRoles(r) ==
  /\ pc[r] = "roles"
  /\ view' = [view EXCEPT ![r] = {x \in DOMAIN roles : <<Actor(r), x>> \in assigned}]
  /\ Goto(r, "codes")
  /\ UNCHANGED <<db, cmd, began, copy, read, code, held>>

Permitted(r) == \E x \in view[r] : Needs[cmd[r].op] \in roles[x].codes

AfterContext(r) ==
  CASE cmd[r].op = "work" /\ cmd[r].capability # NoCapability -> "capability"
    [] cmd[r].op = "work" /\ cmd[r].capability = NoCapability -> "commit"
    [] cmd[r].op = "invite" /\ cmd[r].key # NoKey -> "lookup"
    [] OTHER -> "load"

Authorize(r) == Pass(r, "codes", AfterContext(r)) /\ Permitted(r)
RejectPermission(r) == End(r, "codes", "gone") /\ ~Permitted(r)

Entitled(r) == grants[cmd[r].shop, cmd[r].capability] = "granted"

RequireCapability(r) == Pass(r, "capability", "commit") /\ Entitled(r)
RejectCapability(r) == End(r, "capability", "gone") /\ ~Entitled(r)

-----------------------------------------------------------------------------
(* The key of an invitation *)

KeyOf(r) == <<cmd[r].shop, cmd[r].key>>

\* The membership of the first invitation answers, whatever has become of it; a row
\* that names no membership does not.
HasPrior(r) == KeyOf(r) \in keys \ foreign
Replay(r) == End(r, "lookup", "gone") /\ HasPrior(r)
Proceed(r) == Pass(r, "lookup", "load") /\ ~HasPrior(r)

\* An invitation that finds a suspended or revoked member stores no key.
StoresKey_Never(r) == FALSE
StoresKey(r) == cmd[r].op = "invite" /\ cmd[r].key # NoKey /\ copy[r] = "none"

\* idem.store keeps the row that is there, whoever's it is.
KeyTaken(r) == KeyOf(r) \in keys
Recheck(r) == Pass(r, "recheck", IF KeyTaken(r) THEN "commit" ELSE "claim")

-----------------------------------------------------------------------------
(* One operation on one row: load it, write it, commit *)

MemberOps == {"invite", "activate", "suspend", "revoke"}
GrantOps == {"grant", "ungrant"}

\* Soft deleted grants are not found.
Row(r) ==
  CASE cmd[r].op \in MemberOps \cup {"scope"} /\ Target(r) \in DOMAIN members -> members[Target(r)]
    [] cmd[r].op \in GrantOps /\ grants[cmd[r].shop, cmd[r].capability] = "granted" -> "granted"
    [] OTHER -> "none"

Refuses_Rarely(r) ==
  \/ cmd[r].op = "invite" /\ Row(r) \in {"invited", "active"}
  \/ cmd[r].op \in {"activate", "suspend", "revoke", "scope", "ungrant"} /\ Row(r) = "none"
  \/ cmd[r].op = "attach" /\ cmd[r].code \notin permissions
Refuses(r) ==
  \/ cmd[r].op = "invite" /\ Row(r) \in {"invited", "active"}
  \/ cmd[r].op = "activate" /\ Row(r) \in {"none", "revoked"}
  \/ cmd[r].op \in {"suspend", "revoke", "scope", "ungrant"} /\ Row(r) = "none"
  \/ cmd[r].op = "attach" /\ cmd[r].code \notin permissions

\* The row of membership_roles or role_permissions.
Link(r) == IF cmd[r].op = "assign" THEN <<Target(r), cmd[r].role>> ELSE <<cmd[r].role, cmd[r].code>>

Linked(r) ==
  \/ cmd[r].op = "assign" /\ Link(r) \in assigned
  \/ cmd[r].op = "attach" /\ cmd[r].role \in DOMAIN roles /\ cmd[r].code \in roles[cmd[r].role].codes

Idle(r) == Linked(r) \/ (cmd[r].op = "logout" /\ cmd[r].by \notin sessions)

\* What the write of r locks; a new role, scope or session end meets nobody.
Touches(r) ==
  CASE cmd[r].op \in MemberOps -> {<<"member", Target(r)>>}
    [] cmd[r].op \in GrantOps -> {<<"grant", <<cmd[r].shop, cmd[r].capability>>>>}
    [] cmd[r].op \in {"assign", "attach"} -> {<<"link", Link(r)>>}
    [] OTHER -> {}

PermissionCode(c) == <<"permission", c>>

Rows ==
  ({"member"} \X Members) \cup ({"grant"} \X (Businesses \X (Capabilities \cup {NoCapability})))
  \cup ({"link"} \X ((Members \X Roles) \cup (Roles \X Codes))) \cup ({"permission"} \X Codes)
  \cup ({"key"} \X (Businesses \X Keys))

Wants(r) ==
  CASE pc[r] = "write" -> Touches(r)
    [] pc[r] = "claim" -> {<<"key", KeyOf(r)>>}
    [] pc[r] = "permission" -> {PermissionCode(Permissions[code[r]])}
    [] OTHER -> {}

Waits(r) == \E b \in Requests \ {r} : Wants(r) \cap held[b] # {}

LoadRow(r) ==
  /\ pc[r] = "load" /\ ~Refuses(r) /\ ~Idle(r)
  /\ copy' = [copy EXCEPT ![r] = Row(r)]
  /\ read' = [read EXCEPT ![r] = Len(past)]
  /\ Goto(r, IF Touches(r) = {} THEN "commit" ELSE "write")
  /\ UNCHANGED <<db, cmd, began, view, code, held>>

RejectRow(r) == End(r, "load", "gone") /\ Refuses(r)
LeaveRow(r) == End(r, "load", "gone") /\ ~Refuses(r) /\ Idle(r)

\* The write breaks a unique or a foreign key.
Breaks(r) ==
  \/ cmd[r].op = "invite" /\ copy[r] = "none" /\ Target(r) \in DOMAIN members
  \/ cmd[r].op = "grant" /\ copy[r] = "none" /\ grants[cmd[r].shop, cmd[r].capability] # "none"
  \/ cmd[r].op = "assign" /\ (Target(r) \notin DOMAIN members \/ cmd[r].role \notin DOMAIN roles)
  \/ cmd[r].op = "attach" /\ cmd[r].role \notin DOMAIN roles
  \/ Linked(r)

Lock(r, at, next) ==
  /\ ~Waits(r)
  /\ pc[r] = at
  /\ held' = [held EXCEPT ![r] = @ \cup Wants(r)]
  /\ Goto(r, next)
  /\ UNCHANGED <<db, own>>

WriteRow(r) == Lock(r, "write", IF StoresKey(r) THEN "recheck" ELSE "commit") /\ ~Breaks(r)
WriteClash(r) == End(r, "write", "clashed") /\ ~Waits(r) /\ Breaks(r)

ClaimKey(r) == Lock(r, "claim", "commit") /\ ~KeyTaken(r)
ClaimClash(r) == End(r, "claim", "clashed") /\ ~Waits(r) /\ KeyTaken(r)

Status(op) ==
  CASE op = "invite" -> "invited" [] op = "activate" -> "active"
    [] op = "suspend" -> "suspended" [] op = "revoke" -> "revoked"

\* The status goes into the UPDATE only if it differs from the loaded one.
MembersAfter(r) ==
  IF cmd[r].op \in MemberOps /\ copy[r] # Status(cmd[r].op)
  THEN [m \in DOMAIN members \cup {Target(r)} |->
          IF m = Target(r) THEN Status(cmd[r].op) ELSE members[m]]
  ELSE members

RolesAfter(r) ==
  CASE cmd[r].op = "role" -> [x \in DOMAIN roles \cup {r} |->
                                IF x = r THEN [of |-> cmd[r].shop, codes |-> {}] ELSE roles[x]]
    [] cmd[r].op = "attach" -> [roles EXCEPT ![cmd[r].role].codes = @ \cup {cmd[r].code}]
    [] OTHER -> roles

\* A grant updates the row it found, which may have been deleted since.
Granting_Undeletes(r, row) == "granted"
Granting(r, row) == IF copy[r] = "none" THEN "granted" ELSE row

GrantsAfter(r) ==
  IF cmd[r].op \in GrantOps
  THEN [grants EXCEPT ![<<cmd[r].shop, cmd[r].capability>>] =
          IF cmd[r].op = "grant" THEN Granting(r, @) ELSE "deleted"]
  ELSE grants

Commit(r) ==
  /\ pc[r] = "commit"
  /\ Goto(r, "done")
  /\ members' = MembersAfter(r)
  /\ roles' = RolesAfter(r)
  /\ assigned' = assigned \cup {l \in {Link(r)} : cmd[r].op = "assign"}
  /\ scopes' = scopes \cup {s \in {<<Target(r), cmd[r].branch>>} : cmd[r].op = "scope"}
  /\ grants' = GrantsAfter(r)
  /\ keys' = keys \cup {k \in Businesses \X Keys : <<"key", k>> \in held[r]}
  /\ sessions' = sessions \ {u \in {cmd[r].by} : cmd[r].op = "logout"}
  /\ past' = Append(past, Moment(r)')
  /\ Release(r)
  /\ UNCHANGED <<permissions, announced, foreign, own>>

-----------------------------------------------------------------------------
(* create_business: three commits *)

Absent_First(r) ==
  {i \in Positions : Permissions[1] \notin permissions /\ PermissionCode(Permissions[1]) \notin held[r]}
Absent(r) ==
  {i \in Positions : Permissions[i] \notin permissions /\ PermissionCode(Permissions[i]) \notin held[r]}

IsNext_Any(r, i) == i \in Absent(r)
IsNext(r, i) == i \in Absent(r) /\ \A j \in Absent(r) : i <= j

FindAbsent(r) ==
  /\ pc[r] = "seed"
  /\ \E i \in Positions : IsNext(r, i) /\ code' = [code EXCEPT ![r] = i]
  /\ Goto(r, "permission")
  /\ UNCHANGED <<db, cmd, began, view, copy, read, held>>

Seeded(r) == Permissions[code[r]] \in permissions
SeedPermission(r) == Lock(r, "permission", "seed") /\ ~Seeded(r)
SeedClash(r) == End(r, "permission", "clashed") /\ ~Waits(r) /\ Seeded(r)

\* ensure_system_permissions commits the business and its first member, too.
Found(r) ==
  /\ pc[r] = "seed" /\ Absent(r) = {}
  /\ permissions' = permissions \cup {c \in Codes : PermissionCode(c) \in held[r]}
  /\ members' = [m \in DOMAIN members \cup {<<r, cmd[r].by>>} |->
                   IF m = <<r, cmd[r].by>> THEN "active" ELSE members[m]]
  /\ Release(r)
  /\ Goto(r, "owner")
  /\ UNCHANGED <<sessions, roles, assigned, scopes, grants, announced, keys, foreign, own>>
  /\ past' = Append(past, Moment(r)')

ReadPermissions(r) ==
  /\ pc[r] = "owner"
  /\ view' = [view EXCEPT ![r] = permissions]
  /\ Goto(r, "appoint")
  /\ UNCHANGED <<db, cmd, began, copy, read, code, held>>

Appoint(r) ==
  /\ pc[r] = "appoint"
  /\ roles' = [x \in DOMAIN roles \cup {r} |->
                 IF x = r THEN [of |-> r, codes |-> view[r]] ELSE roles[x]]
  /\ assigned' = assigned \cup {<<<<r, cmd[r].by>>, r>>}
  /\ Goto(r, "announce")
  /\ UNCHANGED <<sessions, permissions, members, scopes, grants, announced, keys, foreign, own, held>>
  /\ past' = Append(past, Moment(r)')

Announce(r) ==
  /\ pc[r] = "announce"
  /\ announced' = announced \cup {r}
  /\ past' = Append(past, Moment(r))
  /\ Goto(r, "done")
  /\ UNCHANGED <<sessions, permissions, members, roles, assigned, scopes, grants, keys, foreign, own, held>>

\* The process, the connection or the client goes away before a commit.
Crash(r) == pc[r] \in InFlight /\ End(r, pc[r], "gone")

-----------------------------------------------------------------------------
Decide(r) ==
  \/ ResolveUser(r) \/ RejectUser(r) \/ FindMember(r) \/ RejectMember(r)
  \/ CheckScope(r) \/ RejectScope(r) \/ ReadRoles(r) \/ Authorize(r) \/ RejectPermission(r)
  \/ RequireCapability(r) \/ RejectCapability(r)

Act(r) ==
  \/ Replay(r) \/ Proceed(r) \/ LoadRow(r) \/ RejectRow(r) \/ LeaveRow(r)
  \/ WriteRow(r) \/ WriteClash(r) \/ Recheck(r) \/ ClaimKey(r) \/ ClaimClash(r) \/ Commit(r)

Create(r) ==
  \/ FindAbsent(r) \/ SeedPermission(r) \/ SeedClash(r) \/ Found(r)
  \/ ReadPermissions(r) \/ Appoint(r) \/ Announce(r)

Serve(r) == Decide(r) \/ Act(r) \/ Create(r)

\* A command of another service in the business is given the key of an invitation.
StoreElsewhere(k) ==
  /\ \E r \in Requests : cmd[r].op = "invite" /\ cmd[r].key # NoKey /\ KeyOf(r) = k
  /\ k \notin keys /\ \A r \in Requests : <<"key", k>> \notin held[r]
  /\ keys' = keys \cup {k} /\ foreign' = foreign \cup {k}
  /\ UNCHANGED <<sessions, permissions, members, roles, assigned, scopes, grants, announced, past,
                 pc, own, held>>

Quiescent == (\A r \in Requests : pc[r] \in Finished) /\ UNCHANGED vars

Next ==
  \/ \E r \in Requests : Serve(r) \/ Crash(r)
  \/ \E k \in Businesses \X Keys : StoreElsewhere(k)
  \/ Quiescent

Spec == Init /\ [][Next]_vars

\* As in StockLedger: requests run when their statement has returned.
FairSpec == Spec /\ \A r \in Requests : WF_vars(Serve(r))

-----------------------------------------------------------------------------
(* Properties *)

\* Types, and a finished request holds no lock.
TypeOK ==
  /\ sessions \subseteq Users /\ permissions \subseteq Codes /\ announced \subseteq Requests
  /\ keys \subseteq Businesses \X Keys /\ foreign \subseteq keys
  /\ DOMAIN members \subseteq Members /\ \A m \in DOMAIN members : members[m] \in Statuses
  /\ DOMAIN roles \subseteq Roles /\ \A x \in DOMAIN roles : roles[x] \in Role
  /\ assigned \subseteq (DOMAIN members) \X (DOMAIN roles)
  /\ scopes \subseteq (DOMAIN members) \X (Branches \cup {NoBranch})
  /\ grants \in [Businesses \X Capabilities -> Grant]
  /\ cmd \in [Requests -> Command]
  /\ pc \in [Requests -> InFlight \cup Finished]
  /\ began \in [Requests -> Nat] /\ read \in [Requests -> Nat]
  /\ view \in [Requests -> SUBSET (Roles \cup Codes)]
  /\ copy \in [Requests -> Statuses \cup Grant]
  /\ code \in [Requests -> Positions]
  /\ held \in [Requests -> SUBSET Rows]
  /\ \A r \in Requests : pc[r] \in Finished => held[r] = {}

\* A request acts on a decision that was right, check by check, at moments since it
\* resolved its session: it outlives a logout, suspension, revocation, new scope or
\* withdrawn grant only by having overlapped it.  The membership comes before what
\* is decided for the member, and the permission before the capability.  (When the
\* scope is decided is left open: the code does it before the permission.)
DecisionIsDated ==
  \A r \in Requests : pc[r] \in {"lookup", "load", "write", "recheck", "claim", "commit"} /\ cmd[r].op \in Gated =>
    \E i, j, k, l, n \in began[r]..Len(past) :
      /\ i <= j /\ j <= k /\ j <= l /\ l <= n
      /\ cmd[r].by \in past[i].sessions
      /\ Actor(r) \in DOMAIN past[j].members /\ past[j].members[Actor(r)] = "active"
      /\ InScope(past[k].scopes, Actor(r), cmd[r].at)
      /\ Needs[cmd[r].op] \in past[l].codes[Actor(r)]
      /\ pc[r] = "commit" /\ cmd[r].op = "work" /\ cmd[r].capability # NoCapability =>
           past[n].grants[cmd[r].shop, cmd[r].capability] = "granted"

Had(m, i, status) == m \in DOMAIN past[i].members /\ past[i].members[m] = status

\* A revoked membership becomes active again only through another status, or by
\* an activation that had loaded it before it was revoked.
RevokedStaysOut ==
  \A i \in 1..(Len(past) - 1), m \in Members :
    Had(m, i, "revoked") /\ Had(m, i + 1, "active") =>
      /\ cmd[past[i + 1].by].op = "activate"
      /\ \E k \in read[past[i + 1].by]..i : ~Had(m, k, "revoked")

\* An invitation that made a member is not repeated: the same key, sent again after
\* it has committed, changes nothing, even if the member has been suspended or
\* revoked since.  (One that found a member who was is repeated, and so is one whose
\* key another service had used: its row answers nobody and is kept.)
RepeatedInviteIsOne ==
  \A i, j \in 2..Len(past) :
    LET a == past[i].by
        b == past[j].by
    IN  /\ i < j /\ cmd[a].op = "invite" /\ cmd[b].op = "invite"
        /\ cmd[a].key # NoKey /\ KeyOf(a) = KeyOf(b)
        /\ Target(a) \notin DOMAIN past[i - 1].members
        => began[b] < i \/ KeyOf(a) \in foreign

\* A business that has members has seeded every permission, whichever were missing
\* when it began; a creation that loses that race leaves nothing and can be repeated,
\* and an Owner role is complete and assigned when it appears; without one the
\* creation has not returned.
OwnersHoldAll ==
  \A r \in Requests : cmd[r].op = "create" =>
    /\ (\E u \in Users : <<r, u>> \in DOMAIN members) => permissions = Codes
    /\ pc[r] = "clashed" => permissions = Codes /\ <<r, cmd[r].by>> \notin DOMAIN members
    /\ r \in DOMAIN roles => <<r, cmd[r].by>> \in DOMAIN members /\ Codes = Holds(<<r, cmd[r].by>>)
    /\ pc[r] = "done" => r \in DOMAIN roles /\ r \in announced

Done(op, b, c) == \E r \in Requests :
  pc[r] = "done" /\ cmd[r].op = op /\ cmd[r].shop = b /\ cmd[r].capability = c

\* Taking a capability back is final: whatever grants overlap it or follow it,
\* the business never has it again, and until then a grant that has returned holds.
WithdrawalIsFinal ==
  \A b \in Businesses, c \in Capabilities :
    grants[b, c] = "granted" <=>
      /\ past[1].grants[b, c] # "deleted" /\ ~Done("ungrant", b, c)
      /\ past[1].grants[b, c] = "granted" \/ Done("grant", b, c)

\* Every request ends: creations wait for each other's permissions only in the
\* order of SYSTEM_PERMISSIONS.
EveryRequestEnds == \A r \in Requests : <>(pc[r] \in Finished)

=============================================================================
