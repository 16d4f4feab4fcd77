------------------------------- MODULE MCAccess --------------------------------
(* Instances of Access for TLC. *)
EXTENDS Access

CONSTANTS r1, r2, r3, shop, boss, clerk, guest, key, north, south, sales

TwoCodes == <<"staff", "trade">>
NeedsOne ==
  [op \in Gated |-> IF op = "work" THEN "trade" ELSE "staff"]

None == [x \in {} |-> {}]

\* No business yet.
Blank ==
  [sessions |-> {boss, clerk}, permissions |-> {}, members |-> None, roles |-> None,
   assigned |-> {}, scopes |-> {}, grants |-> [x \in Businesses \X Capabilities |-> "none"]]

\* One with an owner and a clerk.
Staffed(status, grant, may) ==
  [Blank EXCEPT
     !.permissions = Codes,
     !.members = [m \in {<<shop, boss>>, <<shop, clerk>>} |-> IF m[2] = boss THEN "active" ELSE status],
     !.roles = [x \in {shop} |-> [of |-> shop, codes |-> Codes]],
     !.assigned = {<<<<shop, boss>>, shop>>} \cup {<<<<shop, u>>, shop>> : u \in may},
     !.grants[shop, sales] = grant]
Do(op, by) ==
  [op |-> op, by |-> by, at |-> NoBranch, shop |-> shop, user |-> clerk, role |-> shop,
   code |-> "trade", branch |-> NoBranch, capability |-> NoCapability,
   key |-> NoKey]
Invite(u) == [Do("invite", boss) EXCEPT !.user = u]
Keyed(c) == [c EXCEPT !.key = key]
Grants(op) == [Do(op, boss) EXCEPT !.capability = sales]
Work(at, c) == [Do("work", clerk) EXCEPT !.at = at, !.capability = c]
Scope(b) == [Do("scope", boss) EXCEPT !.branch = b]
Role1(c) == [c EXCEPT !.role = r1]

At(book, a, b, c) == [books |-> book, asks |-> [r \in Requests |-> CASE r = r1 -> a [] r = r2 -> b [] r = r3 -> c]]

\* One from before the code "trade".
Old == [Staffed("active", "none", {clerk}) EXCEPT !.permissions = {"staff"},
                                                  !.roles[shop].codes = {"staff"}]
\* One with an owner only.
Alone == [Staffed("active", "none", {}) EXCEPT !.members = [m \in {<<shop, boss>>} |-> "active"]]
Working == Staffed("active", "granted", {clerk})
Idling == Staffed("active", "none", {})
Pending == Staffed("invited", "deleted", {clerk})
Paused == Staffed("suspended", "granted", {clerk})
Barred == Staffed("revoked", "none", {clerk})

Meetings ==
  {\* the clerk works while the membership ends, or comes back
   At(b, Work(north, sales), Do("revoke", boss), Do("activate", clerk)) : b \in {Working, Pending}}
  \cup {At(b, Do("suspend", boss), Do("revoke", boss), Do("activate", clerk)) : b \in {Paused, Barred}}
  \cup {At(b, Do("revoke", boss), Invite(clerk), Do("activate", clerk)) : b \in {Pending, Barred}}
  \cup {\* managers end each other's
   At(Staffed("active", "none", {clerk}), Do("suspend", clerk), Do("revoke", boss), Invite(boss))}
  \cup {\* capabilities granted, withdrawn and used
   At(b, Grants("grant"), Grants("ungrant"), Grants("grant")) : b \in {Working, Idling, Pending}}
  \cup {At(b, Grants("grant"), Grants("ungrant"), Work(NoBranch, sales)) :
          b \in {Working, Staffed("active", "none", {clerk})}}
  \cup {\* scopes narrow where the clerk works
   At(Working, Scope(north), Work(south, NoCapability), Work(north, NoCapability)),
   At(Working, Scope(NoBranch), Scope(north), Work(south, sales)),
   \* a new role gets a permission and a member
   At(Working, Do("role", boss), Role1(Do("attach", boss)), Role1(Do("assign", boss))),
   At(Idling, Do("assign", boss), Do("assign", boss), Work(NoBranch, NoCapability)),
   At(Working, Do("role", boss), Role1(Do("attach", boss)), Role1(Do("attach", boss))),
   \* sessions end
   At(Idling, Do("logout", boss), Invite(clerk), Do("logout", boss)),
   \* businesses are created, and used before they are complete
   At(Blank, Do("create", boss), Do("create", clerk), Do("create", boss)),
   At(Old, Do("create", boss), Do("create", clerk), Do("attach", boss)),
   At(Blank, Do("create", clerk), [Work(NoBranch, NoCapability) EXCEPT !.shop = r1],
      [Do("suspend", clerk) EXCEPT !.shop = r1]),
   \* two invitations of one user
   At(Blank, Do("create", boss), [Invite(clerk) EXCEPT !.shop = r1], [Invite(clerk) EXCEPT !.shop = r1]),
   \* an invitation is sent again, and revoked; one key for two users
   At(Alone, Keyed(Invite(clerk)), Keyed(Invite(clerk)), Do("revoke", boss)),
   At(Barred, Keyed(Invite(clerk)), Keyed(Invite(clerk)), Do("revoke", boss)),
   At(Alone, Keyed(Invite(clerk)), Keyed(Invite(guest)), Keyed(Invite(guest)))}
=============================================================================
