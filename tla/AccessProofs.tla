------------------------------ MODULE AccessProofs ------------------------------
(***************************************************************************)
(* Proofs about Access, for every value of its constants.                  *)
(*                                                                         *)
(* Everything follows from one inductive invariant, Inv.  It joins the     *)
(* state to its history: the last moment of "past" is the present, what a  *)
(* request has decided or loaded was so at a moment that it can name, and  *)
(* what later steps rely on (memberships, roles, their codes, keys and     *)
(* grants once made) is never taken back.                                  *)
(***************************************************************************)
EXTENDS Access, TLAPS

-----------------------------------------------------------------------------
(* The history *)

\* The last moment is the present.
Present ==
  /\ (\E S : past \in Seq(S)) /\ Len(past) >= 1
  /\ LET now == past[Len(past)]
     IN  /\ now.sessions = sessions /\ now.members = members /\ now.scopes = scopes
         /\ now.grants = grants /\ now.codes = [m \in DOMAIN members |-> Holds(m)]

\* Only the creation of a business commits and goes on.
Committed ==
  \A i \in 2..Len(past) :
    past[i].by \in Requests /\ (cmd[past[i].by].op = "create" \/ pc[past[i].by] = "done")

\* The invitation with which a key was first used for a new member.
FirstInvite(i, k) ==
  /\ cmd[past[i].by].op = "invite" /\ cmd[past[i].by].key # NoKey
  /\ KeyOf(past[i].by) = k /\ Target(past[i].by) \notin DOMAIN past[i - 1].members

KeyStored == \A i \in 2..Len(past) : \A k : FirstInvite(i, k) => k \in keys

\* A grant is there, or withdrawn, because of the opening or of who has returned.
GrantsInv ==
  \A b \in Businesses, c \in Capabilities :
    /\ grants[b, c] = "deleted" <=> past[1].grants[b, c] = "deleted" \/ Done("ungrant", b, c)
    /\ grants[b, c] = "granted" => past[1].grants[b, c] = "granted" \/ Done("grant", b, c)
    /\ past[1].grants[b, c] # "none" \/ Done("grant", b, c) => grants[b, c] # "none"

Exclusive == \A a, b \in Requests : held[a] \cap held[b] # {} => a = b

-----------------------------------------------------------------------------
(* A request *)

\* Which operations come to which step.
RouteOf(r) ==
  LET op == cmd[r].op
  IN  /\ pc[r] = "session" => op # "logout"
      /\ pc[r] \in {"member", "scopes", "roles", "codes", "capability"} => op \in Gated
      /\ pc[r] = "capability" => op = "work" /\ cmd[r].capability # NoCapability
      /\ pc[r] \in {"lookup", "recheck", "claim"} => op = "invite" /\ cmd[r].key # NoKey
      /\ pc[r] \in {"load", "write"} => op \notin {"work", "create"}
      /\ pc[r] = "commit" => op # "create"
      /\ pc[r] \in {"seed", "permission", "owner", "appoint", "announce"} => op = "create"
      /\ pc[r] \in {"session", "member", "scopes", "roles", "codes", "capability", "lookup", "load",
                    "owner", "appoint", "announce"} => held[r] = {}

\* The moments of a decision.
SignedIn(r, i) == cmd[r].by \in past[i].sessions
Admitted(r, i) == Actor(r) \in DOMAIN past[i].members /\ past[i].members[Actor(r)] = "active"
Scoped(r, i) == InScope(past[i].scopes, Actor(r), cmd[r].at)
May(r, i) == Needs[cmd[r].op] \in past[i].codes[Actor(r)]
Has(r, i) == past[i].grants[cmd[r].shop, cmd[r].capability] = "granted"

Acting == {"lookup", "load", "write", "recheck", "claim", "commit"}
Decided == {"capability"} \cup Acting
Since(r) == began[r]..Len(past)

DatedOf(r) ==
  /\ began[r] <= Len(past)
  /\ pc[r] \in {"member", "scopes", "roles", "codes"} \cup Decided /\ cmd[r].op \in Gated =>
       began[r] \in 1..Len(past)
  /\ pc[r] = "member" => \E i \in Since(r) : SignedIn(r, i)
  /\ pc[r] = "scopes" => \E i, j \in Since(r) : i <= j /\ SignedIn(r, i) /\ Admitted(r, j)
  /\ pc[r] \in {"roles", "codes"} =>
       \E i, j, k \in Since(r) :
         i <= j /\ j <= k /\ SignedIn(r, i) /\ Admitted(r, j) /\ Scoped(r, k)
  /\ pc[r] = "codes" => view[r] \subseteq {x \in DOMAIN roles : <<Actor(r), x>> \in assigned}
  /\ pc[r] \in {"scopes", "roles", "codes"} \cup Decided /\ cmd[r].op \in Gated =>
       Actor(r) \in DOMAIN members
  /\ pc[r] \in Decided /\ cmd[r].op \in Gated =>
       \E i, j, k, l, n \in Since(r) :
         /\ i <= j /\ j <= k /\ k <= l /\ l <= n
         /\ SignedIn(r, i) /\ Admitted(r, j) /\ Scoped(r, k) /\ May(r, l)
         /\ pc[r] = "commit" /\ cmd[r].op = "work" /\ cmd[r].capability # NoCapability => Has(r, n)

\* What a request has loaded, and what that still says.
Writing == {"write", "recheck", "claim", "commit"}
GrantRow(r) == <<cmd[r].shop, cmd[r].capability>>

LoadedOf(r) ==
  /\ read[r] <= Len(past)
  /\ pc[r] = "done" /\ cmd[r].op = "activate" => read[r] >= 1
  /\ pc[r] \in Writing =>
       /\ cmd[r].op = "activate" => read[r] >= 1 /\ ~Had(Target(r), read[r], "revoked")
       /\ cmd[r].op \in {"activate", "suspend", "revoke", "scope"} => Target(r) \in DOMAIN members
       /\ cmd[r].op = "invite" => copy[r] = "none" \/ Target(r) \in DOMAIN members
       /\ cmd[r].op = "grant" /\ cmd[r].capability \in Capabilities /\ copy[r] # "none" =>
            grants[GrantRow(r)] # "none"
  /\ pc[r] = "commit" =>
       /\ cmd[r].op = "assign" => Target(r) \in DOMAIN members /\ cmd[r].role \in DOMAIN roles
       /\ cmd[r].op = "attach" => cmd[r].role \in DOMAIN roles
       /\ cmd[r].op \in GrantOps => <<"grant", GrantRow(r)>> \in held[r]
       /\ cmd[r].op = "grant" /\ cmd[r].capability \in Capabilities /\ copy[r] = "none" =>
            grants[GrantRow(r)] = "none"

\* An invitation with a key.
InvitingOf(r) ==
  /\ pc[r] = "commit" /\ StoresKey(r) => KeyOf(r) \in keys \/ <<"key", KeyOf(r)>> \in held[r]
  /\ pc[r] \in {"load", "write", "recheck", "claim", "commit"} /\ cmd[r].op = "invite" =>
       \A i \in 2..Len(past) : FirstInvite(i, KeyOf(r)) => began[r] < i \/ KeyOf(r) \in foreign

\* The creation of a business: the business has members from its first commit on,
\* and an Owner role from its second.
CreatingOf(r) ==
  cmd[r].op = "create" =>
    /\ pc[r] \in {"session", "seed", "permission", "clashed"} =>
         \A u \in Users : <<r, u>> \notin DOMAIN members
    /\ pc[r] \in {"owner", "appoint", "announce", "done"} => <<r, cmd[r].by>> \in DOMAIN members
    /\ pc[r] = "clashed" \/ (\E u \in Users : <<r, u>> \in DOMAIN members) => permissions = Codes
    /\ pc[r] = "permission" /\ Seeded(r) => permissions = Codes
    /\ pc[r] = "appoint" => view[r] = Codes
    /\ pc[r] \in {"announce", "done"} => r \in DOMAIN roles
    /\ pc[r] = "done" => r \in announced
    /\ r \in DOMAIN roles =>
         /\ <<r, cmd[r].by>> \in DOMAIN members
         /\ <<<<r, cmd[r].by>>, r>> \in assigned /\ roles[r].codes = Codes

Own(r) == RouteOf(r) /\ DatedOf(r) /\ LoadedOf(r) /\ InvitingOf(r) /\ CreatingOf(r)

Inv ==
  /\ TypeOK /\ Present /\ Committed /\ KeyStored /\ GrantsInv /\ Exclusive
  /\ RevokedStaysOut /\ RepeatedInviteIsOne
  /\ \A r \in Requests : Own(r)

-----------------------------------------------------------------------------
(* What others rely on, and what they leave alone *)

\* What has been committed is not taken back.
Grows ==
  /\ cmd' = cmd /\ Len(past') \in Nat /\ Len(past) <= Len(past')
  /\ \A i \in 1..Len(past) : past'[i] = past[i]
  /\ permissions' \in {permissions, Codes}
  /\ announced \subseteq announced'
  /\ DOMAIN members \subseteq DOMAIN members' /\ DOMAIN roles \subseteq DOMAIN roles'
  /\ assigned \subseteq assigned' /\ keys \subseteq keys' /\ foreign \subseteq foreign'
  /\ \A g \in Businesses \X Capabilities : grants[g] # "none" => grants'[g] # "none"

\* What a step of r leaves to the others.
Others(r) ==
  \A b \in Requests \ {r} :
    /\ pc'[b] = pc[b] /\ began'[b] = began[b] /\ view'[b] = view[b] /\ copy'[b] = copy[b]
    /\ read'[b] = read[b] /\ code'[b] = code[b] /\ held'[b] = held[b]

\* What nobody else does to the rows that b has locked, and to the business and the
\* Owner role that b creates.
Fence(b) ==
  /\ <<"grant", GrantRow(b)>> \in held[b] /\ cmd[b].capability \in Capabilities =>
       grants'[GrantRow(b)] = grants[GrantRow(b)]
  /\ cmd[b].op = "create" =>
       /\ pc[b] \in {"session", "seed", "permission", "clashed"} =>
            \A u \in Users : <<b, u>> \in DOMAIN members' => <<b, u>> \in DOMAIN members
       /\ \A u \in Users : <<b, u>> \in DOMAIN members' =>
            \E v \in Users : <<b, v>> \in DOMAIN members
       /\ b \in DOMAIN roles' =>
            b \in DOMAIN roles /\ (roles[b].codes = Codes => roles'[b].codes = Codes)

LEMMA PastTypes ==
  ASSUME Inv
  PROVE  Len(past) \in Nat /\ Len(past) >= 1
BY DEF Inv, Present

LEMMA CommandTypes ==
  ASSUME Inv, NEW r \in Requests
  PROVE  /\ cmd[r] \in Command /\ cmd[r].by \in Users /\ cmd[r].user \in Users
         /\ cmd[r].shop \in Businesses /\ cmd[r].role \in Roles /\ cmd[r].code \in Codes
         /\ cmd[r].key \in Keys \cup {NoKey} /\ cmd[r].at \in Branches \cup {NoBranch}
         /\ cmd[r].branch \in Branches \cup {NoBranch}
         /\ cmd[r].capability \in Capabilities \cup {NoCapability}
         /\ Actor(r) \in Members /\ Target(r) \in Members
<1>1. cmd[r] \in Command
  BY DEF Inv, TypeOK
<1>2. QED BY <1>1 DEF Command, Actor, Target, Members

LEMMA FirstInviteStays ==
  ASSUME Inv, Grows
  PROVE  \A i \in 2..Len(past) : \A k : FirstInvite(i, k)' <=> FirstInvite(i, k)
<1>1. ASSUME NEW i \in 2..Len(past), NEW k PROVE FirstInvite(i, k)' <=> FirstInvite(i, k)
  <2>1. past'[i] = past[i] /\ past'[i - 1] = past[i - 1] /\ cmd' = cmd
    BY PastTypes DEF Grows
  <2>2. QED BY <2>1 DEF FirstInvite, KeyOf, Target
<1>2. QED BY <1>1

LEMMA OthersKept ==
  ASSUME Inv, Grows, NEW r \in Requests, Others(r), NEW b \in Requests \ {r}, Fence(b)
  PROVE  Own(b)'
<1>1. Own(b)
  BY DEF Inv
<1>2. /\ pc'[b] = pc[b] /\ began'[b] = began[b] /\ view'[b] = view[b] /\ copy'[b] = copy[b]
      /\ read'[b] = read[b] /\ code'[b] = code[b] /\ held'[b] = held[b] /\ cmd' = cmd
  BY DEF Others, Grows
<1>3. /\ Len(past) \in Nat /\ Len(past') \in Nat /\ Len(past) <= Len(past')
      /\ \A i \in 1..Len(past) : past'[i] = past[i]
  BY PastTypes DEF Grows
<1>4. began[b] \in Nat /\ read[b] \in Nat
  BY DEF Inv, TypeOK
<1>5. RouteOf(b)'
  BY <1>1, <1>2 DEF Own, RouteOf
<1>6. DatedOf(b)'
  <2>1. began[b] >= 1 =>
          \A i \in Since(b) : i \in 1..Len(past) /\ i \in Since(b)' /\ past'[i] = past[i]
    BY <1>2, <1>3, <1>4 DEF Since
  <2>2. began[b] >= 1 => \A i \in Since(b) :
          /\ SignedIn(b, i)' <=> SignedIn(b, i)
          /\ Admitted(b, i)' <=> Admitted(b, i)
          /\ Scoped(b, i)' <=> Scoped(b, i)
          /\ May(b, i)' <=> May(b, i)
          /\ Has(b, i)' <=> Has(b, i)
    BY <1>2, <2>1 DEF SignedIn, Admitted, Scoped, May, Has, Actor
  <2>3. DatedOf(b)
    BY <1>1 DEF Own
  <2>4. CASE ~(pc[b] \in {"member", "scopes", "roles", "codes"} \cup Decided /\ cmd[b].op \in Gated)
    BY <1>1, <1>2, <1>3, <1>4, <2>3, <2>4 DEF DatedOf, Own, RouteOf
  <2>5. CASE pc[b] \in {"member", "scopes", "roles", "codes"} \cup Decided /\ cmd[b].op \in Gated
    <3>1. began[b] >= 1
      BY <1>4, <2>3, <2>5 DEF DatedOf
    <3>2. \A i \in Since(b) : i \in Since(b)'
      BY <2>1, <3>1
    <3>3. began'[b] <= Len(past') /\ began'[b] \in 1..Len(past')
      BY <1>2, <1>3, <1>4, <2>3, <2>5 DEF DatedOf
    <3>4. pc[b] = "member" => \E i \in Since(b)' : SignedIn(b, i)'
      BY <2>2, <2>3, <3>1, <3>2 DEF DatedOf
    <3>5. pc[b] = "scopes" => \E i, j \in Since(b)' : i <= j /\ SignedIn(b, i)' /\ Admitted(b, j)'
      BY <2>2, <2>3, <3>1, <3>2 DEF DatedOf
    <3>6. pc[b] \in {"roles", "codes"} =>
            \E i, j, k \in Since(b)' :
              i <= j /\ j <= k /\ SignedIn(b, i)' /\ Admitted(b, j)' /\ Scoped(b, k)'
      BY <2>2, <2>3, <3>1, <3>2 DEF DatedOf
    <3>7. pc[b] = "codes" => view[b] \subseteq {x \in DOMAIN roles' : <<Actor(b), x>> \in assigned'}
      BY <2>3 DEF DatedOf, Grows
    <3>8. pc[b] # "member" => Actor(b) \in DOMAIN members'
      BY <2>3, <2>5 DEF DatedOf, Grows
    <3>9. pc[b] \in Decided => \E i, j, k, l, n \in Since(b)' :
            /\ i <= j /\ j <= k /\ k <= l /\ l <= n
            /\ SignedIn(b, i)' /\ Admitted(b, j)' /\ Scoped(b, k)' /\ May(b, l)'
            /\ pc[b] = "commit" /\ cmd[b].op = "work" /\ cmd[b].capability # NoCapability =>
                 Has(b, n)'
      <4>1. SUFFICES ASSUME pc[b] \in Decided
                     PROVE \E i, j, k, l, n \in Since(b)' :
            /\ i <= j /\ j <= k /\ k <= l /\ l <= n
            /\ SignedIn(b, i)' /\ Admitted(b, j)' /\ Scoped(b, k)' /\ May(b, l)'
            /\ pc[b] = "commit" /\ cmd[b].op = "work" /\ cmd[b].capability # NoCapability =>
                 Has(b, n)'
        OBVIOUS
      <4>2. PICK i, j, k, l, n \in Since(b) :
            /\ i <= j /\ j <= k /\ k <= l /\ l <= n
            /\ SignedIn(b, i) /\ Admitted(b, j) /\ Scoped(b, k) /\ May(b, l)
            /\ pc[b] = "commit" /\ cmd[b].op = "work" /\ cmd[b].capability # NoCapability =>
                 Has(b, n)
        BY <2>3, <2>5, <4>1 DEF DatedOf
      <4>3. QED BY <2>2, <3>1, <3>2, <4>2
    <3>10. Actor(b)' = Actor(b)
      BY <1>2 DEF Actor
    <3>11. QED BY <1>2, <3>3, <3>4, <3>5, <3>6, <3>7, <3>8, <3>9, <3>10 DEF DatedOf, Decided, Acting
  <2>6. QED BY <2>4, <2>5
<1>7. LoadedOf(b)'
  <2>1. LoadedOf(b)
    BY <1>1 DEF Own
  <2>2. /\ Target(b)' = Target(b) /\ GrantRow(b)' = GrantRow(b)
        /\ GrantRow(b) = <<cmd[b].shop, cmd[b].capability>>
    BY <1>2 DEF Target, GrantRow
  <2>3. read[b] >= 1 => (Had(Target(b), read[b], "revoked")' <=> Had(Target(b), read[b], "revoked"))
    BY <1>2, <1>3, <1>4, <2>1, <2>2 DEF LoadedOf, Had
  <2>4. cmd[b].capability \in Capabilities => GrantRow(b) \in Businesses \X Capabilities
    BY <2>2, CommandTypes
  <2>5. QED BY <1>2, <1>3, <1>4, <2>1, <2>2, <2>3, <2>4 DEF LoadedOf, Grows, Fence, Writing,
            GrantOps
<1>8. InvitingOf(b)'
  <2>1. InvitingOf(b)
    BY <1>1 DEF Own
  <2>2. KeyOf(b)' = KeyOf(b) /\ StoresKey(b)' = StoresKey(b)
    BY <1>2 DEF KeyOf, StoresKey
  <2>3. \A i \in 2..Len(past') : i \in 2..Len(past) \/ began[b] < i
    BY <1>1, <1>3, <1>4 DEF Own, DatedOf
  <2>4. \A i \in 2..Len(past) : FirstInvite(i, KeyOf(b))' <=> FirstInvite(i, KeyOf(b))
    BY <2>2, FirstInviteStays
  <2>5. QED BY <1>2, <2>1, <2>2, <2>3, <2>4 DEF InvitingOf, Grows
<1>9. CreatingOf(b)'
  <2>1. CreatingOf(b)
    BY <1>1 DEF Own
  <2>2. permissions = Codes => permissions' = Codes
    BY DEF Grows
  <2>3. Seeded(b)' => Seeded(b) \/ permissions' = Codes
    BY <1>2 DEF Seeded, Grows
  <2>4. QED BY <1>2, <2>1, <2>2, <2>3 DEF CreatingOf, Grows, Fence
<1>10. QED BY <1>5, <1>6, <1>7, <1>8, <1>9 DEF Own

-----------------------------------------------------------------------------
(* Steps that commit nothing *)

LEMMA QuietOthers ==
  ASSUME Inv, NEW r \in Requests, UNCHANGED <<db, cmd>>, Others(r)
  PROVE  \A b \in Requests \ {r} : Own(b)'
<1>1. Grows
  BY PastTypes DEF Grows, db, Inv, TypeOK
<1>2. \A b \in Requests \ {r} : Fence(b)
  BY DEF Fence, db
<1>3. QED BY <1>1, <1>2, OthersKept

LEMMA Quiet ==
  ASSUME Inv, NEW r \in Requests, pc[r] \in InFlight, UNCHANGED <<db, cmd>>, Others(r),
         TypeOK', Exclusive', pc'[r] # "done", Own(r)'
  PROVE  Inv'
<1>1. /\ sessions' = sessions /\ permissions' = permissions /\ members' = members
      /\ roles' = roles /\ assigned' = assigned /\ scopes' = scopes /\ grants' = grants
      /\ keys' = keys /\ foreign' = foreign /\ past' = past /\ cmd' = cmd /\ pc[r] # "done"
  BY DEF db, InFlight
<1>2. \A b \in Requests : Own(b)'
  BY QuietOthers
<1>3. Present'
  BY <1>1 DEF Inv, Present, Holds
<1>4. \A q \in Requests : pc[q] = "done" <=> pc'[q] = "done"
  BY <1>1 DEF Others
<1>5. Committed'
  BY <1>1, <1>4 DEF Inv, Committed
<1>6. KeyStored'
  BY <1>1 DEF Inv, KeyStored, FirstInvite, KeyOf, Target
<1>7. GrantsInv'
  <2>1. \A op, b, c : Done(op, b, c)' <=> Done(op, b, c)
    BY <1>1, <1>4 DEF Done
  <2>2. QED BY <1>1, <2>1 DEF Inv, GrantsInv
<1>8. RevokedStaysOut'
  <2>1. SUFFICES ASSUME NEW i \in 1..(Len(past) - 1), NEW m \in Members,
                        Had(m, i, "revoked"), Had(m, i + 1, "active")
                 PROVE  /\ cmd[past[i + 1].by].op = "activate"
                        /\ \E k \in read'[past[i + 1].by]..i : ~Had(m, k, "revoked")
    BY <1>1 DEF RevokedStaysOut, Had
  <2>2. /\ cmd[past[i + 1].by].op = "activate"
        /\ \E k \in read[past[i + 1].by]..i : ~Had(m, k, "revoked")
    BY <2>1 DEF Inv, RevokedStaysOut
  <2>3. i + 1 \in 2..Len(past)
    BY PastTypes
  <2>4. past[i + 1].by \in Requests \ {r}
    BY <1>1, <2>2, <2>3 DEF Inv, Committed
  <2>5. QED BY <2>2, <2>4 DEF Others
<1>9. RepeatedInviteIsOne'
  <2>1. SUFFICES ASSUME NEW i \in 2..Len(past), NEW j \in 2..Len(past), i < j,
                        cmd[past[i].by].op = "invite", cmd[past[j].by].op = "invite",
                        cmd[past[i].by].key # NoKey, KeyOf(past[i].by) = KeyOf(past[j].by),
                        Target(past[i].by) \notin DOMAIN past[i - 1].members
                 PROVE  began'[past[j].by] < i \/ KeyOf(past[i].by) \in foreign
    BY <1>1 DEF RepeatedInviteIsOne, KeyOf, Target
  <2>2. began[past[j].by] < i \/ KeyOf(past[i].by) \in foreign
    BY <2>1 DEF Inv, RepeatedInviteIsOne
  <2>3. past[j].by \in Requests \ {r}
    BY <1>1, <2>1 DEF Inv, Committed
  <2>4. QED BY <2>2, <2>3 DEF Others
<1>10. QED BY <1>2, <1>3, <1>5, <1>6, <1>7, <1>8, <1>9 DEF Inv

\* A check that reads and goes on.
LEMMA PassStep ==
  ASSUME Inv, NEW r \in Requests, NEW at \in InFlight, NEW next \in InFlight,
         Pass(r, at, next), Own(r)'
  PROVE  Inv'
<1>1. /\ pc[r] = at /\ pc' = [pc EXCEPT ![r] = next] /\ UNCHANGED <<db, cmd>>
      /\ began' = began /\ view' = view /\ copy' = copy /\ read' = read /\ code' = code
      /\ held' = held
  BY DEF Pass, Goto, own
<1>2. Others(r) /\ pc'[r] # "done" /\ pc[r] \in InFlight
  BY <1>1 DEF Others, Inv, TypeOK, InFlight
<1>3. TypeOK'
  BY <1>1 DEF Inv, TypeOK, db, InFlight, Finished
<1>4. Exclusive'
  BY <1>1 DEF Inv, Exclusive
<1>5. QED BY <1>1, <1>2, <1>3, <1>4, Quiet

\* The end of a request, refused, crashed or clashed.
LEMMA EndStep ==
  ASSUME Inv, NEW r \in Requests, NEW at \in InFlight, NEW outcome \in {"clashed", "gone"},
         End(r, at, outcome),
         outcome = "clashed" /\ cmd[r].op = "create" =>
           pc[r] = "permission" /\ permissions = Codes
  PROVE  Inv'
<1>1. /\ pc[r] = at /\ pc' = [pc EXCEPT ![r] = outcome] /\ UNCHANGED <<db, cmd>>
      /\ held' = [held EXCEPT ![r] = {}]
      /\ began' = [began EXCEPT ![r] = 0] /\ read' = [read EXCEPT ![r] = 0]
      /\ view' = [view EXCEPT ![r] = {}] /\ copy' = [copy EXCEPT ![r] = "none"]
      /\ code' = [code EXCEPT ![r] = 1]
  BY DEF End, Goto, Release
<1>2. /\ pc'[r] = outcome /\ held'[r] = {} /\ began'[r] = 0 /\ read'[r] = 0 /\ pc[r] \in InFlight
  BY <1>1 DEF Inv, TypeOK
<1>3. Others(r)
  BY <1>1 DEF Others, Inv, TypeOK
<1>4. TypeOK'
  <2>1. 1 \in Positions
    BY PermissionsAssumption DEF Positions
  <2>2. \A q \in Requests : pc'[q] \in Finished => held'[q] = {}
    BY <1>1, <1>2, <1>3 DEF Others, Inv, TypeOK
  <2>3. pc' \in [Requests -> InFlight \cup Finished] /\ held' \in [Requests -> SUBSET Rows]
    BY <1>1 DEF Inv, TypeOK, Finished
  <2>4. /\ began' \in [Requests -> Nat] /\ read' \in [Requests -> Nat]
        /\ view' \in [Requests -> SUBSET (Roles \cup Codes)]
        /\ copy' \in [Requests -> Statuses \cup Grant] /\ code' \in [Requests -> Positions]
    BY <1>1, <2>1 DEF Inv, TypeOK, Grant
  <2>5. /\ sessions' = sessions /\ permissions' = permissions /\ members' = members
        /\ roles' = roles /\ assigned' = assigned /\ scopes' = scopes /\ grants' = grants
        /\ keys' = keys /\ foreign' = foreign /\ announced' = announced /\ cmd' = cmd
    BY <1>1 DEF db
  <2>6. QED BY <2>2, <2>3, <2>4, <2>5 DEF Inv, TypeOK
<1>5. Exclusive'
  BY <1>2, <1>3 DEF Inv, Exclusive, Others
<1>6. RouteOf(r)' /\ DatedOf(r)' /\ LoadedOf(r)' /\ InvitingOf(r)'
  BY <1>2, <1>1, PastTypes DEF RouteOf, DatedOf, LoadedOf, InvitingOf, Decided, Acting, Writing, db
<1>7. CreatingOf(r)'
  <2>1. CreatingOf(r)
    BY DEF Inv, Own
  <2>2. QED BY <1>1, <1>2, <2>1 DEF CreatingOf, db
<1>8. QED BY <1>1, <1>2, <1>3, <1>4, <1>5, <1>6, <1>7, Quiet DEF Own


LEMMA PassFacts ==
  ASSUME Inv, NEW r \in Requests, NEW at \in InFlight, NEW next \in InFlight, Pass(r, at, next)
  PROVE  /\ pc[r] = at /\ pc'[r] = next /\ cmd' = cmd /\ past' = past /\ members' = members
         /\ roles' = roles /\ assigned' = assigned /\ grants' = grants /\ keys' = keys /\ foreign' = foreign
         /\ began' = began /\ view' = view /\ copy' = copy /\ read' = read /\ held' = held
         /\ Since(r)' = Since(r) /\ Actor(r)' = Actor(r) /\ KeyOf(r)' = KeyOf(r)
         /\ \A i : /\ SignedIn(r, i)' <=> SignedIn(r, i)
                   /\ Admitted(r, i)' <=> Admitted(r, i)
                   /\ Scoped(r, i)' <=> Scoped(r, i)
                   /\ May(r, i)' <=> May(r, i)
                   /\ Has(r, i)' <=> Has(r, i)
                   /\ FirstInvite(i, KeyOf(r))' <=> FirstInvite(i, KeyOf(r))
<1>1. /\ pc[r] = at /\ pc'[r] = next /\ cmd' = cmd /\ past' = past /\ members' = members
      /\ roles' = roles /\ assigned' = assigned /\ grants' = grants /\ keys' = keys /\ foreign' = foreign
      /\ began' = began /\ view' = view /\ copy' = copy /\ read' = read /\ held' = held
  BY DEF Pass, Goto, db, own, Inv, TypeOK
<1>2. QED BY <1>1 DEF Since, SignedIn, Admitted, Scoped, May, Has, Actor, FirstInvite, KeyOf, Target

\* The moment at which a request checks.
LEMMA NowTrue ==
  ASSUME Inv, NEW r \in Requests
  PROVE  /\ cmd[r].by \in sessions => SignedIn(r, Len(past))
         /\ Admits(Actor(r)) => Admitted(r, Len(past))
         /\ InScope(scopes, Actor(r), cmd[r].at) => Scoped(r, Len(past))
         /\ Entitled(r) => Has(r, Len(past))
         /\ Actor(r) \in DOMAIN members =>
              past[Len(past)].codes[Actor(r)] = Holds(Actor(r))
         /\ began[r] \in 1..Len(past) => Len(past) \in Since(r) /\ Since(r) \subseteq 1..Len(past)
<1>1. /\ past[Len(past)].sessions = sessions /\ past[Len(past)].members = members
      /\ past[Len(past)].scopes = scopes /\ past[Len(past)].grants = grants
      /\ past[Len(past)].codes = [m \in DOMAIN members |-> Holds(m)]
  BY DEF Inv, Present
<1>2. cmd[r].by \in sessions => SignedIn(r, Len(past))
  BY <1>1 DEF SignedIn
<1>3. Admits(Actor(r)) => Admitted(r, Len(past))
  BY <1>1 DEF Admits, Admitted
<1>4. InScope(scopes, Actor(r), cmd[r].at) => Scoped(r, Len(past))
  BY <1>1 DEF Scoped
<1>5. Entitled(r) => Has(r, Len(past))
  BY <1>1 DEF Entitled, Has
<1>6. Actor(r) \in DOMAIN members => past[Len(past)].codes[Actor(r)] = Holds(Actor(r))
  BY <1>1
<1>7. began[r] \in 1..Len(past) => Len(past) \in Since(r) /\ Since(r) \subseteq 1..Len(past)
  BY PastTypes DEF Since
<1>8. QED BY <1>2, <1>3, <1>4, <1>5, <1>6, <1>7

LEMMA FindMemberStep ==
  ASSUME Inv, NEW r \in Requests, FindMember(r)
  PROVE  Inv'
<1>0. "member" \in InFlight /\ "scopes" \in InFlight
  BY DEF InFlight
<1>1. Pass(r, "member", "scopes") /\ Admits(Actor(r))
  BY DEF FindMember
<1>2. Own(r)
  BY DEF Inv
<1>a. pc[r] = "member" /\ pc'[r] = "scopes" /\ cmd' = cmd /\ held' = held
  BY <1>0, <1>1, PassFacts
<1>3. RouteOf(r)' /\ CreatingOf(r)'
  BY <1>2, <1>a DEF Own, RouteOf, CreatingOf, Gated
<1>4. LoadedOf(r)' /\ InvitingOf(r)'
  BY <1>0, <1>1, <1>2, PassFacts DEF Own, LoadedOf, InvitingOf, Writing
<1>5. DatedOf(r)'
  <2>1. began[r] \in 1..Len(past) /\ began[r] <= Len(past) /\ cmd[r].op \in Gated
    BY <1>2, <1>a DEF Own, DatedOf, RouteOf
  <2>2. PICK i \in Since(r) : SignedIn(r, i)
    BY <1>2, <1>a DEF Own, DatedOf
  <2>3. Admitted(r, Len(past)) /\ Len(past) \in Since(r) /\ i <= Len(past)
    BY <1>1, <2>1, NowTrue
  <2>4. \E u, j \in Since(r)' : u <= j /\ SignedIn(r, u)' /\ Admitted(r, j)'
    BY <1>0, <1>1, <2>2, <2>3, PassFacts
  <2>5. Actor(r)' \in DOMAIN members' /\ began'[r] \in 1..Len(past') /\ began'[r] <= Len(past')
    BY <1>0, <1>1, <2>1, PassFacts DEF Admits
  <2>6. QED BY <1>a, <2>4, <2>5 DEF DatedOf, Decided, Acting
<1>6. QED BY <1>0, <1>1, <1>3, <1>4, <1>5, PassStep DEF Own

LEMMA CheckScopeStep ==
  ASSUME Inv, NEW r \in Requests, CheckScope(r)
  PROVE  Inv'
<1>0. "scopes" \in InFlight /\ "roles" \in InFlight
  BY DEF InFlight
<1>1. Pass(r, "scopes", "roles") /\ InScope(scopes, Actor(r), cmd[r].at)
  BY DEF CheckScope
<1>2. Own(r)
  BY DEF Inv
<1>a. pc[r] = "scopes" /\ pc'[r] = "roles" /\ cmd' = cmd /\ held' = held
  BY <1>0, <1>1, PassFacts
<1>3. RouteOf(r)' /\ CreatingOf(r)'
  BY <1>2, <1>a DEF Own, RouteOf, CreatingOf, Gated
<1>4. LoadedOf(r)' /\ InvitingOf(r)'
  BY <1>0, <1>1, <1>2, PassFacts DEF Own, LoadedOf, InvitingOf, Writing
<1>5. DatedOf(r)'
  <2>1. began[r] \in 1..Len(past) /\ began[r] <= Len(past) /\ Actor(r) \in DOMAIN members
    BY <1>2, <1>a DEF Own, DatedOf, RouteOf
  <2>2. PICK i, j \in Since(r) : i <= j /\ SignedIn(r, i) /\ Admitted(r, j)
    BY <1>2, <1>a DEF Own, DatedOf
  <2>3. Scoped(r, Len(past)) /\ Len(past) \in Since(r) /\ j <= Len(past)
    BY <1>1, <2>1, NowTrue
  <2>4. \E u, v, k \in Since(r)' :
          u <= v /\ v <= k /\ SignedIn(r, u)' /\ Admitted(r, v)' /\ Scoped(r, k)'
    BY <1>0, <1>1, <2>2, <2>3, PassFacts
  <2>5. Actor(r)' \in DOMAIN members' /\ began'[r] \in 1..Len(past') /\ began'[r] <= Len(past')
    BY <1>0, <1>1, <2>1, PassFacts
  <2>6. QED BY <1>a, <2>4, <2>5 DEF DatedOf, Decided, Acting
<1>6. QED BY <1>0, <1>1, <1>3, <1>4, <1>5, PassStep DEF Own

\* The code that the route needs is among those that the member holds now.
LEMMA PermittedNow ==
  ASSUME Inv, NEW r \in Requests, pc[r] = "codes", Permitted(r), Actor(r) \in DOMAIN members
  PROVE  May(r, Len(past))
<1>1. PICK x \in view[r] : Needs[cmd[r].op] \in roles[x].codes
  BY DEF Permitted
<1>2. x \in DOMAIN roles /\ <<Actor(r), x>> \in assigned
  BY DEF Inv, Own, DatedOf
<1>3. Needs[cmd[r].op] \in Holds(Actor(r))
  BY <1>1, <1>2 DEF Holds
<1>4. QED BY <1>3, NowTrue DEF May

LEMMA AuthorizeStep ==
  ASSUME Inv, NEW r \in Requests, Authorize(r)
  PROVE  Inv'
<1>0. "codes" \in InFlight /\ AfterContext(r) \in {"lookup", "load", "commit", "capability"}
      /\ AfterContext(r) \in InFlight
  BY DEF InFlight, AfterContext
<1>1. Pass(r, "codes", AfterContext(r)) /\ Permitted(r)
  BY DEF Authorize
<1>2. Own(r)
  BY DEF Inv
<1>a. pc[r] = "codes" /\ pc'[r] = AfterContext(r) /\ cmd' = cmd /\ held' = held
  BY <1>0, <1>1, PassFacts
<1>b. /\ AfterContext(r) = "lookup" => cmd[r].op = "invite" /\ cmd[r].key # NoKey
      /\ AfterContext(r) = "load" =>
           cmd[r].op # "work" /\ (cmd[r].op = "invite" => cmd[r].key = NoKey)
      /\ AfterContext(r) = "commit" => cmd[r].op = "work" /\ cmd[r].capability = NoCapability
      /\ AfterContext(r) = "capability" => cmd[r].op = "work" /\ cmd[r].capability # NoCapability
  BY DEF AfterContext
<1>c. cmd[r].op \in Gated
  BY <1>2, <1>a DEF Own, RouteOf
<1>3. RouteOf(r)' /\ CreatingOf(r)'
  BY <1>0, <1>2, <1>a, <1>b, <1>c DEF Own, RouteOf, CreatingOf, Gated
<1>4. LoadedOf(r)'
  BY <1>0, <1>1, <1>2, <1>b, PassFacts DEF Own, LoadedOf, Writing, GrantOps
<1>5. InvitingOf(r)'
  <2>1. ASSUME cmd[r].key = NoKey, NEW i \in 2..Len(past) PROVE ~FirstInvite(i, KeyOf(r))
    BY <2>1 DEF FirstInvite, KeyOf
  <2>2. QED BY <1>0, <1>1, <1>b, <2>1, PassFacts DEF InvitingOf, StoresKey
<1>6. DatedOf(r)'
  <2>1. began[r] \in 1..Len(past) /\ began[r] <= Len(past) /\ Actor(r) \in DOMAIN members
    BY <1>2, <1>a, <1>c DEF Own, DatedOf
  <2>2. PICK i, j, k \in Since(r) :
          i <= j /\ j <= k /\ SignedIn(r, i) /\ Admitted(r, j) /\ Scoped(r, k)
    BY <1>2, <1>a DEF Own, DatedOf
  <2>3. May(r, Len(past)) /\ Len(past) \in Since(r) /\ k <= Len(past)
    BY <1>1, <1>a, <2>1, NowTrue, PermittedNow
  <2>4. Len(past) <= Len(past)
    BY PastTypes
  <2>5. \E u, v, w, l, n \in Since(r)' :
          /\ u <= v /\ v <= w /\ w <= l /\ l <= n
          /\ SignedIn(r, u)' /\ Admitted(r, v)' /\ Scoped(r, w)' /\ May(r, l)'
    BY <1>0, <1>1, <2>2, <2>3, <2>4, PassFacts
  <2>6. Actor(r)' \in DOMAIN members' /\ began'[r] \in 1..Len(past') /\ began'[r] <= Len(past')
    BY <1>0, <1>1, <2>1, PassFacts
  <2>7. ~(pc'[r] = "commit" /\ cmd'[r].op = "work" /\ cmd'[r].capability # NoCapability)
    BY <1>a, <1>b
  <2>8. QED BY <1>0, <1>a, <2>5, <2>6, <2>7 DEF DatedOf, Decided, Acting
<1>7. QED BY <1>0, <1>1, <1>3, <1>4, <1>5, <1>6, PassStep DEF Own

LEMMA RequireCapabilityStep ==
  ASSUME Inv, NEW r \in Requests, RequireCapability(r)
  PROVE  Inv'
<1>0. "capability" \in InFlight /\ "commit" \in InFlight
  BY DEF InFlight
<1>1. Pass(r, "capability", "commit") /\ Entitled(r)
  BY DEF RequireCapability
<1>2. Own(r)
  BY DEF Inv
<1>a. pc[r] = "capability" /\ pc'[r] = "commit" /\ cmd' = cmd /\ held' = held
  BY <1>0, <1>1, PassFacts
<1>c. cmd[r].op = "work" /\ cmd[r].op \in Gated
  BY <1>2, <1>a DEF Own, RouteOf
<1>3. RouteOf(r)' /\ CreatingOf(r)'
  BY <1>a, <1>c DEF RouteOf, CreatingOf
<1>4. LoadedOf(r)' /\ InvitingOf(r)'
  BY <1>0, <1>1, <1>2, <1>c, PassFacts DEF Own, LoadedOf, InvitingOf, StoresKey, Writing, GrantOps
<1>6. DatedOf(r)'
  <2>1. began[r] \in 1..Len(past) /\ began[r] <= Len(past) /\ Actor(r) \in DOMAIN members
    BY <1>2, <1>a, <1>c DEF Own, DatedOf, Decided
  <2>2. PICK i, j, k, l \in Since(r) :
          /\ i <= j /\ j <= k /\ k <= l
          /\ SignedIn(r, i) /\ Admitted(r, j) /\ Scoped(r, k) /\ May(r, l)
    BY <1>2, <1>a, <1>c DEF Own, DatedOf, Decided
  <2>3. Has(r, Len(past)) /\ Len(past) \in Since(r) /\ l <= Len(past)
    BY <1>1, <2>1, NowTrue
  <2>5. \E u, v, w, x, n \in Since(r)' :
          /\ u <= v /\ v <= w /\ w <= x /\ x <= n
          /\ SignedIn(r, u)' /\ Admitted(r, v)' /\ Scoped(r, w)' /\ May(r, x)' /\ Has(r, n)'
    BY <1>0, <1>1, <2>2, <2>3, PassFacts
  <2>6. Actor(r)' \in DOMAIN members' /\ began'[r] \in 1..Len(past') /\ began'[r] <= Len(past')
    BY <1>0, <1>1, <2>1, PassFacts
  <2>8. QED BY <1>a, <2>5, <2>6 DEF DatedOf, Decided, Acting
<1>7. QED BY <1>0, <1>1, <1>3, <1>4, <1>6, PassStep DEF Own

LEMMA ProceedStep ==
  ASSUME Inv, NEW r \in Requests, Proceed(r)
  PROVE  Inv'
<1>0. "lookup" \in InFlight /\ "load" \in InFlight
  BY DEF InFlight
<1>1. Pass(r, "lookup", "load") /\ KeyOf(r) \notin keys \ foreign
  BY DEF Proceed, HasPrior
<1>2. Own(r)
  BY DEF Inv
<1>a. pc[r] = "lookup" /\ pc'[r] = "load" /\ cmd' = cmd /\ held' = held
  BY <1>0, <1>1, PassFacts
<1>c. cmd[r].op = "invite" /\ cmd[r].op \in Gated
  BY <1>2, <1>a DEF Own, RouteOf, Gated
<1>3. RouteOf(r)' /\ CreatingOf(r)'
  BY <1>2, <1>a, <1>c DEF Own, RouteOf, CreatingOf
<1>4. LoadedOf(r)'
  BY <1>0, <1>1, <1>2, PassFacts DEF Own, LoadedOf, Writing
<1>5. InvitingOf(r)'
  <2>1. \A i \in 2..Len(past) : FirstInvite(i, KeyOf(r)) => KeyOf(r) \in foreign
    BY <1>1 DEF Inv, KeyStored
  <2>2. QED BY <1>0, <1>1, <2>1, PassFacts DEF InvitingOf
<1>6. DatedOf(r)'
  <2>1. DatedOf(r)
    BY <1>2 DEF Own
  <2>2. QED BY <1>0, <1>1, <1>a, <1>c, <2>1, PassFacts DEF DatedOf, Decided, Acting
<1>7. QED BY <1>0, <1>1, <1>3, <1>4, <1>5, <1>6, PassStep DEF Own

LEMMA RecheckStep ==
  ASSUME Inv, NEW r \in Requests, Recheck(r)
  PROVE  Inv'
<1> DEFINE next == IF KeyTaken(r) THEN "commit" ELSE "claim"
<1>0. "recheck" \in InFlight /\ next \in InFlight /\ next \in {"commit", "claim"}
  BY DEF InFlight
<1>1. Pass(r, "recheck", next) /\ (next = "commit" => KeyOf(r) \in keys)
  BY DEF Recheck, KeyTaken
<1> HIDE DEF next
<1>2. Own(r)
  BY DEF Inv
<1>a. pc[r] = "recheck" /\ pc'[r] = next /\ cmd' = cmd /\ held' = held
  BY <1>0, <1>1, PassFacts
<1>c. cmd[r].op = "invite" /\ cmd[r].op \in Gated /\ cmd[r].key # NoKey
  BY <1>2, <1>a DEF Own, RouteOf, Gated
<1>3. RouteOf(r)' /\ CreatingOf(r)'
  BY <1>0, <1>a, <1>c DEF RouteOf, CreatingOf
<1>4. LoadedOf(r)'
  <2>1. LoadedOf(r)
    BY <1>2 DEF Own
  <2>2. Target(r)' = Target(r)
    BY <1>a DEF Target
  <2>3. QED BY <1>0, <1>1, <1>a, <1>c, <2>1, <2>2, PassFacts DEF LoadedOf, Writing, GrantOps
<1>5. InvitingOf(r)'
  <2>1. InvitingOf(r)
    BY <1>2 DEF Own
  <2>2. QED BY <1>0, <1>1, <1>a, <2>1, PassFacts DEF InvitingOf
<1>6. DatedOf(r)'
  <2>1. DatedOf(r)
    BY <1>2 DEF Own
  <2>2. QED BY <1>0, <1>1, <1>a, <1>c, <2>1, PassFacts DEF DatedOf, Decided, Acting
<1>7. QED BY <1>0, <1>1, <1>3, <1>4, <1>5, <1>6, PassStep DEF Own

LEMMA ResolveUserStep ==
  ASSUME Inv, NEW r \in Requests, ResolveUser(r)
  PROVE  Inv'
<1>1. PICK next \in {"seed", "load", "member"} :
        /\ pc' = [pc EXCEPT ![r] = next]
        /\ next = "seed" => cmd[r].op = "create"
        /\ next = "load" => cmd[r].op = "activate"
        /\ next = "member" => cmd[r].op \notin {"create", "activate"}
  BY DEF ResolveUser, Goto
<1>2. /\ pc[r] = "session" /\ cmd[r].by \in sessions
      /\ began' = [began EXCEPT ![r] = Len(past)] /\ UNCHANGED <<db, cmd>>
      /\ view' = view /\ copy' = copy /\ read' = read /\ code' = code /\ held' = held
      /\ past' = past /\ members' = members /\ cmd' = cmd
  BY DEF ResolveUser, db
<1>3. pc'[r] = next /\ began'[r] = Len(past) /\ next \in InFlight /\ pc[r] \in InFlight
      /\ pc'[r] # "done"
  BY <1>1, <1>2 DEF Inv, TypeOK, InFlight
<1>4. Others(r)
  BY <1>1, <1>2 DEF Others, Inv, TypeOK
<1>5. TypeOK' /\ Exclusive'
  <2>1. began' \in [Requests -> Nat]
    BY <1>2, PastTypes DEF Inv, TypeOK
  <2>2. /\ pc' \in [Requests -> InFlight \cup Finished]
        /\ \A q \in Requests : pc'[q] \in Finished => held'[q] = {}
    BY <1>1, <1>2, <1>3 DEF Inv, TypeOK, InFlight, Finished
  <2>3. /\ sessions' = sessions /\ permissions' = permissions /\ members' = members
        /\ roles' = roles /\ assigned' = assigned /\ scopes' = scopes /\ grants' = grants
        /\ keys' = keys /\ foreign' = foreign /\ announced' = announced /\ cmd' = cmd
    BY <1>2 DEF db
  <2>4. QED BY <1>2, <2>1, <2>2, <2>3 DEF Inv, TypeOK, Exclusive
<1>6. Own(r)
  BY DEF Inv
<1>7. RouteOf(r)'
  <2>1. pc'[r] = "member" => cmd[r].op \in Gated
    <3>1. cmd[r].op \in Gated \cup {"activate", "create", "logout"}
      BY CommandTypes DEF Command
    <3>2. QED BY <1>1, <1>2, <1>3, <1>6, <3>1 DEF Own, RouteOf, Since
  <2>2. QED BY <1>1, <1>2, <1>3, <1>6, <2>1 DEF Own, RouteOf
<1>8. DatedOf(r)'
  <2>1. Len(past) \in Since(r)' /\ SignedIn(r, Len(past))'
    BY <1>2, <1>3, PastTypes, NowTrue DEF Since, SignedIn
  <2>2. pc'[r] = "load" => cmd[r].op \notin Gated
    BY <1>1, <1>3 DEF Gated
  <2>3. QED BY <1>2, <1>3, <2>1, <2>2, PastTypes DEF DatedOf, Decided, Acting
<1>9. LoadedOf(r)' /\ CreatingOf(r)'
  BY <1>1, <1>2, <1>3, <1>6 DEF Own, LoadedOf, CreatingOf, Writing, db
<1>10. InvitingOf(r)'
  BY <1>1, <1>2, <1>3 DEF InvitingOf
<1>11. QED BY <1>2, <1>3, <1>4, <1>5, <1>7, <1>8, <1>9, <1>10, Quiet DEF Own

LEMMA ReadRolesStep ==
  ASSUME Inv, NEW r \in Requests, ReadRoles(r)
  PROVE  Inv'
<1> DEFINE mine == {x \in DOMAIN roles : <<Actor(r), x>> \in assigned}
<1>1. /\ pc[r] = "roles" /\ pc' = [pc EXCEPT ![r] = "codes"]
      /\ view' = [view EXCEPT ![r] = mine] /\ UNCHANGED <<db, cmd>>
      /\ began' = began /\ copy' = copy /\ read' = read /\ code' = code /\ held' = held
      /\ past' = past /\ members' = members /\ roles' = roles /\ assigned' = assigned
      /\ cmd' = cmd
  BY DEF ReadRoles, Goto, db
<1>2. pc'[r] = "codes" /\ view'[r] = mine /\ pc[r] \in InFlight /\ pc'[r] # "done"
  BY <1>1 DEF Inv, TypeOK, InFlight
<1>3. Others(r)
  BY <1>1 DEF Others, Inv, TypeOK
<1>4. TypeOK' /\ Exclusive'
  <2>1. view' \in [Requests -> SUBSET (Roles \cup Codes)]
    BY <1>1 DEF Inv, TypeOK
  <2>2. /\ pc' \in [Requests -> InFlight \cup Finished]
        /\ \A q \in Requests : pc'[q] \in Finished => held'[q] = {}
    BY <1>1, <1>2 DEF Inv, TypeOK, InFlight, Finished
  <2>3. /\ sessions' = sessions /\ permissions' = permissions /\ scopes' = scopes
        /\ grants' = grants /\ keys' = keys /\ foreign' = foreign /\ announced' = announced
    BY <1>1 DEF db
  <2>4. QED BY <1>1, <2>1, <2>2, <2>3 DEF Inv, TypeOK, Exclusive
<1>5. Own(r)
  BY DEF Inv
<1>6. RouteOf(r)' /\ CreatingOf(r)' /\ LoadedOf(r)' /\ InvitingOf(r)'
  BY <1>1, <1>2, <1>5 DEF Own, RouteOf, CreatingOf, LoadedOf, InvitingOf, Writing, Gated
<1>7. DatedOf(r)'
  <2>1. DatedOf(r)
    BY <1>5 DEF Own
  <2>2. /\ Since(r)' = Since(r) /\ Actor(r)' = Actor(r)
        /\ \A i : /\ SignedIn(r, i)' <=> SignedIn(r, i)
                  /\ Admitted(r, i)' <=> Admitted(r, i)
                  /\ Scoped(r, i)' <=> Scoped(r, i)
    BY <1>1 DEF Since, Actor, SignedIn, Admitted, Scoped
  <2>3. QED BY <1>1, <1>2, <2>1, <2>2 DEF DatedOf, Decided, Acting
<1>8. QED BY <1>1, <1>2, <1>3, <1>4, <1>6, <1>7, Quiet DEF Own

\* What the operations find and lock.
LEMMA RowFacts ==
  ASSUME Inv, NEW r \in Requests
  PROVE  /\ Row(r) \in Statuses \cup Grant
         /\ cmd[r].op \in MemberOps \cup {"scope"} /\ Row(r) # "none" =>
              Target(r) \in DOMAIN members /\ Row(r) = members[Target(r)]
         /\ cmd[r].op \in MemberOps \cup {"scope"} /\ Target(r) \in DOMAIN members =>
              Row(r) = members[Target(r)]
         /\ cmd[r].op \in GrantOps /\ Row(r) # "none" => grants[GrantRow(r)] = "granted"
         /\ cmd[r].op \in MemberOps => Touches(r) = {<<"member", Target(r)>>}
         /\ cmd[r].op \in GrantOps => Touches(r) = {<<"grant", GrantRow(r)>>}
         /\ cmd[r].op \in {"assign", "attach"} => Touches(r) = {<<"link", Link(r)>>}
         /\ cmd[r].op \notin MemberOps \cup GrantOps \cup {"assign", "attach"} => Touches(r) = {}
         /\ Touches(r) \in SUBSET Rows
<1>1. /\ cmd[r].op \in MemberOps => Touches(r) = {<<"member", Target(r)>>}
      /\ cmd[r].op \in GrantOps => Touches(r) = {<<"grant", GrantRow(r)>>}
      /\ cmd[r].op \in {"assign", "attach"} => Touches(r) = {<<"link", Link(r)>>}
      /\ cmd[r].op \notin MemberOps \cup GrantOps \cup {"assign", "attach"} => Touches(r) = {}
  BY DEF Touches, GrantRow, MemberOps, GrantOps
<1>2. Touches(r) \in SUBSET Rows
  BY <1>1, CommandTypes DEF Rows, GrantRow, Link
<1> DEFINE found == cmd[r].op \in MemberOps \cup {"scope"} /\ Target(r) \in DOMAIN members
           given == cmd[r].op \in GrantOps /\ grants[GrantRow(r)] = "granted"
<1>a. ~(found /\ given)
  BY DEF MemberOps, GrantOps
<1>b. Row(r) = CASE found -> members[Target(r)] [] given -> "granted" [] OTHER -> "none"
  BY DEF Row, GrantRow
<1>c. /\ found => Row(r) = members[Target(r)]
      /\ given => Row(r) = "granted"
      /\ ~found /\ ~given => Row(r) = "none"
  <2> HIDE DEF found, given
  <2>1. QED BY <1>a, <1>b
<1>3. /\ cmd[r].op \in MemberOps \cup {"scope"} /\ Row(r) # "none" =>
           Target(r) \in DOMAIN members /\ Row(r) = members[Target(r)]
      /\ cmd[r].op \in MemberOps \cup {"scope"} /\ Target(r) \in DOMAIN members =>
              Row(r) = members[Target(r)]
      /\ cmd[r].op \in GrantOps /\ Row(r) # "none" => grants[GrantRow(r)] = "granted"
      /\ \/ Row(r) = "none" \/ Row(r) = "granted"
         \/ Target(r) \in DOMAIN members /\ Row(r) = members[Target(r)]
  BY <1>c DEF MemberOps, GrantOps
<1>4. Row(r) \in Statuses \cup Grant
  BY <1>3 DEF Inv, TypeOK, Grant
<1>5. QED BY <1>1, <1>2, <1>3, <1>4

LEMMA LoadRowStep ==
  ASSUME Inv, NEW r \in Requests, LoadRow(r)
  PROVE  Inv'
<1>1. PICK next \in {"commit", "write"} :
        /\ pc' = [pc EXCEPT ![r] = next]
        /\ next = "commit" => Touches(r) = {}
        /\ next = "write" => Touches(r) # {}
  BY DEF LoadRow, Goto
<1>2. /\ pc[r] = "load" /\ ~Refuses(r) /\ UNCHANGED <<db, cmd>>
      /\ copy' = [copy EXCEPT ![r] = Row(r)] /\ read' = [read EXCEPT ![r] = Len(past)]
      /\ began' = began /\ view' = view /\ code' = code /\ held' = held
      /\ past' = past /\ members' = members /\ grants' = grants /\ cmd' = cmd
  BY DEF LoadRow, db
<1>3. /\ pc'[r] = next /\ copy'[r] = Row(r) /\ read'[r] = Len(past)
      /\ next \in InFlight /\ pc[r] \in InFlight /\ pc'[r] # "done"
  BY <1>1, <1>2 DEF Inv, TypeOK, InFlight
<1>4. Others(r)
  BY <1>1, <1>2 DEF Others, Inv, TypeOK
<1>5. TypeOK' /\ Exclusive'
  <2>1. copy' \in [Requests -> Statuses \cup Grant] /\ read' \in [Requests -> Nat]
    BY <1>2, RowFacts, PastTypes DEF Inv, TypeOK
  <2>2. /\ pc' \in [Requests -> InFlight \cup Finished]
        /\ \A q \in Requests : pc'[q] \in Finished => held'[q] = {}
    BY <1>1, <1>2, <1>3 DEF Inv, TypeOK, InFlight, Finished
  <2>3. /\ sessions' = sessions /\ permissions' = permissions /\ roles' = roles
        /\ assigned' = assigned /\ scopes' = scopes /\ keys' = keys /\ foreign' = foreign /\ announced' = announced
    BY <1>2 DEF db
  <2>4. QED BY <1>2, <2>1, <2>2, <2>3 DEF Inv, TypeOK, Exclusive
<1>6. Own(r)
  BY DEF Inv
<1>a. /\ Actor(r)' = Actor(r) /\ Target(r)' = Target(r)
      /\ KeyOf(r)' = KeyOf(r) /\ GrantRow(r)' = GrantRow(r)
  BY <1>2 DEF Actor, Target, KeyOf, GrantRow
<1>7. RouteOf(r)' /\ CreatingOf(r)'
  BY <1>1, <1>2, <1>3, <1>6 DEF Own, RouteOf, CreatingOf, db
<1>8. DatedOf(r)'
  <2>1. DatedOf(r) /\ cmd[r].op # "work"
    BY <1>2, <1>6 DEF Own, RouteOf
  <2>2. /\ Since(r)' = Since(r)
        /\ \A i : /\ SignedIn(r, i)' <=> SignedIn(r, i)
                  /\ Admitted(r, i)' <=> Admitted(r, i)
                  /\ Scoped(r, i)' <=> Scoped(r, i)
                  /\ May(r, i)' <=> May(r, i)
    BY <1>2, <1>a DEF Since, SignedIn, Admitted, Scoped, May
  <2>3. QED BY <1>1, <1>2, <1>3, <1>a, <2>1, <2>2 DEF DatedOf, Decided, Acting
<1>9. LoadedOf(r)'
  <2>1. /\ cmd[r].op = "activate" => Row(r) # "none" /\ Row(r) # "revoked"
        /\ cmd[r].op \in {"activate", "suspend", "revoke", "scope"} => Row(r) # "none"
    BY <1>2 DEF Refuses
  <2>2. cmd[r].op = "activate" => ~Had(Target(r), read[r], "revoked")'
    <3>1. past[Len(past)].members = members
      BY DEF Inv, Present
    <3>2. cmd[r].op = "activate" => members[Target(r)] # "revoked"
      BY <2>1, RowFacts DEF MemberOps
    <3>3. QED BY <1>2, <1>3, <1>a, <3>1, <3>2 DEF Had
  <2>3. cmd[r].op \in {"activate", "suspend", "revoke", "scope"} => Target(r) \in DOMAIN members
    BY <2>1, RowFacts DEF MemberOps
  <2>4. cmd[r].op = "invite" => copy'[r] = "none" \/ Target(r) \in DOMAIN members
    BY <1>3, RowFacts DEF MemberOps
  <2>5. cmd[r].op = "grant" /\ copy'[r] # "none" => grants[GrantRow(r)] # "none"
    BY <1>3, RowFacts DEF GrantOps
  <2>6. next = "commit" => cmd[r].op \notin {"assign", "attach"} /\ cmd[r].op \notin GrantOps
    BY <1>1, RowFacts
  <2>7. QED
    BY <1>2, <1>3, <1>a, <2>2, <2>3, <2>4, <2>5, <2>6, PastTypes DEF LoadedOf, Writing, GrantOps
<1>10. InvitingOf(r)'
  <2>1. InvitingOf(r)
    BY <1>6 DEF Own
  <2>2. \A i : FirstInvite(i, KeyOf(r))' <=> FirstInvite(i, KeyOf(r))
    BY <1>2 DEF FirstInvite, KeyOf, Target
  <2>3. next = "commit" => cmd[r].op # "invite"
    BY <1>1, RowFacts DEF MemberOps
  <2>4. foreign' = foreign /\ KeyOf(r)' = KeyOf(r)
    BY <1>2 DEF db, KeyOf
  <2>5. QED BY <2>4, <1>1, <1>2, <1>3, <1>a, <2>1, <2>2, <2>3 DEF InvitingOf, StoresKey
<1>11. QED BY <1>2, <1>3, <1>4, <1>5, <1>7, <1>8, <1>9, <1>10, Quiet DEF Own

\* A step that locks what it wants.
LEMMA LockStep ==
  ASSUME Inv, NEW r \in Requests, NEW at \in {"write", "claim", "permission"},
         NEW next \in InFlight,
         Lock(r, at, next), Own(r)'
  PROVE  Inv'
<1>1. /\ ~Waits(r) /\ pc[r] = at /\ held' = [held EXCEPT ![r] = @ \cup Wants(r)]
      /\ pc' = [pc EXCEPT ![r] = next] /\ UNCHANGED <<db, cmd>> /\ cmd' = cmd
      /\ began' = began /\ view' = view /\ copy' = copy /\ read' = read /\ code' = code
  BY DEF Lock, Goto, own
<1>2. Others(r) /\ pc'[r] # "done" /\ pc[r] \in InFlight /\ held'[r] = held[r] \cup Wants(r)
  BY <1>1 DEF Others, Inv, TypeOK, InFlight
<1>3. Wants(r) \in SUBSET Rows
  <2>1. /\ at = "write" => Wants(r) = Touches(r)
        /\ at = "claim" => Wants(r) = {<<"key", KeyOf(r)>>}
        /\ at = "permission" => Wants(r) = {PermissionCode(Permissions[code[r]])}
    BY <1>1 DEF Wants
  <2>2. at = "claim" => KeyOf(r) \in Businesses \X Keys
    BY <1>1, CommandTypes DEF KeyOf, Inv, Own, RouteOf
  <2>3. Permissions[code[r]] \in Codes
    BY DEF Inv, TypeOK, Codes
  <2>4. QED BY <2>1, <2>2, <2>3, RowFacts DEF Rows, PermissionCode
<1>4. TypeOK'
  <2>1. held' \in [Requests -> SUBSET Rows]
    BY <1>1, <1>3 DEF Inv, TypeOK
  <2>2. pc' \in [Requests -> InFlight \cup Finished] /\ pc'[r] \notin Finished
    BY <1>1 DEF Inv, TypeOK, InFlight, Finished
  <2>3. \A q \in Requests : pc'[q] \in Finished => held'[q] = {}
    BY <1>2, <2>2 DEF Inv, TypeOK, Others
  <2>4. /\ sessions' = sessions /\ permissions' = permissions /\ members' = members
        /\ roles' = roles /\ assigned' = assigned /\ scopes' = scopes /\ grants' = grants
        /\ keys' = keys /\ foreign' = foreign /\ announced' = announced
    BY <1>1 DEF db
  <2>5. QED BY <1>1, <2>1, <2>2, <2>3, <2>4 DEF Inv, TypeOK
<1>5. Exclusive'
  BY <1>1, <1>2 DEF Inv, Exclusive, Waits, Others
<1>6. QED BY <1>1, <1>2, <1>4, <1>5, Quiet

LEMMA LockFacts ==
  ASSUME Inv, NEW r \in Requests, NEW at, NEW next \in InFlight, Lock(r, at, next)
  PROVE  /\ pc[r] = at /\ pc'[r] = next /\ held'[r] = held[r] \cup Wants(r)
         /\ cmd' = cmd /\ past' = past /\ members' = members /\ permissions' = permissions
         /\ announced' = announced
         /\ roles' = roles /\ assigned' = assigned /\ grants' = grants /\ keys' = keys /\ foreign' = foreign
         /\ began' = began /\ view' = view /\ copy' = copy /\ read' = read
         /\ Since(r)' = Since(r) /\ Actor(r)' = Actor(r) /\ Target(r)' = Target(r)
         /\ KeyOf(r)' = KeyOf(r) /\ GrantRow(r)' = GrantRow(r)
         /\ StoresKey(r)' = StoresKey(r)
         /\ \A i : /\ SignedIn(r, i)' <=> SignedIn(r, i)
                   /\ Admitted(r, i)' <=> Admitted(r, i)
                   /\ Scoped(r, i)' <=> Scoped(r, i)
                   /\ May(r, i)' <=> May(r, i)
                   /\ Had(Target(r), i, "revoked")' <=> Had(Target(r), i, "revoked")
                   /\ FirstInvite(i, KeyOf(r))' <=> FirstInvite(i, KeyOf(r))
<1>1. /\ pc[r] = at /\ pc'[r] = next /\ held'[r] = held[r] \cup Wants(r)
      /\ cmd' = cmd /\ past' = past /\ members' = members /\ permissions' = permissions
      /\ announced' = announced
      /\ roles' = roles /\ assigned' = assigned /\ grants' = grants /\ keys' = keys /\ foreign' = foreign
      /\ began' = began /\ view' = view /\ copy' = copy /\ read' = read
  BY DEF Lock, Goto, db, own, Inv, TypeOK
<1>2. QED
  BY <1>1 DEF Since, SignedIn, Admitted, Scoped, May, Had, Actor, FirstInvite, KeyOf, Target,
              GrantRow, StoresKey

LEMMA WriteRowStep ==
  ASSUME Inv, NEW r \in Requests, WriteRow(r)
  PROVE  Inv'
<1> DEFINE next == IF StoresKey(r) THEN "recheck" ELSE "commit"
<1>0. /\ next \in InFlight /\ next \in {"recheck", "commit"}
      /\ "write" \in {"write", "claim", "permission"}
  BY DEF InFlight
<1>1. Lock(r, "write", next) /\ ~Breaks(r) /\ (next = "recheck" <=> StoresKey(r))
  BY DEF WriteRow
<1> HIDE DEF next
<1>2. Own(r)
  BY DEF Inv
<1>a. /\ pc[r] = "write" /\ pc'[r] = next /\ cmd' = cmd
      /\ held'[r] = held[r] \cup Touches(r) /\ cmd[r].op \notin {"work", "create"}
  <2>1. pc[r] = "write" /\ pc'[r] = next /\ cmd' = cmd /\ held'[r] = held[r] \cup Wants(r)
    BY <1>0, <1>1, LockFacts
  <2>2. Wants(r) = Touches(r)
    BY <2>1 DEF Wants
  <2>3. QED BY <1>2, <2>1, <2>2 DEF Own, RouteOf
<1>3. RouteOf(r)' /\ CreatingOf(r)'
  BY <1>0, <1>1, <1>a DEF RouteOf, CreatingOf, StoresKey
<1>4. LoadedOf(r)'
  <2>1. LoadedOf(r)
    BY <1>2 DEF Own
  <2>2. /\ cmd[r].op = "assign" => Target(r) \in DOMAIN members /\ cmd[r].role \in DOMAIN roles
        /\ cmd[r].op = "attach" => cmd[r].role \in DOMAIN roles
        /\ cmd[r].op = "grant" /\ copy[r] = "none" => grants[GrantRow(r)] = "none"
    BY <1>1 DEF Breaks, GrantRow
  <2>3. cmd[r].op \in GrantOps => <<"grant", GrantRow(r)>> \in held'[r]
    BY <1>a, RowFacts
  <2>4. QED BY <1>0, <1>1, <1>a, <2>1, <2>2, <2>3, LockFacts DEF LoadedOf, Writing
<1>5. InvitingOf(r)'
  <2>1. InvitingOf(r)
    BY <1>2 DEF Own
  <2>2. QED BY <1>0, <1>1, <1>a, <2>1, LockFacts DEF InvitingOf
<1>6. DatedOf(r)'
  <2>1. DatedOf(r)
    BY <1>2 DEF Own
  <2>2. QED BY <1>0, <1>1, <1>a, <2>1, LockFacts DEF DatedOf, Decided, Acting
<1>7. QED BY <1>0, <1>1, <1>3, <1>4, <1>5, <1>6, LockStep DEF Own

LEMMA ClaimKeyStep ==
  ASSUME Inv, NEW r \in Requests, ClaimKey(r)
  PROVE  Inv'
<1>0. "commit" \in InFlight /\ "claim" \in {"write", "claim", "permission"}
  BY DEF InFlight
<1>1. Lock(r, "claim", "commit")
  BY DEF ClaimKey
<1>2. Own(r)
  BY DEF Inv
<1>a. /\ pc[r] = "claim" /\ pc'[r] = "commit" /\ cmd' = cmd
      /\ held'[r] = held[r] \cup {<<"key", KeyOf(r)>>} /\ cmd[r].op = "invite"
  <2>1. pc[r] = "claim" /\ pc'[r] = "commit" /\ cmd' = cmd /\ held'[r] = held[r] \cup Wants(r)
    BY <1>0, <1>1, LockFacts
  <2>2. Wants(r) = {<<"key", KeyOf(r)>>}
    BY <2>1 DEF Wants
  <2>3. QED BY <1>2, <2>1, <2>2 DEF Own, RouteOf
<1>3. RouteOf(r)' /\ CreatingOf(r)'
  BY <1>a DEF RouteOf, CreatingOf
<1>4. LoadedOf(r)'
  <2>1. LoadedOf(r)
    BY <1>2 DEF Own
  <2>4. QED BY <1>0, <1>1, <1>a, <2>1, LockFacts DEF LoadedOf, Writing, GrantOps
<1>5. InvitingOf(r)'
  <2>1. InvitingOf(r)
    BY <1>2 DEF Own
  <2>2. QED BY <1>0, <1>1, <1>a, <2>1, LockFacts DEF InvitingOf
<1>6. DatedOf(r)'
  <2>1. DatedOf(r)
    BY <1>2 DEF Own
  <2>2. QED BY <1>0, <1>1, <1>a, <2>1, LockFacts DEF DatedOf, Decided, Acting
<1>7. QED BY <1>0, <1>1, <1>3, <1>4, <1>5, <1>6, LockStep DEF Own

LEMMA SeedPermissionStep ==
  ASSUME Inv, NEW r \in Requests, SeedPermission(r)
  PROVE  Inv'
<1>0. "seed" \in InFlight /\ "permission" \in {"write", "claim", "permission"}
  BY DEF InFlight
<1>1. Lock(r, "permission", "seed")
  BY DEF SeedPermission
<1>2. Own(r)
  BY DEF Inv
<1>a. pc[r] = "permission" /\ pc'[r] = "seed" /\ cmd' = cmd /\ cmd[r].op = "create"
  BY <1>0, <1>1, <1>2, LockFacts DEF Own, RouteOf
<1>3. RouteOf(r)' /\ InvitingOf(r)'
  BY <1>a DEF RouteOf, InvitingOf
<1>4. CreatingOf(r)'
  <2>1. CreatingOf(r)
    BY <1>2 DEF Own
  <2>2. QED BY <1>0, <1>1, <1>a, <2>1, LockFacts DEF CreatingOf
<1>5. LoadedOf(r)' /\ DatedOf(r)'
  BY <1>0, <1>1, <1>2, <1>a, LockFacts DEF Own, LoadedOf, DatedOf, Writing, Decided, Acting, Gated
<1>7. QED BY <1>0, <1>1, <1>3, <1>4, <1>5, LockStep DEF Own

LEMMA FindAbsentStep ==
  ASSUME Inv, NEW r \in Requests, FindAbsent(r)
  PROVE  Inv'
<1>1. PICK i \in Positions : IsNext(r, i) /\ code' = [code EXCEPT ![r] = i]
  BY DEF FindAbsent
<1>2. /\ pc[r] = "seed" /\ pc' = [pc EXCEPT ![r] = "permission"] /\ UNCHANGED <<db, cmd>>
      /\ began' = began /\ view' = view /\ copy' = copy /\ read' = read /\ held' = held
      /\ sessions' = sessions /\ permissions' = permissions /\ members' = members
      /\ roles' = roles /\ assigned' = assigned /\ scopes' = scopes /\ grants' = grants
      /\ keys' = keys /\ foreign' = foreign /\ announced' = announced /\ past' = past /\ cmd' = cmd
  BY DEF FindAbsent, Goto, db
<1>3. pc'[r] = "permission" /\ pc[r] \in InFlight /\ pc'[r] # "done"
  BY <1>2 DEF Inv, TypeOK, InFlight
<1>4. Others(r)
  BY <1>1, <1>2 DEF Others, Inv, TypeOK
<1>5. TypeOK' /\ Exclusive'
  <2>1. code' \in [Requests -> Positions]
    BY <1>1 DEF Inv, TypeOK
  <2>2. /\ pc' \in [Requests -> InFlight \cup Finished]
        /\ \A q \in Requests : pc'[q] \in Finished => held'[q] = {}
    BY <1>2, <1>3 DEF Inv, TypeOK, InFlight, Finished
  <2>3. QED BY <1>2, <2>1, <2>2 DEF Inv, TypeOK, Exclusive
<1>6. Own(r)
  BY DEF Inv
<1>7. Own(r)'
  <2>1. cmd[r].op = "create"
    BY <1>2, <1>6 DEF Own, RouteOf
  <2>2. RouteOf(r)' /\ InvitingOf(r)'
    BY <1>2, <1>3, <2>1 DEF RouteOf, InvitingOf
  <2>3. CreatingOf(r)'
    <3>1. CreatingOf(r)
      BY <1>6 DEF Own
    <3>2. ~Seeded(r)'
      BY <1>1, <1>2 DEF Seeded, IsNext, Absent, Inv, TypeOK
    <3>3. QED BY <1>2, <1>3, <3>1, <3>2 DEF CreatingOf
  <2>4. LoadedOf(r)' /\ DatedOf(r)'
    BY <1>2, <1>3, <1>6, <2>1 DEF Own, LoadedOf, DatedOf, Writing, Decided, Acting, Gated
  <2>5. QED BY <2>2, <2>3, <2>4 DEF Own
<1>8. QED BY <1>2, <1>3, <1>4, <1>5, <1>7, Quiet

LEMMA ReadPermissionsStep ==
  ASSUME Inv, NEW r \in Requests, ReadPermissions(r)
  PROVE  Inv'
<1>2. /\ pc[r] = "owner" /\ pc' = [pc EXCEPT ![r] = "appoint"] /\ UNCHANGED <<db, cmd>>
      /\ view' = [view EXCEPT ![r] = permissions]
      /\ began' = began /\ code' = code /\ copy' = copy /\ read' = read /\ held' = held
      /\ sessions' = sessions /\ permissions' = permissions /\ members' = members
      /\ roles' = roles /\ assigned' = assigned /\ scopes' = scopes /\ grants' = grants
      /\ keys' = keys /\ foreign' = foreign /\ announced' = announced /\ past' = past /\ cmd' = cmd
  BY DEF ReadPermissions, Goto, db
<1>3. pc'[r] = "appoint" /\ view'[r] = permissions /\ pc[r] \in InFlight /\ pc'[r] # "done"
  BY <1>2 DEF Inv, TypeOK, InFlight
<1>4. Others(r)
  BY <1>2 DEF Others, Inv, TypeOK
<1>5. TypeOK' /\ Exclusive'
  <2>1. view' \in [Requests -> SUBSET (Roles \cup Codes)]
    BY <1>2 DEF Inv, TypeOK
  <2>2. /\ pc' \in [Requests -> InFlight \cup Finished]
        /\ \A q \in Requests : pc'[q] \in Finished => held'[q] = {}
    BY <1>2, <1>3 DEF Inv, TypeOK, InFlight, Finished
  <2>3. QED BY <1>2, <2>1, <2>2 DEF Inv, TypeOK, Exclusive
<1>6. Own(r)
  BY DEF Inv
<1>7. Own(r)'
  <2>1. cmd[r].op = "create"
    BY <1>2, <1>6 DEF Own, RouteOf
  <2>2. RouteOf(r)' /\ InvitingOf(r)'
    BY <1>2, <1>3, <1>6, <2>1 DEF Own, RouteOf, InvitingOf
  <2>3. CreatingOf(r)'
    <3>1. CreatingOf(r) /\ cmd[r].by \in Users
      BY <1>6, CommandTypes DEF Own
    <3>2. QED BY <1>2, <1>3, <3>1 DEF CreatingOf
  <2>4. LoadedOf(r)' /\ DatedOf(r)'
    BY <1>2, <1>3, <1>6, <2>1 DEF Own, LoadedOf, DatedOf, Writing, Decided, Acting, Gated
  <2>5. QED BY <2>2, <2>3, <2>4 DEF Own
<1>8. QED BY <1>2, <1>3, <1>4, <1>5, <1>7, Quiet

\* Every refusal, clash and crash.
LEMMA EndSteps ==
  ASSUME Inv, NEW r \in Requests,
         \/ RejectUser(r) \/ RejectMember(r) \/ RejectScope(r) \/ RejectPermission(r)
         \/ RejectCapability(r) \/ Replay(r) \/ RejectRow(r) \/ LeaveRow(r) \/ WriteClash(r)
         \/ ClaimClash(r) \/ SeedClash(r) \/ Crash(r)
  PROVE  Inv'
<1>1. Own(r)
  BY DEF Inv
<1>2. \/ \E at \in InFlight : End(r, at, "gone")
      \/ \E at \in {"write", "claim"} : End(r, at, "clashed")
      \/ End(r, "permission", "clashed") /\ Seeded(r)
  BY DEF RejectUser, RejectMember, RejectScope, RejectPermission, RejectCapability, Replay,
         RejectRow, LeaveRow, WriteClash, ClaimClash, SeedClash, Crash, InFlight
<1>3. CASE \E at \in InFlight : End(r, at, "gone")
  BY <1>3, EndStep
<1>4. CASE \E at \in {"write", "claim"} : End(r, at, "clashed")
  <2>1. PICK at \in {"write", "claim"} : End(r, at, "clashed")
    BY <1>4
  <2>2. at \in InFlight /\ pc[r] = at
    BY <2>1 DEF End, InFlight
  <2>3. cmd[r].op # "create"
    BY <1>1, <2>2 DEF Own, RouteOf
  <2>4. QED BY <2>1, <2>2, <2>3, EndStep
<1>5. CASE End(r, "permission", "clashed") /\ Seeded(r)
  <2>1. "permission" \in InFlight /\ pc[r] = "permission"
    BY <1>5 DEF End, InFlight
  <2>2. permissions = Codes
    <3>1. cmd[r].op = "create" /\ CreatingOf(r)
      BY <1>1, <2>1 DEF Own, RouteOf
    <3>2. QED BY <1>5, <2>1, <3>1 DEF CreatingOf
  <2>3. QED BY <1>5, <2>1, <2>2, EndStep
<1>6. QED BY <1>2, <1>3, <1>4, <1>5

-----------------------------------------------------------------------------
(* Steps that commit *)

LEMMA Saving ==
  ASSUME Inv, NEW r \in Requests, past' = Append(past, Moment(r)')
  PROVE  /\ Len(past) \in Nat /\ Len(past) >= 1 /\ Len(past') = Len(past) + 1
         /\ \A i \in 1..Len(past) : past'[i] = past[i]
         /\ past'[Len(past) + 1].by = r /\ past'[Len(past) + 1].members = members'
         /\ Present'
<1>1. PICK S : past \in Seq(S)
  BY DEF Inv, Present
<1> DEFINE now == Moment(r)'
           T == S \cup {now}
<1>2. past \in Seq(T) /\ now \in T
  BY <1>1
<1>3. past' = Append(past, now)
  OBVIOUS
<1>4. /\ now.by = r /\ now.sessions = sessions' /\ now.members = members' /\ now.scopes = scopes'
      /\ now.grants = grants' /\ now.codes = [m \in DOMAIN members' |-> Holds(m)']
  BY DEF Moment
<1> HIDE DEF now, T
<1>5. /\ Len(past) \in Nat /\ past' \in Seq(T) /\ Len(past') = Len(past) + 1
      /\ past'[Len(past) + 1] = now
      /\ \A i \in 1..Len(past) : past'[i] = past[i]
  BY <1>2, <1>3
<1>6. Present'
  BY <1>4, <1>5 DEF Present
<1>7. QED BY <1>4, <1>5, <1>6, PastTypes

LEMMA DatabaseStep ==
  ASSUME Inv, NEW r \in Requests, past' = Append(past, Moment(r)'),
         Grows, Others(r), \A b \in Requests \ {r} : Fence(b), Own(r)',
         TypeOK', Exclusive', GrantsInv',
         began' = began, read' = read,
         cmd[r].op = "create" \/ pc'[r] = "done",
         cmd[r].op = "invite" /\ cmd[r].key # NoKey =>
           /\ Target(r) \notin DOMAIN members => KeyOf(r) \in keys'
           /\ \A i \in 2..Len(past) : FirstInvite(i, KeyOf(r)) => began[r] < i \/ KeyOf(r) \in foreign,
         \A m \in DOMAIN members :
           members[m] = "revoked" /\ members'[m] = "active" =>
             /\ cmd[r].op = "activate"
             /\ \E k \in 1..Len(past) : read[r] <= k /\ ~Had(m, k, "revoked")
  PROVE  Inv'
<1>1. /\ Len(past) \in Nat /\ Len(past) >= 1 /\ Len(past') = Len(past) + 1
      /\ \A i \in 1..Len(past) : past'[i] = past[i]
      /\ past'[Len(past) + 1].by = r /\ past'[Len(past) + 1].members = members'
      /\ Present' /\ cmd' = cmd
  BY Saving DEF Grows
<1>2. past[Len(past)].members = members
  BY DEF Inv, Present
<1>3. \A b \in Requests : Own(b)'
  BY OthersKept
<1>4. Committed'
  <2>1. SUFFICES ASSUME NEW i \in 2..Len(past')
                 PROVE  /\ past'[i].by \in Requests
                        /\ (cmd[past'[i].by].op = "create" \/ pc'[past'[i].by] = "done")
    BY <1>1 DEF Committed
  <2>2. CASE i = Len(past) + 1
    BY <1>1, <2>2
  <2>3. CASE i \in 2..Len(past)
    <3>1. /\ past'[i] = past[i] /\ past[i].by \in Requests
          /\ (cmd[past[i].by].op = "create" \/ pc[past[i].by] = "done")
      BY <1>1, <2>3 DEF Inv, Committed
    <3>2. QED BY <3>1 DEF Others
  <2>4. QED BY <1>1, <2>2, <2>3
<1>5. KeyStored'
  <2>1. SUFFICES ASSUME NEW i \in 2..Len(past'), NEW k, FirstInvite(i, k)'
                 PROVE  k \in keys'
    BY DEF KeyStored
  <2>2. CASE i = Len(past) + 1
    <3>0. past'[i].by = r /\ i - 1 = Len(past) /\ past'[i - 1].members = members /\ cmd' = cmd
      BY <1>1, <1>2, <2>2
    <3>1. /\ cmd[r].op = "invite" /\ cmd[r].key # NoKey /\ KeyOf(r) = k
          /\ Target(r) \notin DOMAIN members
      BY <2>1, <3>0 DEF FirstInvite, KeyOf, Target
    <3>2. QED BY <3>1
  <2>3. CASE i \in 2..Len(past)
    BY <2>1, <2>3, FirstInviteStays DEF Inv, KeyStored, Grows
  <2>4. QED BY <1>1, <2>2, <2>3
<1>6. RevokedStaysOut'
  <2>1. SUFFICES ASSUME NEW i \in 1..Len(past), NEW m \in Members,
                        Had(m, i, "revoked")', Had(m, i + 1, "active")'
                 PROVE  /\ cmd[past'[i + 1].by].op = "activate"
                        /\ \E k \in read[past'[i + 1].by]..i : ~Had(m, k, "revoked")'
    BY <1>1 DEF RevokedStaysOut
  <2>2. read \in [Requests -> Nat]
    BY DEF Inv, TypeOK
  <2>3. \A k \in 1..Len(past) : Had(m, k, "revoked")' <=> Had(m, k, "revoked")
    BY <1>1 DEF Had
  <2>4. CASE i = Len(past)
    <3>1. m \in DOMAIN members /\ members[m] = "revoked" /\ members'[m] = "active"
      BY <1>1, <1>2, <2>1, <2>4 DEF Had
    <3>2. /\ cmd[r].op = "activate"
          /\ \E k \in 1..Len(past) : read[r] <= k /\ ~Had(m, k, "revoked")
      BY <3>1
    <3>3. \E k \in read[r]..Len(past) : ~Had(m, k, "revoked")'
      BY <1>1, <2>2, <2>3, <3>2
    <3>4. QED BY <1>1, <2>4, <3>2, <3>3
  <2>5. CASE i < Len(past)
    <3>1. Had(m, i, "revoked") /\ Had(m, i + 1, "active") /\ past'[i + 1] = past[i + 1]
          /\ i \in 1..(Len(past) - 1)
      BY <1>1, <2>1, <2>5 DEF Had
    <3>2. cmd[past[i + 1].by].op = "activate"
      BY <3>1 DEF Inv, RevokedStaysOut
    <3>3. past[i + 1].by \in Requests /\ pc[past[i + 1].by] = "done"
      BY <1>1, <3>1, <3>2 DEF Inv, Committed
    <3>4. read[past[i + 1].by] >= 1
      BY <3>2, <3>3 DEF Inv, Own, LoadedOf
    <3>5. PICK k \in read[past[i + 1].by]..i : ~Had(m, k, "revoked")
      BY <3>1 DEF Inv, RevokedStaysOut
    <3>6. read[past[i + 1].by] \in Nat
      BY <2>2, <3>3
    <3>7. k \in 1..Len(past)
      BY <1>1, <3>4, <3>5, <3>6
    <3>8. QED BY <2>3, <3>1, <3>2, <3>5, <3>7
  <2>6. QED BY <1>1, <2>4, <2>5
<1>7. RepeatedInviteIsOne'
  <2>1. SUFFICES ASSUME NEW i \in 2..Len(past'), NEW j \in 2..Len(past'), i < j,
                        cmd[past'[i].by].op = "invite", cmd[past'[j].by].op = "invite",
                        cmd[past'[i].by].key # NoKey, KeyOf(past'[i].by) = KeyOf(past'[j].by),
                        Target(past'[i].by) \notin DOMAIN past'[i - 1].members
                 PROVE  began[past'[j].by] < i \/ KeyOf(past'[i].by) \in foreign'
    BY <1>1 DEF RepeatedInviteIsOne, KeyOf, Target
  <2>2. past'[i] = past[i] /\ past'[i - 1] = past[i - 1] /\ i \in 2..Len(past)
    BY <1>1, <2>1
  <2>3. CASE j = Len(past) + 1
    <3>1. FirstInvite(i, KeyOf(r)) /\ cmd[r].key # NoKey
      BY <1>1, <2>1, <2>2, <2>3 DEF FirstInvite, KeyOf, Target
    <3>2. began[r] < i \/ KeyOf(r) \in foreign
      BY <1>1, <2>1, <2>2, <2>3, <3>1
    <3>3. past'[j].by = r /\ KeyOf(past'[i].by) = KeyOf(r)
      BY <1>1, <2>1, <2>3
    <3>4. QED BY <1>1, <3>2, <3>3 DEF Grows
  <2>4. CASE j \in 2..Len(past)
    <3>1. past'[j] = past[j]
      BY <1>1, <2>4
    <3>2. began[past[j].by] < i \/ KeyOf(past[i].by) \in foreign
      BY <2>1, <2>2, <2>4, <3>1 DEF Inv, RepeatedInviteIsOne
    <3>3. QED BY <1>1, <2>2, <3>1, <3>2 DEF Grows
  <2>5. QED BY <1>1, <2>3, <2>4
<1>8. QED BY <1>1, <1>3, <1>4, <1>5, <1>6, <1>7 DEF Inv

\* What one commit makes of the memberships, the roles and the grants.
LEMMA MembersAfterFacts ==
  ASSUME Inv, NEW r \in Requests
  PROVE  /\ DOMAIN MembersAfter(r) \subseteq Members
         /\ DOMAIN members \subseteq DOMAIN MembersAfter(r)
         /\ \A m \in DOMAIN MembersAfter(r) : MembersAfter(r)[m] \in Statuses
         /\ \A m \in DOMAIN MembersAfter(r) :
              m \in DOMAIN members \/ (m = Target(r) /\ cmd[r].op \in MemberOps)
         /\ \A m \in DOMAIN members : MembersAfter(r)[m] # members[m] =>
              m = Target(r) /\ (MembersAfter(r)[m] = "active" => cmd[r].op = "activate")
<1>1. cmd[r].op \in MemberOps =>
        Status(cmd[r].op) \in Statuses /\ (Status(cmd[r].op) = "active" => cmd[r].op = "activate")
  BY DEF Status, MemberOps, Statuses
<1>2. DOMAIN members \subseteq Members /\ \A m \in DOMAIN members : members[m] \in Statuses
  BY DEF Inv, TypeOK
<1>3. QED BY <1>1, <1>2, CommandTypes DEF MembersAfter

LEMMA RolesAfterFacts ==
  ASSUME Inv, NEW r \in Requests, cmd[r].op = "attach" => cmd[r].role \in DOMAIN roles
  PROVE  /\ DOMAIN RolesAfter(r) \subseteq Roles /\ DOMAIN roles \subseteq DOMAIN RolesAfter(r)
         /\ \A x \in DOMAIN RolesAfter(r) : RolesAfter(r)[x] \in Role
         /\ \A x \in DOMAIN RolesAfter(r) : x \in DOMAIN roles \/ x = r
         /\ \A x \in DOMAIN roles : roles[x].codes = Codes =>
              x = r \/ RolesAfter(r)[x].codes = Codes
<1>0. DOMAIN roles \subseteq Roles /\ \A x \in DOMAIN roles : roles[x] \in Role
  BY DEF Inv, TypeOK
<1>1. CASE cmd[r].op = "role"
  <2>1. RolesAfter(r) = [x \in DOMAIN roles \cup {r} |->
                           IF x = r THEN [of |-> cmd[r].shop, codes |-> {}] ELSE roles[x]]
    BY <1>1 DEF RolesAfter
  <2>2. [of |-> cmd[r].shop, codes |-> {}] \in Role
    BY CommandTypes DEF Role
  <2>3. QED BY <1>0, <2>1, <2>2 DEF Roles
<1>2. CASE cmd[r].op = "attach"
  <2>1. RolesAfter(r) = [roles EXCEPT ![cmd[r].role].codes = @ \cup {cmd[r].code}]
    BY <1>2 DEF RolesAfter
  <2>2. PICK R : R = [roles[cmd[r].role] EXCEPT !.codes = @ \cup {cmd[r].code}]
    OBVIOUS
  <2>3. RolesAfter(r) = [roles EXCEPT ![cmd[r].role] = R]
    BY <2>1, <2>2
  <2>4. roles[cmd[r].role] \in Role
    BY <1>0, <1>2
  <2>5. R \in Role /\ R.codes = roles[cmd[r].role].codes \cup {cmd[r].code}
    BY <2>2, <2>4, CommandTypes DEF Role
  <2>6. roles[cmd[r].role].codes = Codes => R.codes = Codes
    BY <2>5, CommandTypes
  <2>7. QED BY <1>0, <2>3, <2>5, <2>6
<1>3. CASE cmd[r].op \notin {"role", "attach"}
  BY <1>0, <1>3 DEF RolesAfter
<1>4. QED BY <1>1, <1>2, <1>3

LEMMA GrantsAfterFacts ==
  ASSUME Inv, NEW r \in Requests, pc[r] = "commit"
  PROVE  /\ GrantsAfter(r) \in [Businesses \X Capabilities -> Grant]
         /\ \A g \in Businesses \X Capabilities :
              /\ cmd[r].op \notin GrantOps \/ g # GrantRow(r) => GrantsAfter(r)[g] = grants[g]
              /\ cmd[r].op = "ungrant" /\ g = GrantRow(r) => GrantsAfter(r)[g] = "deleted"
              /\ cmd[r].op = "grant" /\ g = GrantRow(r) /\ grants[g] = "none" =>
                   GrantsAfter(r)[g] = "granted"
              /\ cmd[r].op = "grant" /\ g = GrantRow(r) /\ grants[g] # "none" =>
                   GrantsAfter(r)[g] = grants[g]
<1>1. grants \in [Businesses \X Capabilities -> Grant]
  BY DEF Inv, TypeOK
<1>2. cmd[r].op = "grant" /\ cmd[r].capability \in Capabilities =>
        (copy[r] = "none" <=> grants[GrantRow(r)] = "none")
  BY DEF Inv, Own, LoadedOf, Writing
<1>3. /\ cmd[r].op \notin GrantOps => GrantsAfter(r) = grants
      /\ cmd[r].op = "ungrant" => GrantsAfter(r) = [grants EXCEPT ![GrantRow(r)] = "deleted"]
      /\ cmd[r].op = "grant" /\ copy[r] = "none" =>
           GrantsAfter(r) = [grants EXCEPT ![GrantRow(r)] = "granted"]
      /\ cmd[r].op = "grant" /\ copy[r] # "none" =>
           GrantsAfter(r) = [grants EXCEPT ![GrantRow(r)] = @]
  BY DEF GrantsAfter, Granting, GrantRow, GrantOps
<1>4. \A g \in Businesses \X Capabilities : g = GrantRow(r) => cmd[r].capability \in Capabilities
  BY DEF GrantRow
<1>5. CASE cmd[r].op \notin GrantOps
  BY <1>1, <1>3, <1>5 DEF GrantOps
<1>6. CASE cmd[r].op = "ungrant"
  BY <1>1, <1>3, <1>6 DEF GrantOps, Grant
<1>7. CASE cmd[r].op = "grant" /\ copy[r] = "none"
  BY <1>1, <1>2, <1>3, <1>4, <1>7 DEF GrantOps, Grant
<1>8. CASE cmd[r].op = "grant" /\ copy[r] # "none"
  BY <1>1, <1>2, <1>3, <1>4, <1>8 DEF GrantOps, Grant
<1>9. QED BY <1>5, <1>6, <1>7, <1>8 DEF GrantOps

LEMMA CommitStep ==
  ASSUME Inv, NEW r \in Requests, Commit(r)
  PROVE  Inv'
<1>1. /\ pc[r] = "commit" /\ pc' = [pc EXCEPT ![r] = "done"]
      /\ members' = MembersAfter(r) /\ roles' = RolesAfter(r) /\ grants' = GrantsAfter(r)
      /\ assigned' = assigned \cup {l \in {Link(r)} : cmd[r].op = "assign"}
      /\ scopes' = scopes \cup {s \in {<<Target(r), cmd[r].branch>>} : cmd[r].op = "scope"}
      /\ keys' = keys \cup {k \in Businesses \X Keys : <<"key", k>> \in held[r]}
      /\ sessions' = sessions \ {u \in {cmd[r].by} : cmd[r].op = "logout"}
      /\ past' = Append(past, Moment(r)') /\ held' = [held EXCEPT ![r] = {}]
      /\ permissions' = permissions /\ announced' = announced /\ foreign' = foreign /\ cmd' = cmd
      /\ began' = began /\ view' = view /\ copy' = copy /\ read' = read /\ code' = code
  BY DEF Commit, Goto, Release, own
<1>2. Own(r) /\ RouteOf(r) /\ DatedOf(r) /\ LoadedOf(r) /\ InvitingOf(r)
  BY DEF Inv, Own
<1>3. pc'[r] = "done" /\ held'[r] = {} /\ cmd[r].op # "create"
  BY <1>1, <1>2 DEF Inv, TypeOK, RouteOf
<1>4. Others(r)
  BY <1>1 DEF Others, Inv, TypeOK
<1>5. /\ cmd[r].op \in {"activate", "suspend", "revoke", "scope", "assign"} =>
           Target(r) \in DOMAIN members
      /\ cmd[r].op \in {"assign", "attach"} => cmd[r].role \in DOMAIN roles
      /\ cmd[r].op = "invite" => copy[r] = "none" \/ Target(r) \in DOMAIN members
      /\ cmd[r].op \in GrantOps => <<"grant", GrantRow(r)>> \in held[r]
      /\ cmd[r].op = "activate" => read[r] >= 1 /\ ~Had(Target(r), read[r], "revoked")
      /\ read[r] <= Len(past)
  BY <1>1, <1>2 DEF LoadedOf, Writing
<1>6. /\ Len(past) \in Nat /\ Len(past) >= 1 /\ Len(past') = Len(past) + 1
      /\ \A i \in 1..Len(past) : past'[i] = past[i]
  BY <1>1, Saving
<1>7. TypeOK'
  <2>1. DOMAIN members' \subseteq Members /\ \A m \in DOMAIN members' : members'[m] \in Statuses
    BY <1>1, MembersAfterFacts
  <2>2. DOMAIN roles' \subseteq Roles /\ \A x \in DOMAIN roles' : roles'[x] \in Role
    BY <1>1, <1>5, RolesAfterFacts
  <2>3. DOMAIN members \subseteq DOMAIN members' /\ DOMAIN roles \subseteq DOMAIN roles'
    BY <1>1, <1>5, MembersAfterFacts, RolesAfterFacts
  <2>4. assigned' \subseteq (DOMAIN members') \X (DOMAIN roles')
    <3>1. assigned \subseteq (DOMAIN members) \X (DOMAIN roles)
      BY DEF Inv, TypeOK
    <3>2. cmd[r].op = "assign" => Link(r) \in (DOMAIN members) \X (DOMAIN roles)
      BY <1>5 DEF Link
    <3>3. QED BY <1>1, <2>3, <3>1, <3>2
  <2>5. scopes' \subseteq (DOMAIN members') \X (Branches \cup {NoBranch})
    <3>1. scopes \subseteq (DOMAIN members) \X (Branches \cup {NoBranch})
      BY DEF Inv, TypeOK
    <3>2. cmd[r].op = "scope" =>
            <<Target(r), cmd[r].branch>> \in (DOMAIN members) \X (Branches \cup {NoBranch})
      BY <1>5, CommandTypes
    <3>3. QED BY <1>1, <2>3, <3>1, <3>2
  <2>6. grants' \in [Businesses \X Capabilities -> Grant]
    BY <1>1, GrantsAfterFacts
  <2>7. pc' \in [Requests -> InFlight \cup Finished] /\ held' \in [Requests -> SUBSET Rows]
        /\ \A q \in Requests : pc'[q] \in Finished => held'[q] = {}
    BY <1>1, <1>3, <1>4 DEF Inv, TypeOK, Others, Finished
  <2>8. sessions' \subseteq Users /\ keys' \subseteq Businesses \X Keys
    BY <1>1 DEF Inv, TypeOK
  <2>9. QED BY <1>1, <2>1, <2>2, <2>4, <2>5, <2>6, <2>7, <2>8 DEF Inv, TypeOK
<1>8. Exclusive'
  BY <1>3, <1>4 DEF Inv, Exclusive, Others
<1>9. Grows
  <2>1. DOMAIN members \subseteq DOMAIN members' /\ DOMAIN roles \subseteq DOMAIN roles'
    BY <1>1, <1>5, MembersAfterFacts, RolesAfterFacts
  <2>2. \A g \in Businesses \X Capabilities : grants[g] # "none" => grants'[g] # "none"
    BY <1>1, GrantsAfterFacts DEF GrantOps
  <2>3. permissions \subseteq Codes
    BY DEF Inv, TypeOK
  <2>4. QED BY <1>1, <1>6, <2>1, <2>2, <2>3 DEF Grows
<1>10. \A b \in Requests \ {r} : Fence(b)
  <2>1. SUFFICES ASSUME NEW b \in Requests \ {r} PROVE Fence(b)
    OBVIOUS
  <2>2. <<"grant", GrantRow(b)>> \in held[b] /\ cmd[b].capability \in Capabilities =>
          grants'[GrantRow(b)] = grants[GrantRow(b)]
    <3>1. SUFFICES ASSUME <<"grant", GrantRow(b)>> \in held[b], cmd[b].capability \in Capabilities
                   PROVE grants'[GrantRow(b)] = grants[GrantRow(b)]
      OBVIOUS
    <3>2. GrantRow(b) \in Businesses \X Capabilities
      BY <3>1, CommandTypes DEF GrantRow
    <3>3. cmd[r].op \in GrantOps => GrantRow(b) # GrantRow(r)
      BY <1>5, <3>1 DEF Inv, Exclusive
    <3>4. QED BY <1>1, <3>2, <3>3, GrantsAfterFacts
  <2>3. ASSUME cmd[b].op = "create", \A v \in Users : <<b, v>> \notin DOMAIN members,
               NEW u \in Users, <<b, u>> \in DOMAIN members'
        PROVE  FALSE
    <3>1. <<b, u>> = Target(r) /\ cmd[r].op \in MemberOps
      BY <1>1, <2>3, MembersAfterFacts
    <3>3. cmd[r].shop = b /\ cmd[r].by \in Users
      BY <3>1, CommandTypes DEF Target
    <3>4. CASE cmd[r].op = "activate"
      BY <1>5, <2>3, <3>1, <3>4
    <3>5. CASE cmd[r].op \in {"invite", "suspend", "revoke"}
      <4>1. Actor(r) \in DOMAIN members
        BY <1>1, <1>2, <3>5 DEF DatedOf, Decided, Acting, Gated
      <4>2. QED BY <2>3, <3>3, <4>1 DEF Actor
    <3>6. QED BY <3>1, <3>4, <3>5 DEF MemberOps
  <2>4. b \in DOMAIN roles' => b \in DOMAIN roles /\ (roles[b].codes = Codes =>
          roles'[b].codes = Codes)
    BY <1>1, <1>5, RolesAfterFacts
  <2>5. cmd[b].op = "create" /\ pc[b] \in {"session", "seed", "permission", "clashed"} =>
          \A v \in Users : <<b, v>> \notin DOMAIN members
    BY DEF Inv, Own, CreatingOf
  <2>6. QED BY <2>2, <2>3, <2>4, <2>5 DEF Fence
<1>11. GrantsInv'
  <2>0. past'[1] = past[1]
    BY <1>6
  <2>1. SUFFICES ASSUME NEW b \in Businesses, NEW c \in Capabilities
                 PROVE  /\ grants'[b, c] = "deleted" <=>
                             past[1].grants[b, c] = "deleted" \/ Done("ungrant", b, c)'
                        /\ grants'[b, c] = "granted" =>
                             past[1].grants[b, c] = "granted" \/ Done("grant", b, c)'
                        /\ past[1].grants[b, c] # "none" \/ Done("grant", b, c)' =>
                             grants'[b, c] # "none"
    BY <2>0 DEF GrantsInv
  <2>2. \A op : Done(op, b, c)' <=>
          Done(op, b, c) \/ (cmd[r].op = op /\ GrantRow(r) = <<b, c>>)
    BY <1>1, <1>3, <1>4 DEF Done, Others, GrantRow
  <2>3. /\ grants[b, c] = "deleted" <=> past[1].grants[b, c] = "deleted" \/ Done("ungrant", b, c)
        /\ grants[b, c] = "granted" => past[1].grants[b, c] = "granted" \/ Done("grant", b, c)
        /\ past[1].grants[b, c] # "none" \/ Done("grant", b, c) => grants[b, c] # "none"
    BY DEF Inv, GrantsInv
  <2>4. grants[b, c] \in Grant /\ <<b, c>> \in Businesses \X Capabilities
    BY DEF Inv, TypeOK
  <2>5. /\ cmd[r].op \notin GrantOps \/ <<b, c>> # GrantRow(r) => grants'[b, c] = grants[b, c]
        /\ cmd[r].op = "ungrant" /\ <<b, c>> = GrantRow(r) => grants'[b, c] = "deleted"
        /\ cmd[r].op = "grant" /\ <<b, c>> = GrantRow(r) /\ grants[b, c] = "none" =>
             grants'[b, c] = "granted"
        /\ cmd[r].op = "grant" /\ <<b, c>> = GrantRow(r) /\ grants[b, c] # "none" =>
             grants'[b, c] = grants[b, c]
    BY <1>1, <2>4, GrantsAfterFacts
  <2>6. QED BY <2>2, <2>3, <2>4, <2>5 DEF GrantOps, Grant
<1>12. Own(r)'
  <2>1. RouteOf(r)' /\ InvitingOf(r)' /\ CreatingOf(r)'
    BY <1>1, <1>3 DEF RouteOf, InvitingOf, CreatingOf
  <2>2. began[r] \in Nat /\ read[r] \in Nat
    BY DEF Inv, TypeOK
  <2>3. DatedOf(r)'
    BY <1>1, <1>2, <1>3, <1>6, <2>2 DEF DatedOf, Decided, Acting
  <2>4. LoadedOf(r)'
    BY <1>1, <1>3, <1>5, <1>6, <2>2 DEF LoadedOf, Writing
  <2>5. QED BY <2>1, <2>3, <2>4 DEF Own
<1>13. cmd[r].op = "invite" /\ cmd[r].key # NoKey =>
           /\ Target(r) \notin DOMAIN members => KeyOf(r) \in keys'
           /\ \A i \in 2..Len(past) : FirstInvite(i, KeyOf(r)) => began[r] < i \/ KeyOf(r) \in foreign
  <2>1. SUFFICES ASSUME cmd[r].op = "invite", cmd[r].key # NoKey
                 PROVE  /\ Target(r) \notin DOMAIN members => KeyOf(r) \in keys'
                        /\ \A i \in 2..Len(past) : FirstInvite(i, KeyOf(r)) => began[r] < i \/ KeyOf(r) \in foreign
    OBVIOUS
  <2>2. KeyOf(r) \in Businesses \X Keys
    BY <2>1, CommandTypes DEF KeyOf
  <2>3. Target(r) \notin DOMAIN members => KeyOf(r) \in keys \/ <<"key", KeyOf(r)>> \in held[r]
    BY <1>1, <1>2, <1>5, <2>1 DEF InvitingOf, StoresKey
  <2>4. \A i \in 2..Len(past) : FirstInvite(i, KeyOf(r)) => began[r] < i \/ KeyOf(r) \in foreign
    BY <1>1, <1>2, <2>1 DEF InvitingOf
  <2>5. QED BY <1>1, <2>2, <2>3, <2>4
<1>14. \A m \in DOMAIN members :
           members[m] = "revoked" /\ members'[m] = "active" =>
             /\ cmd[r].op = "activate"
             /\ \E k \in 1..Len(past) : read[r] <= k /\ ~Had(m, k, "revoked")
  <2>1. SUFFICES ASSUME NEW m \in DOMAIN members, members[m] = "revoked", members'[m] = "active"
                 PROVE  /\ cmd[r].op = "activate"
                        /\ \E k \in 1..Len(past) : read[r] <= k /\ ~Had(m, k, "revoked")
    OBVIOUS
  <2>2. m = Target(r) /\ cmd[r].op = "activate"
    BY <1>1, <2>1, MembersAfterFacts
  <2>3. read[r] \in 1..Len(past) /\ read[r] <= read[r]
    BY <1>5, <1>6, <2>2 DEF Inv, TypeOK
  <2>4. QED BY <1>5, <2>2, <2>3
<1>15. QED
  BY <1>1, <1>3, <1>4, <1>7, <1>8, <1>9, <1>10, <1>11, <1>12, <1>13, <1>14, DatabaseStep

\* A creation's commit: nobody else's membership, role or grant changes.
LEMMA CreationStep ==
  ASSUME Inv, NEW r \in Requests, cmd[r].op = "create", past' = Append(past, Moment(r)'),
         pc[r] \in {"seed", "appoint", "announce"}, Others(r), cmd' = cmd, pc[r] # "done",
         sessions' = sessions, scopes' = scopes, grants' = grants, keys' = keys /\ foreign' = foreign,
         began' = began, read' = read, copy' = copy, code' = code,
         permissions' \in {permissions, Codes},
         announced \subseteq announced', assigned \subseteq assigned',
         DOMAIN members \subseteq DOMAIN members',
         \A m \in DOMAIN members : members'[m] = members[m],
         \A m \in DOMAIN members' : m \in DOMAIN members \/ m = <<r, cmd[r].by>>,
         DOMAIN roles \subseteq DOMAIN roles',
         \A x \in DOMAIN roles' : x = r \/ (x \in DOMAIN roles /\ roles'[x] = roles[x]),
         TypeOK', Exclusive', CreatingOf(r)',
         pc'[r] \in {"owner", "announce", "done"}, held'[r] = {}
  PROVE  Inv'
<1>1. /\ Len(past) \in Nat /\ Len(past) >= 1 /\ Len(past') = Len(past) + 1
      /\ \A i \in 1..Len(past) : past'[i] = past[i]
  BY Saving
<1>2. Grows
  BY <1>1 DEF Grows
<1>3. \A b \in Requests \ {r} : Fence(b)
  BY DEF Fence
<1>4. GrantsInv'
  <2>1. past'[1] = past[1]
    BY <1>1
  <2>2. \A b \in Businesses, c \in Capabilities :
          /\ Done("grant", b, c)' <=> Done("grant", b, c)
          /\ Done("ungrant", b, c)' <=> Done("ungrant", b, c)
    BY DEF Done, Others
  <2>3. QED BY <2>1, <2>2 DEF Inv, GrantsInv
<1>5. Own(r)'
  <2>1. began[r] \in Nat /\ read[r] \in Nat /\ began[r] <= Len(past) /\ read[r] <= Len(past)
    BY DEF Inv, TypeOK, Own, DatedOf, LoadedOf
  <2>2. RouteOf(r)' /\ InvitingOf(r)'
    BY DEF RouteOf, InvitingOf
  <2>3. DatedOf(r)' /\ LoadedOf(r)'
    BY <1>1, <2>1 DEF DatedOf, LoadedOf, Decided, Acting, Writing
  <2>4. QED BY <2>2, <2>3 DEF Own
<1>6. QED BY <1>1, <1>2, <1>3, <1>4, <1>5, DatabaseStep

LEMMA FoundStep ==
  ASSUME Inv, NEW r \in Requests, Found(r)
  PROVE  Inv'
<1> DEFINE m == <<r, cmd[r].by>>
<1>1. /\ pc[r] = "seed" /\ Absent(r) = {} /\ pc' = [pc EXCEPT ![r] = "owner"]
      /\ permissions' = permissions \cup {c \in Codes : PermissionCode(c) \in held[r]}
      /\ members' = [x \in DOMAIN members \cup {m} |-> IF x = m THEN "active" ELSE members[x]]
      /\ held' = [held EXCEPT ![r] = {}]
      /\ sessions' = sessions /\ roles' = roles /\ assigned' = assigned /\ scopes' = scopes
      /\ grants' = grants /\ announced' = announced /\ keys' = keys /\ foreign' = foreign /\ cmd' = cmd
      /\ began' = began /\ view' = view /\ copy' = copy /\ read' = read /\ code' = code
      /\ past' = Append(past, Moment(r)')
  BY DEF Found, Goto, Release, own
<1>2. Own(r) /\ cmd[r].op = "create"
  BY <1>1 DEF Inv, Own, RouteOf
<1>3. pc'[r] = "owner" /\ held'[r] = {} /\ Others(r)
  BY <1>1 DEF Others, Inv, TypeOK
<1>4. m \notin DOMAIN members /\ m \in Members
  BY <1>1, <1>2, CommandTypes DEF Own, CreatingOf, Members, Businesses
<1> HIDE DEF m
<1>5. permissions' = Codes
  <2>1. ASSUME NEW c \in Codes PROVE c \in permissions \/ PermissionCode(c) \in held[r]
    <3>1. PICK i \in Positions : c = Permissions[i]
      BY DEF Codes
    <3>2. QED BY <1>1, <3>1 DEF Absent
  <2>2. permissions \subseteq Codes
    BY DEF Inv, TypeOK
  <2>3. QED BY <1>1, <2>1, <2>2
<1>6. /\ DOMAIN members' = DOMAIN members \cup {m} /\ members'[m] = "active"
      /\ \A x \in DOMAIN members : members'[x] = members[x]
  BY <1>1, <1>4
<1>7. TypeOK' /\ Exclusive'
  <2>1. DOMAIN members' \subseteq Members /\ \A x \in DOMAIN members' : members'[x] \in Statuses
    BY <1>4, <1>6 DEF Inv, TypeOK, Statuses
  <2>2. /\ assigned' \subseteq (DOMAIN members') \X (DOMAIN roles')
        /\ scopes' \subseteq (DOMAIN members') \X (Branches \cup {NoBranch})
    BY <1>1, <1>6 DEF Inv, TypeOK
  <2>3. pc' \in [Requests -> InFlight \cup Finished] /\ held' \in [Requests -> SUBSET Rows]
        /\ \A q \in Requests : pc'[q] \in Finished => held'[q] = {}
    BY <1>1, <1>3 DEF Inv, TypeOK, Others, InFlight, Finished
  <2>4. Exclusive'
    BY <1>3 DEF Inv, Exclusive, Others
  <2>5. QED BY <1>1, <1>5, <2>1, <2>2, <2>3, <2>4 DEF Inv, TypeOK
<1>8. CreatingOf(r)'
  BY <1>1, <1>2, <1>3, <1>4, <1>5, <1>6 DEF Own, CreatingOf, m
<1>9. permissions' \in {permissions, Codes}
  BY <1>5 DEF Inv, TypeOK
<1>10. QED
  BY <1>1, <1>2, <1>3, <1>6, <1>7, <1>8, <1>9, CreationStep DEF m

LEMMA AppointStep ==
  ASSUME Inv, NEW r \in Requests, Appoint(r)
  PROVE  Inv'
<1> DEFINE owner == [of |-> r, codes |-> view[r]]
           given == <<<<r, cmd[r].by>>, r>>
<1>1. /\ pc[r] = "appoint" /\ pc' = [pc EXCEPT ![r] = "announce"]
      /\ roles' = [x \in DOMAIN roles \cup {r} |-> IF x = r THEN owner ELSE roles[x]]
      /\ assigned' = assigned \cup {given}
      /\ sessions' = sessions /\ permissions' = permissions /\ members' = members
      /\ scopes' = scopes /\ grants' = grants /\ announced' = announced /\ keys' = keys /\ foreign' = foreign
      /\ cmd' = cmd /\ held' = held
      /\ began' = began /\ view' = view /\ copy' = copy /\ read' = read /\ code' = code
      /\ past' = Append(past, Moment(r)')
  BY DEF Appoint, Goto, own
<1>2. /\ Own(r) /\ cmd[r].op = "create" /\ held[r] = {} /\ view[r] = Codes
      /\ <<r, cmd[r].by>> \in DOMAIN members /\ permissions = Codes
  BY <1>1, CommandTypes DEF Inv, Own, RouteOf, CreatingOf
<1>3. pc'[r] = "announce" /\ held'[r] = {} /\ Others(r)
  BY <1>1, <1>2 DEF Others, Inv, TypeOK
<1>4. owner \in Role /\ owner.codes = Codes /\ r \in Roles
  BY <1>2 DEF Role, Businesses, Roles
<1> HIDE DEF owner
<1>5. /\ DOMAIN roles' = DOMAIN roles \cup {r} /\ roles'[r] = owner
      /\ \A x \in DOMAIN roles' : x = r \/ (x \in DOMAIN roles /\ roles'[x] = roles[x])
  BY <1>1
<1>6. TypeOK' /\ Exclusive'
  <2>1. DOMAIN roles' \subseteq Roles /\ \A x \in DOMAIN roles' : roles'[x] \in Role
    BY <1>4, <1>5 DEF Inv, TypeOK
  <2>2. assigned' \subseteq (DOMAIN members') \X (DOMAIN roles')
    <3>1. assigned \subseteq (DOMAIN members) \X (DOMAIN roles)
      BY DEF Inv, TypeOK
    <3>2. given \in (DOMAIN members') \X (DOMAIN roles')
      BY <1>1, <1>2, <1>5
    <3>3. QED BY <1>1, <1>5, <3>1, <3>2
  <2>3. pc' \in [Requests -> InFlight \cup Finished]
        /\ \A q \in Requests : pc'[q] \in Finished => held'[q] = {}
    BY <1>1, <1>3 DEF Inv, TypeOK, Others, InFlight, Finished
  <2>4. Exclusive'
    BY <1>1 DEF Inv, Exclusive
  <2>5. QED BY <1>1, <2>1, <2>2, <2>3, <2>4 DEF Inv, TypeOK
<1>7. CreatingOf(r)'
  BY <1>1, <1>2, <1>3, <1>4, <1>5 DEF CreatingOf
<1>8. permissions' \in {permissions, Codes}
  BY <1>1 DEF Inv
<1>9. QED
  BY <1>1, <1>2, <1>3, <1>5, <1>6, <1>7, <1>8, CreationStep

LEMMA AnnounceStep ==
  ASSUME Inv, NEW r \in Requests, Announce(r)
  PROVE  Inv'
<1>1. /\ pc[r] = "announce" /\ pc' = [pc EXCEPT ![r] = "done"]
      /\ announced' = announced \cup {r}
      /\ sessions' = sessions /\ permissions' = permissions /\ members' = members
      /\ roles' = roles /\ assigned' = assigned
      /\ scopes' = scopes /\ grants' = grants /\ keys' = keys /\ foreign' = foreign
      /\ cmd' = cmd /\ held' = held
      /\ began' = began /\ view' = view /\ copy' = copy /\ read' = read /\ code' = code
      /\ past' = Append(past, Moment(r))
  BY DEF Announce, Goto, own
<1>2. Own(r) /\ CreatingOf(r) /\ cmd[r].op = "create" /\ held[r] = {}
  BY <1>1 DEF Inv, Own, RouteOf
<1>3. pc'[r] = "done" /\ held'[r] = {} /\ Others(r)
  BY <1>1, <1>2 DEF Others, Inv, TypeOK
<1>4. Moment(r)' = Moment(r)
  BY <1>1 DEF Moment, Holds
<1>5. TypeOK' /\ Exclusive'
  <2>1. pc' \in [Requests -> InFlight \cup Finished]
        /\ \A q \in Requests : pc'[q] \in Finished => held'[q] = {}
    BY <1>1, <1>3 DEF Inv, TypeOK, Others, Finished
  <2>2. Exclusive'
    BY <1>1 DEF Inv, Exclusive
  <2>3. QED BY <1>1, <2>1, <2>2 DEF Inv, TypeOK
<1>6. CreatingOf(r)'
  BY <1>1, <1>2, <1>3 DEF CreatingOf
<1>7. permissions' \in {permissions, Codes}
  BY <1>1 DEF Inv
<1>8. past' = Append(past, Moment(r)')
  BY <1>1, <1>4
<1>9. QED
  BY <1>1, <1>2, <1>3, <1>5, <1>6, <1>7, <1>8, CreationStep

-----------------------------------------------------------------------------
(* The invariant *)

LEMMA Initial == ASSUME Init PROVE Inv
<1>1. PICK s \in Scenes :
        /\ sessions = s.books.sessions /\ permissions = s.books.permissions
        /\ members = s.books.members /\ roles = s.books.roles
        /\ assigned = s.books.assigned /\ scopes = s.books.scopes /\ grants = s.books.grants
        /\ cmd = s.asks
  BY DEF Init
<1>2. /\ announced = {} /\ keys = {} /\ foreign = {} /\ past = <<Moment(NoRequest)>>
      /\ pc = [r \in Requests |-> First(cmd[r])]
      /\ began = [r \in Requests |-> 0] /\ view = [r \in Requests |-> {}]
      /\ copy = [r \in Requests |-> "none"] /\ read = [r \in Requests |-> 0]
      /\ code = [r \in Requests |-> 1] /\ held = [r \in Requests |-> {}]
  BY DEF Init
<1>3. /\ sessions \subseteq Users /\ permissions \subseteq Codes
      /\ DOMAIN members \subseteq Shops \X Users
      /\ \A m \in DOMAIN members : members[m] \in Statuses
      /\ DOMAIN roles \subseteq Shops
      /\ \A x \in DOMAIN roles : roles[x] \in Role
      /\ assigned \subseteq (DOMAIN members) \X (DOMAIN roles)
      /\ scopes \subseteq (DOMAIN members) \X (Branches \cup {NoBranch})
      /\ grants \in [Businesses \X Capabilities -> Grant]
      /\ cmd \in [Requests -> Command]
  BY <1>1, ScenesAssumption DEF Opening
<1>4. \A r \in Requests :
        /\ pc[r] \in {"load", "session"}
        /\ cmd[r].op = "logout" => pc[r] = "load"
        /\ pc[r] = "load" => cmd[r].op = "logout"
  BY <1>2 DEF First
<1>5. TypeOK
  <2>1. 1 \in Positions
    BY PermissionsAssumption DEF Positions
  <2>2. pc \in [Requests -> InFlight \cup Finished]
    BY <1>2, <1>4 DEF InFlight
  <2>3. DOMAIN members \subseteq Members /\ DOMAIN roles \subseteq Roles
    BY <1>3 DEF Members, Businesses, Roles
  <2>4. QED BY <1>2, <1>3, <2>1, <2>2, <2>3 DEF TypeOK, Grant
<1>6. /\ past \in Seq({Moment(NoRequest)}) /\ Len(past) = 1 /\ past[1] = Moment(NoRequest)
  BY <1>2
<1>7. Present
  BY <1>6 DEF Present, Moment
<1>8. Committed /\ KeyStored /\ RevokedStaysOut /\ RepeatedInviteIsOne
  BY <1>6 DEF Committed, KeyStored, RevokedStaysOut, RepeatedInviteIsOne
<1>9. GrantsInv
  <2>1. past[1].grants = grants
    BY <1>6 DEF Moment
  <2>2. \A op, b, c : ~Done(op, b, c)
    BY <1>4 DEF Done
  <2>3. grants \in [Businesses \X Capabilities -> Grant]
    BY <1>3
  <2>4. QED BY <2>1, <2>2, <2>3 DEF GrantsInv, Grant
<1>10. Exclusive
  BY <1>2 DEF Exclusive
<1>11. ASSUME NEW r \in Requests PROVE Own(r)
  <2>1. RouteOf(r) /\ DatedOf(r) /\ LoadedOf(r) /\ InvitingOf(r)
    BY <1>2, <1>4, <1>6 DEF RouteOf, DatedOf, LoadedOf, InvitingOf, Decided, Acting, Writing, Gated
  <2>2. CreatingOf(r)
    BY <1>3, <1>4, NamesAssumption DEF CreatingOf
  <2>3. QED BY <2>1, <2>2 DEF Own
<1>12. QED BY <1>3, <1>5, <1>7, <1>8, <1>9, <1>10, <1>11 DEF Inv

\* A step that only adds idempotency rows, or nothing.
LEMMA OnlyKeysStep ==
  ASSUME Inv, UNCHANGED <<sessions, permissions, members, roles, assigned, scopes, grants,
                          announced, past, pc, own, held>>,
         keys \subseteq keys', keys' \subseteq Businesses \X Keys,
         foreign \subseteq foreign', foreign' \subseteq keys'
  PROVE  Inv'
<1>1. /\ sessions' = sessions /\ permissions' = permissions /\ members' = members
      /\ roles' = roles /\ assigned' = assigned /\ scopes' = scopes /\ grants' = grants
      /\ announced' = announced /\ past' = past /\ cmd' = cmd /\ pc' = pc
      /\ began' = began /\ view' = view /\ copy' = copy /\ read' = read /\ code' = code
      /\ held' = held
  BY DEF own
<1>2. TypeOK' /\ Exclusive'
  BY <1>1 DEF Inv, TypeOK, Exclusive
<1>3. Present'
  BY <1>1 DEF Inv, Present, Holds
<1>4. Committed' /\ KeyStored'
  BY <1>1 DEF Inv, Committed, KeyStored, FirstInvite, KeyOf, Target
<1>5. RevokedStaysOut' /\ RepeatedInviteIsOne'
  <2>1. \A m, i, status : Had(m, i, status)' <=> Had(m, i, status)
    BY <1>1 DEF Had
  <2>2. RevokedStaysOut'
    BY <1>1, <2>1 DEF Inv, RevokedStaysOut
  <2>3. RepeatedInviteIsOne'
    BY <1>1 DEF Inv, RepeatedInviteIsOne, KeyOf, Target
  <2>4. QED BY <2>2, <2>3
<1>6. GrantsInv'
  <2>1. \A op, b, c : Done(op, b, c)' <=> Done(op, b, c)
    BY <1>1 DEF Done
  <2>2. QED BY <1>1, <2>1 DEF Inv, GrantsInv
<1>7. ASSUME NEW r \in Requests PROVE Own(r)'
  <2>1. Own(r)
    BY DEF Inv
  <2>2. RouteOf(r)'
    BY <1>1, <2>1 DEF Own, RouteOf
  <2>3. DatedOf(r)'
    <3>1. /\ Since(r)' = Since(r) /\ Actor(r)' = Actor(r)
          /\ \A i : /\ SignedIn(r, i)' <=> SignedIn(r, i)
                    /\ Admitted(r, i)' <=> Admitted(r, i)
                    /\ Scoped(r, i)' <=> Scoped(r, i)
                    /\ May(r, i)' <=> May(r, i)
                    /\ Has(r, i)' <=> Has(r, i)
      BY <1>1 DEF Since, SignedIn, Admitted, Scoped, May, Has, Actor
    <3>2. QED BY <1>1, <2>1, <3>1 DEF Own, DatedOf
  <2>4. LoadedOf(r)'
    BY <1>1, <2>1 DEF Own, LoadedOf, Had, Target, GrantRow
  <2>5. InvitingOf(r)'
    BY <1>1, <2>1 DEF Own, InvitingOf, StoresKey, KeyOf, FirstInvite, Target
  <2>6. CreatingOf(r)'
    BY <1>1, <2>1 DEF Own, CreatingOf, Seeded
  <2>7. QED BY <2>2, <2>3, <2>4, <2>5, <2>6 DEF Own
<1>8. QED BY <1>2, <1>3, <1>4, <1>5, <1>6, <1>7 DEF Inv

LEMMA StoreElsewhereStep ==
  ASSUME Inv, NEW k \in Businesses \X Keys, StoreElsewhere(k)
  PROVE  Inv'
<1>1. /\ UNCHANGED <<sessions, permissions, members, roles, assigned, scopes, grants, announced,
                     past, pc, own, held>>
      /\ keys' = keys \cup {k} /\ foreign' = foreign \cup {k}
  BY DEF StoreElsewhere
<1>2. /\ keys \subseteq keys' /\ keys' \subseteq Businesses \X Keys
      /\ foreign \subseteq foreign' /\ foreign' \subseteq keys'
  BY <1>1 DEF Inv, TypeOK
<1>3. QED BY <1>1, <1>2, OnlyKeysStep

LEMMA Stutter == ASSUME Inv, UNCHANGED vars PROVE Inv'
<1>1. /\ UNCHANGED <<sessions, permissions, members, roles, assigned, scopes, grants, announced,
                     past, pc, own, held>>
      /\ keys' = keys /\ foreign' = foreign
  BY DEF vars, db
<1>2. keys' \subseteq Businesses \X Keys /\ foreign' \subseteq keys'
  BY <1>1 DEF Inv, TypeOK
<1>3. QED BY <1>1, <1>2, OnlyKeysStep

LEMMA Step == ASSUME Inv, [Next]_vars PROVE Inv'
<1>1. ASSUME NEW r \in Requests, Decide(r) PROVE Inv'
  BY <1>1, ResolveUserStep, FindMemberStep, CheckScopeStep, ReadRolesStep, AuthorizeStep,
     RequireCapabilityStep, EndSteps DEF Decide
<1>2. ASSUME NEW r \in Requests, Act(r) PROVE Inv'
  BY <1>2, ProceedStep, LoadRowStep, WriteRowStep, RecheckStep, ClaimKeyStep, CommitStep,
     EndSteps DEF Act
<1>3. ASSUME NEW r \in Requests, Create(r) PROVE Inv'
  BY <1>3, FindAbsentStep, SeedPermissionStep, FoundStep, ReadPermissionsStep, AppointStep,
     AnnounceStep, EndSteps DEF Create
<1>4. ASSUME NEW r \in Requests, Crash(r) PROVE Inv'
  BY <1>4, EndSteps
<1>5. QED BY <1>1, <1>2, <1>3, <1>4, StoreElsewhereStep, Stutter DEF Next, Serve, Quiescent

\* Inv holds in every state: it holds at the start and no step breaks it.
THEOREM Invariant == Spec => []Inv
<1>1. Init => Inv
  BY Initial
<1>2. Inv /\ [Next]_vars => Inv'
  BY Step
<1>3. QED BY <1>1, <1>2, PTL DEF Spec

-----------------------------------------------------------------------------
(* What it implies *)

\* Every variable keeps its type, and a request that has ended holds no lock.
THEOREM TypesOK == Spec => []TypeOK
<1>1. Inv => TypeOK
  BY DEF Inv
<1>2. QED BY <1>1, Invariant, PTL

\* A request that acts was signed in, then admitted as a member, after that in scope
\* and, in whichever order, permitted, and after its permission entitled, at moments
\* since it resolved its session (build_tenant_context, require_perms and
\* require_capability each read once and act on what they read).
THEOREM DecisionsAreDated == Spec => []DecisionIsDated
<1>1. ASSUME Inv PROVE DecisionIsDated
  <2>1. SUFFICES ASSUME NEW r \in Requests, pc[r] \in Acting, cmd[r].op \in Gated
                 PROVE  \E i, j, k, l, n \in began[r]..Len(past) :
      /\ i <= j /\ j <= k /\ j <= l /\ l <= n
      /\ cmd[r].by \in past[i].sessions
      /\ Actor(r) \in DOMAIN past[j].members /\ past[j].members[Actor(r)] = "active"
      /\ InScope(past[k].scopes, Actor(r), cmd[r].at)
      /\ Needs[cmd[r].op] \in past[l].codes[Actor(r)]
      /\ pc[r] = "commit" /\ cmd[r].op = "work" /\ cmd[r].capability # NoCapability =>
           past[n].grants[cmd[r].shop, cmd[r].capability] = "granted"
    BY DEF DecisionIsDated, Acting
  <2>2. DatedOf(r)
    BY <1>1 DEF Inv, Own
  <2>3. PICK i, j, k, l, n \in Since(r) :
          /\ i <= j /\ j <= k /\ k <= l /\ l <= n
          /\ SignedIn(r, i) /\ Admitted(r, j) /\ Scoped(r, k) /\ May(r, l)
          /\ pc[r] = "commit" /\ cmd[r].op = "work" /\ cmd[r].capability # NoCapability =>
               Has(r, n)
    BY <2>1, <2>2 DEF DatedOf, Decided
  <2>4. j <= l
    BY <2>3, <1>1 DEF Since, Inv, TypeOK
  <2>5. QED BY <2>3, <2>4 DEF Since, SignedIn, Admitted, Scoped, May, Has
<1>2. QED BY <1>1, Invariant, PTL

\* Who has been revoked is active again only through another status, or by an
\* activation that had loaded the membership before (MembershipService.activate).
THEOREM RevokedMembersStayOut == Spec => []RevokedStaysOut
<1>1. Inv => RevokedStaysOut
  BY DEF Inv
<1>2. QED BY <1>1, Invariant, PTL

\* The key of an invitation that made a member answers every later one, unless the
\* row of the key is another service's (MembershipService.invite, idem.store).
THEOREM RepeatedInvitesAreOne == Spec => []RepeatedInviteIsOne
<1>1. Inv => RepeatedInviteIsOne
  BY DEF Inv
<1>2. QED BY <1>1, Invariant, PTL

\* A business that has members has every permission seeded, whoever creates it holds
\* them all from the moment that its Owner role appears, and a creation that clashed
\* on a permission left no member (create_business and ensure_system_permissions).
THEOREM OwnersHoldEverything == Spec => []OwnersHoldAll
<1>1. ASSUME Inv PROVE OwnersHoldAll
  <2>1. ASSUME NEW r \in Requests, cmd[r].op = "create"
        PROVE  /\ (\E u \in Users : <<r, u>> \in DOMAIN members) => permissions = Codes
               /\ pc[r] = "clashed" => permissions = Codes /\ <<r, cmd[r].by>> \notin DOMAIN members
               /\ r \in DOMAIN roles =>
                    <<r, cmd[r].by>> \in DOMAIN members /\ Codes = Holds(<<r, cmd[r].by>>)
               /\ pc[r] = "done" => r \in DOMAIN roles /\ r \in announced
    <3>1. CreatingOf(r) /\ cmd[r].by \in Users
      BY <1>1, CommandTypes DEF Inv, Own
    <3>2. r \in DOMAIN roles => Codes = Holds(<<r, cmd[r].by>>)
      <4>1. \A x \in DOMAIN roles : roles[x].codes \subseteq Codes
        BY <1>1 DEF Inv, TypeOK, Role
      <4>2. QED BY <2>1, <3>1, <4>1 DEF CreatingOf, Holds
    <3>3. QED BY <2>1, <3>1, <3>2 DEF CreatingOf
  <2>2. QED BY <1>1, <2>1 DEF OwnersHoldAll, Inv
<1>2. QED BY <1>1, Invariant, PTL

\* A capability taken back by a request that has returned is never there again, and
\* one granted is there until then (EntitlementService.grant and revoke).
THEOREM WithdrawalsAreFinal == Spec => []WithdrawalIsFinal
<1>1. ASSUME Inv PROVE WithdrawalIsFinal
  <2>1. \A b \in Businesses, c \in Capabilities : grants[b, c] \in Grant
    BY <1>1 DEF Inv, TypeOK
  <2>2. \A b \in Businesses, c \in Capabilities :
    /\ grants[b, c] = "deleted" <=> past[1].grants[b, c] = "deleted" \/ Done("ungrant", b, c)
    /\ grants[b, c] = "granted" => past[1].grants[b, c] = "granted" \/ Done("grant", b, c)
    /\ past[1].grants[b, c] # "none" \/ Done("grant", b, c) => grants[b, c] # "none"
    BY <1>1 DEF Inv, GrantsInv
  <2>3. QED BY <2>1, <2>2 DEF WithdrawalIsFinal, Grant
<1>2. QED BY <1>1, Invariant, PTL
=============================================================================
