----------------------------- MODULE AccountsProofs -----------------------------
(***************************************************************************)
(* Proofs about Accounts, for any accounts, roles, desks and scenarios,    *)
(* with any request overlapping any other and those of FailProne failing   *)
(* at any call.                                                            *)
(*                                                                         *)
(* AccountsSound is inductive.  It has a part of each property and, for    *)
(* each, what a request under way holds: what it brings is current unless  *)
(* it was crossed (Bearing), whoever takes an owner away leaves another    *)
(* (LeavesOne), the roles it takes off are those the account has           *)
(* (HoldsAsRead), what it syncs nobody has edited (SyncsOthers).           *)
(***************************************************************************)
EXTENDS Accounts, FiniteSetTheorems, TLAPS

-----------------------------------------------------------------------------
UserFields == {"there", "active", "status", "roles", "failed", "locked", "reset", "invite"}
RoleFields == {"there", "deleted", "edited", "perms", "count"}

\* The calls at which a request is about an account, gives it roles, changes
\* those it has, brings a password or a token, and is about a role.
OfAccount  == {"miss", "enter", "issue", "rotate", "holder", "change", "reset",
               "temporary", "revoke", "accept", "create", "roles", "seats",
               "insert", "count", "invite", "credentials", "renew", "set roles",
               "set active", "other owners", "minus", "plus", "store roles", "switch"}
Changing   == {"minus", "plus", "store roles"}
Giving     == {"create", "roles", "seats", "insert", "count", "credentials",
               "set roles"} \cup Changing
Bringing   == {"enter", "issue", "rotate", "holder"}
OfRole     == {"create role", "edit role", "delete role", "drop"}
Labels     == {"idle", "sync roles", "sync"} \cup OfAccount \cup OfRole

There      == {r \in Roles : role[r].there}
People     == {u \in Users : user[u].there}
Busy       == {h \in Desks : pc[h] # "idle"}

\* A request that changes roles, from the call before on.
Reroling(h)  == pc[h] \in Changing \/ (pc[h] = "other owners" /\ req[h].op = "set roles")
Switching(h) == pc[h] \in {"set active", "switch"}
                  \/ (pc[h] = "other owners" /\ req[h].op = "set active")

AccountsTyped ==
    /\ DOMAIN user = Users /\ DOMAIN role = Roles
    /\ epoch \in [Users -> Int] /\ since \in [Users -> Int]
    /\ \A u \in Users : since[u] <= epoch[u]
    /\ \A u \in Users : DOMAIN user[u] = UserFields /\ user[u].roles \subseteq There
    /\ \A r \in Roles : DOMAIN role[r] = RoleFields /\ role[r].count \in Int
    /\ \A s \in DOMAIN session : session[s].user \in Users
    /\ pc \in [Desks -> Labels] /\ DOMAIN req = Desks
    /\ IsFiniteSet(People) /\ IsFiniteSet(Busy)

Shaped(h) ==
    /\ "crossed" \in DOMAIN req[h]
    /\ pc[h] \in OfAccount => "user" \in DOMAIN req[h] /\ req[h].user \in Users
    /\ pc[h] \in OfRole => "role" \in DOMAIN req[h] /\ req[h].role \in Roles
    /\ pc[h] \in Bringing => "born" \in DOMAIN req[h]
    /\ pc[h] = "sync" => "todo" \in DOMAIN req[h] /\ req[h].todo \subseteq Roles
    /\ pc[h] = "other owners" =>
         "op" \in DOMAIN req[h] /\ req[h].op \in {"set roles", "set active"}
    /\ pc[h] \in Giving \/ Reroling(h) =>
         "roles" \in DOMAIN req[h] /\ req[h].roles \subseteq There
    /\ Reroling(h) => "held" \in DOMAIN req[h] /\ req[h].held \subseteq There
    /\ Switching(h) => "active" \in DOMAIN req[h]
    /\ pc[h] \in {"set roles", "set active"} =>
         "op" \in DOMAIN req[h] /\ req[h].op = pc[h]
    /\ pc[h] = "set roles" => "held" \notin DOMAIN req[h]

-----------------------------------------------------------------------------
(* Sessions.                                                               *)

Current(u, born) == since[u] <= born /\ user[u].active

\* What a request brings dates from after the last change that ends sessions,
\* unless it was crossed by one or that one has still to revoke them.
Bearing(h) ==
    pc[h] \in Bringing /\ "sessions" \notin excused
      /\ req[h].user \notin req[h].crossed /\ Revoking(req[h].user) = {}
    => Current(req[h].user, req[h].born)

-----------------------------------------------------------------------------
(* Owners.                                                                 *)

OpenOwner(v) == user[v].there /\ user[v].active /\ OwnerRole \in user[v].roles

Removing(h) == \/ pc[h] \in Changing /\ OwnerRole \notin req[h].roles
               \/ pc[h] = "switch" /\ ~req[h].active

\* Whoever takes an owner away leaves another.
LeavesOne(h) ==
    Removing(h) /\ "owners" \notin excused /\ req[h].crossed = {} =>
      \E v \in Users : v # req[h].user /\ OpenOwner(v)

OneOwner == "owners" \notin excused => \E v \in Users : OpenOwner(v)

-----------------------------------------------------------------------------
(* Counts.                                                                 *)

Uncounted(r) == {h \in Desks : pc[h] = "count" /\ r \in req[h].roles}
Taken(r)     == {h \in Desks : pc[h] \in {"plus", "store roles"} /\ r \in req[h].held}
Added(r)     == {h \in Desks : pc[h] = "store roles" /\ r \in req[h].roles}

\* What is counted of role r is what is held, less who is not counted yet,
\* less what was taken off and is still held, and what was added and is not.
Counted(r) ==
    role[r].count = Cardinality(Holders(r)) - Cardinality(Uncounted(r))
                      - Cardinality(Taken(r)) + Cardinality(Added(r))

CountsInOrder == "counts" \notin excused => \A r \in There : Counted(r)

HoldsAsRead(h) ==
    Reroling(h) /\ req[h].user \notin req[h].crossed =>
      user[req[h].user].there /\ user[req[h].user].roles = req[h].held

-----------------------------------------------------------------------------
(* The institution's own versions of roles.                                *)

SyncsOthers(h) ==
    pc[h] = "sync" /\ "edits" \notin excused =>
      \A r \in req[h].todo : ~role[r].edited

-----------------------------------------------------------------------------
OwnPart(h) == /\ Shaped(h) /\ Bearing(h) /\ LeavesOne(h)
              /\ HoldsAsRead(h) /\ SyncsOthers(h)

AccountsSound ==
    /\ AccountsTyped /\ SessionsAreCurrent /\ OneOwner /\ CountsInOrder
    /\ EditedRolesKept
    /\ \A h \in Desks : OwnPart(h)

-----------------------------------------------------------------------------
LEMMA AccountsStart == ASSUME Init PROVE AccountsSound
<1>1. /\ pc = [h \in Desks |-> "idle"] /\ req = [h \in Desks |-> NoRequest]
      /\ DOMAIN session = {} /\ Busy = {}
      /\ Founders \subseteq Users /\ Founders # {} /\ IsFiniteSet(Founders)
      /\ OwnerRole \in BuiltIn /\ BuiltIn \subseteq Roles
      BY AccountsAssumption DEF Init, Busy
<1>2. \A u \in Users :
        /\ user[u] = [there |-> u \in Founders, active |-> TRUE, status |-> "active",
             roles |-> IF u \in Founders THEN {OwnerRole} ELSE {}, failed |-> 0,
             locked |-> FALSE, reset |-> FALSE, invite |-> FALSE]
        /\ user[u].there = (u \in Founders) /\ user[u].active = TRUE
        /\ user[u].roles = IF u \in Founders THEN {OwnerRole} ELSE {}
        /\ DOMAIN user[u] = UserFields
      BY DEF Init, UserFields
<1>3. \A r \in Roles :
        /\ role[r].there = (r \in BuiltIn) /\ role[r].edited = FALSE
        /\ role[r].count = IF r = OwnerRole THEN Cardinality(Founders) ELSE 0
        /\ DOMAIN role[r] = RoleFields
      BY DEF Init, RoleFields
<1>4. People = Founders
      BY <1>1, <1>2 DEF People
<1>5. OwnerRole \in There
      BY <1>1, <1>3 DEF There
<1>6. Cardinality(Founders) \in Nat
      BY <1>1, FS_CardinalityType
<1>7. AccountsTyped
  <2>1. /\ DOMAIN user = Users /\ DOMAIN role = Roles
        /\ epoch \in [Users -> Int] /\ since \in [Users -> Int]
        /\ \A u \in Users : since[u] <= epoch[u]
        BY DEF Init
  <2>2. \A u \in Users : user[u].roles \subseteq There
        BY <1>2, <1>5
  <2>3. \A r \in Roles : role[r].count \in Int
        BY <1>3, <1>6
  <2>. QED BY <1>1, <1>2, <1>3, <1>4, <2>1, <2>2, <2>3, FS_EmptySet
          DEF AccountsTyped, Labels
<1>8. SessionsAreCurrent
      BY <1>1 DEF SessionsAreCurrent, SessionsEnd
<1>9. OneOwner
  <2>1. PICK v \in Founders : TRUE
        BY <1>1
  <2>2. v \in Users /\ OpenOwner(v)
        BY <1>1, <1>2, <2>1 DEF OpenOwner
  <2>. QED BY <2>2 DEF OneOwner
<1>10. CountsInOrder
  <2>1. SUFFICES ASSUME NEW r \in There PROVE Counted(r)
        BY DEF CountsInOrder
  <2>2. Uncounted(r) = {} /\ Taken(r) = {} /\ Added(r) = {}
        BY <1>1 DEF Uncounted, Taken, Added
  <2>3. r \in Roles /\ Cardinality({}) = 0
        BY FS_EmptySet DEF There
  <2>4. CASE r = OwnerRole
    <3>1. Holders(r) = Founders
          BY <1>1, <1>2, <2>4 DEF Holders
    <3>. QED BY <1>3, <1>6, <2>2, <2>3, <2>4, <3>1 DEF Counted
  <2>5. CASE r # OwnerRole
    <3>1. Holders(r) = {}
          BY <1>2, <2>5 DEF Holders
    <3>. QED BY <1>3, <2>2, <2>3, <2>5, <3>1 DEF Counted
  <2>. QED BY <2>4, <2>5
<1>11. EditedRolesKept
      BY <1>3 DEF EditedRolesKept
<1>12. ASSUME NEW h \in Desks PROVE OwnPart(h)
  <2>1. pc[h] = "idle" /\ req[h] = NoRequest
        BY <1>1
  <2>2. "idle" \notin OfAccount \cup OfRole \cup Giving \cup Bringing \cup Changing
        BY DEF OfAccount, OfRole, Giving, Bringing, Changing
  <2>3. ~Reroling(h) /\ ~Switching(h) /\ ~Removing(h)
        BY <2>1, <2>2 DEF Reroling, Switching, Removing
  <2>. QED BY <2>1, <2>2, <2>3 DEF OwnPart, Shaped, Bearing, LeavesOne,
              HoldsAsRead, SyncsOthers, NoRequest
<1>. QED BY <1>7, <1>8, <1>9, <1>10, <1>11, <1>12 DEF AccountsSound

-----------------------------------------------------------------------------
(* What one desk's step leaves to the others.                              *)

\* Desk g does nothing, though a change of an account may cross it.
Waits(g) ==
    /\ pc'[g] = pc[g] /\ DOMAIN req'[g] = DOMAIN req[g]
    /\ \A f \in DOMAIN req[g] : f # "crossed" => req'[g][f] = req[g][f]
    /\ req[g].crossed \subseteq req'[g].crossed

OthersWait(h) == \A g \in Desks : g # h => Waits(g)

LEMMA Stepping ==
    ASSUME AccountsSound, NEW h \in Desks, NEW label \in Labels, NEW own,
           Goto(h, label), req' = [req EXCEPT ![h] = own]
    PROVE  /\ pc' \in [Desks -> Labels] /\ DOMAIN req' = Desks
           /\ pc'[h] = label /\ req'[h] = own
           /\ OthersWait(h) /\ IsFiniteSet(Busy')
<1>1. /\ pc' \in [Desks -> Labels] /\ DOMAIN req' = Desks
      /\ pc'[h] = label /\ req'[h] = own /\ OthersWait(h)
      BY DEF AccountsSound, AccountsTyped, Goto, OthersWait, Waits
<1>2. Busy' \subseteq Busy \cup {h}
      BY <1>1 DEF Busy, OthersWait, Waits
<1>3. IsFiniteSet(Busy \cup {h})
      BY FS_AddElement DEF AccountsSound, AccountsTyped
<1>. QED BY <1>1, <1>2, <1>3, FS_Subset

LEMMA Keeping ==
    ASSUME AccountsSound, NEW h \in Desks, NEW label \in Labels,
           Goto(h, label), req' = req
    PROVE  /\ pc' \in [Desks -> Labels] /\ DOMAIN req' = Desks
           /\ pc'[h] = label /\ req'[h] = req[h]
           /\ OthersWait(h) /\ IsFiniteSet(Busy')
<1>1. /\ pc' \in [Desks -> Labels] /\ DOMAIN req' = Desks
      /\ pc'[h] = label /\ req'[h] = req[h] /\ OthersWait(h)
      BY DEF AccountsSound, AccountsTyped, Goto, OthersWait, Waits
<1>2. Busy' \subseteq Busy \cup {h}
      BY <1>1 DEF Busy, OthersWait, Waits
<1>3. IsFiniteSet(Busy \cup {h})
      BY FS_AddElement DEF AccountsSound, AccountsTyped
<1>. QED BY <1>1, <1>2, <1>3, FS_Subset

LEMMA CrossingAll ==
    ASSUME AccountsSound, NEW h \in Desks, NEW label \in Labels, NEW own, NEW u,
           Goto(h, label), req' = Crossing(h, u, own)
    PROVE  /\ pc' \in [Desks -> Labels] /\ DOMAIN req' = Desks
           /\ pc'[h] = label /\ req'[h] = own
           /\ OthersWait(h) /\ IsFiniteSet(Busy')
           /\ \A g \in Desks : g # h /\ pc[g] # "idle" => u \in req'[g].crossed
<1>1. /\ pc' \in [Desks -> Labels] /\ DOMAIN req' = Desks
      /\ pc'[h] = label /\ req'[h] = own
      /\ \A g \in Desks : g # h => pc'[g] = pc[g]
      BY DEF AccountsSound, AccountsTyped, Goto, Crossing
<1>2. ASSUME NEW g \in Desks, g # h
      PROVE  Waits(g) /\ (pc[g] # "idle" => u \in req'[g].crossed)
  <2>1. "crossed" \in DOMAIN req[g]
        BY DEF AccountsSound, OwnPart, Shaped
  <2>2. CASE pc[g] = "idle"
    <3>1. req'[g] = req[g]
          BY <1>2, <2>2 DEF Crossing, Idle
    <3>. QED BY <1>1, <1>2, <2>2, <3>1 DEF Waits
  <2>3. CASE pc[g] # "idle"
    <3>1. req'[g] = [req[g] EXCEPT !.crossed = req[g].crossed \cup {u}]
          BY <1>2, <2>3 DEF Crossing, Idle
    <3>2. /\ DOMAIN req'[g] = DOMAIN req[g]
          /\ \A f \in DOMAIN req[g] : f # "crossed" => req'[g][f] = req[g][f]
          /\ req'[g].crossed = req[g].crossed \cup {u}
          BY <2>1, <3>1
    <3>. QED BY <1>1, <1>2, <3>2 DEF Waits
  <2>. QED BY <2>2, <2>3
<1>3. Busy' \subseteq Busy \cup {h}
      BY <1>1 DEF Busy
<1>4. IsFiniteSet(Busy \cup {h})
      BY FS_AddElement DEF AccountsSound, AccountsTyped
<1>5. IsFiniteSet(Busy')
      BY <1>3, <1>4, FS_Subset
<1>. QED BY <1>1, <1>2, <1>5 DEF OthersWait

LEMMA ShapedWaits ==
    ASSUME NEW g \in Desks, Waits(g), Shaped(g), There \subseteq There'
    PROVE  Shaped(g)'
<1>1. /\ "crossed" \in DOMAIN req[g] /\ pc'[g] = pc[g]
      /\ DOMAIN req'[g] = DOMAIN req[g]
      /\ \A f \in DOMAIN req[g] : f # "crossed" => req'[g][f] = req[g][f]
      BY DEF Waits, Shaped
<1>2. pc[g] \in OfAccount => "user" \in DOMAIN req'[g] /\ req'[g].user \in Users
      BY <1>1 DEF Shaped
<1>3. pc[g] \in OfRole => "role" \in DOMAIN req'[g] /\ req'[g].role \in Roles
      BY <1>1 DEF Shaped
<1>4. pc[g] = "sync" => "todo" \in DOMAIN req'[g] /\ req'[g].todo \subseteq Roles
      BY <1>1 DEF Shaped
<1>5. pc[g] = "other owners" =>
        /\ "op" \in DOMAIN req'[g] /\ req'[g].op = req[g].op
        /\ req'[g].op \in {"set roles", "set active"}
      BY <1>1 DEF Shaped
<1>6. (Reroling(g)' <=> Reroling(g)) /\ (Switching(g)' <=> Switching(g))
      BY <1>1, <1>5 DEF Reroling, Switching
<1>7. pc[g] \in Giving \/ Reroling(g) =>
        "roles" \in DOMAIN req'[g] /\ req'[g].roles \subseteq There'
      BY <1>1 DEF Shaped
<1>8. Reroling(g) => "held" \in DOMAIN req'[g] /\ req'[g].held \subseteq There'
      BY <1>1 DEF Shaped
<1>9. Switching(g) => "active" \in DOMAIN req'[g]
      BY <1>1 DEF Shaped
<1>10. pc[g] \in Bringing => "born" \in DOMAIN req'[g]
      BY <1>1 DEF Shaped
<1>11. /\ pc[g] \in {"set roles", "set active"} =>
            "op" \in DOMAIN req'[g] /\ req'[g].op = pc[g]
       /\ pc[g] = "set roles" => "held" \notin DOMAIN req'[g]
      BY <1>1 DEF Shaped
<1>. QED BY <1>1, <1>2, <1>3, <1>4, <1>5, <1>6, <1>7, <1>8, <1>9, <1>10, <1>11
         DEF Shaped

\* What a change of documents must leave a waiting request.
LEMMA OwnWaits ==
    ASSUME NEW g \in Desks, Waits(g), OwnPart(g),
           NEW u, pc[g] \in OfAccount => req[g].user = u,
           excused \subseteq excused', There \subseteq There',
           pc[g] \in Bringing =>
             \/ u \in req'[g].crossed \/ "sessions" \in excused'
             \/ Revoking(u)' # {}
             \/ /\ Revoking(u) = {} /\ since'[u] = since[u]
                /\ user[u].active => user'[u].active,
           Removing(g) =>
             \/ req'[g].crossed # {} \/ "owners" \in excused'
             \/ \A v \in Users : OpenOwner(v) => OpenOwner(v)',
           Reroling(g) =>
             \/ u \in req'[g].crossed
             \/ user[u].there => user'[u].there /\ user'[u].roles = user[u].roles,
           pc[g] = "sync" =>
             \/ "edits" \in excused'
             \/ \A r \in req[g].todo : ~role[r].edited => ~role'[r].edited
    PROVE  OwnPart(g)'
<1>1. Shaped(g) /\ Shaped(g)'
      BY ShapedWaits DEF OwnPart
<1>2. /\ pc'[g] = pc[g] /\ DOMAIN req'[g] = DOMAIN req[g]
      /\ \A f \in DOMAIN req[g] : f # "crossed" => req'[g][f] = req[g][f]
      /\ req[g].crossed \subseteq req'[g].crossed
      BY DEF Waits
<1>3. Bearing(g)'
  <2>1. CASE pc[g] \in Bringing
    <3>1. pc[g] \in OfAccount
          BY <2>1 DEF Bringing, OfAccount
    <3>2. req[g].user = u /\ req'[g].user = u /\ req'[g].born = req[g].born
          BY <1>1, <1>2, <2>1, <3>1 DEF Shaped
    <3>3. SUFFICES ASSUME "sessions" \notin excused', u \notin req'[g].crossed,
                          Revoking(u)' = {}
                   PROVE  since'[u] <= req[g].born /\ user'[u].active
          BY <3>2 DEF Bearing, Current, Revoking
    <3>4. "sessions" \notin excused /\ u \notin req[g].crossed
          BY <1>2, <3>3
    <3>5. /\ Revoking(u) = {} /\ since'[u] = since[u]
          /\ user[u].active => user'[u].active
          BY <2>1, <3>3
    <3>. QED BY <2>1, <3>2, <3>4, <3>5 DEF OwnPart, Bearing, Current
  <2>2. CASE pc[g] \notin Bringing
        BY <1>2, <2>2 DEF Bearing
  <2>. QED BY <2>1, <2>2
<1>4. LeavesOne(g)'
  <2>1. /\ pc[g] \in Changing \cup {"switch"} =>
             "user" \in DOMAIN req[g]
        /\ pc[g] \in Changing => "roles" \in DOMAIN req[g]
        /\ pc[g] = "switch" => "active" \in DOMAIN req[g]
        BY <1>1 DEF Shaped, Changing, OfAccount, Reroling, Switching
  <2>2. Removing(g)' <=> Removing(g)
        BY <1>2, <2>1 DEF Removing
  <2>3. SUFFICES ASSUME Removing(g), "owners" \notin excused', req'[g].crossed = {}
                 PROVE  \E v \in Users : v # req'[g].user /\ OpenOwner(v)'
        BY <2>2 DEF LeavesOne
  <2>4. req'[g].user = req[g].user
        BY <1>2, <2>1, <2>3 DEF Removing
  <2>5. "owners" \notin excused /\ req[g].crossed = {}
        BY <1>2, <2>3
  <2>6. PICK v \in Users : v # req[g].user /\ OpenOwner(v)
        BY <2>3, <2>5 DEF OwnPart, LeavesOne
  <2>7. OpenOwner(v)'
        BY <2>3, <2>6
  <2>. QED BY <2>4, <2>6, <2>7
<1>5. HoldsAsRead(g)'
  <2>1. pc[g] = "other owners" => "op" \in DOMAIN req[g]
        BY <1>1 DEF Shaped
  <2>2. Reroling(g)' <=> Reroling(g)
        BY <1>2, <2>1 DEF Reroling
  <2>3. SUFFICES ASSUME Reroling(g), req'[g].user \notin req'[g].crossed
                 PROVE  /\ user'[req'[g].user].there
                        /\ user'[req'[g].user].roles = req'[g].held
        BY <2>2 DEF HoldsAsRead
  <2>4. pc[g] \in OfAccount
        BY <2>3 DEF Reroling, Changing, OfAccount
  <2>5. req[g].user = u /\ req'[g].user = u /\ req'[g].held = req[g].held
        BY <1>1, <1>2, <2>3, <2>4 DEF Shaped
  <2>6. user[u].there /\ user[u].roles = req[g].held
        BY <1>2, <2>3, <2>5 DEF OwnPart, HoldsAsRead
  <2>. QED BY <2>3, <2>5, <2>6
<1>6. SyncsOthers(g)'
  <2>1. SUFFICES ASSUME pc[g] = "sync", "edits" \notin excused'
                 PROVE  \A r \in req'[g].todo : ~role'[r].edited
        BY <1>2 DEF SyncsOthers
  <2>2. req'[g].todo = req[g].todo /\ "edits" \notin excused
        BY <1>1, <1>2, <2>1 DEF Shaped
  <2>. QED BY <2>1, <2>2 DEF OwnPart, SyncsOthers
<1>. QED BY <1>1, <1>3, <1>4, <1>5, <1>6 DEF OwnPart

-----------------------------------------------------------------------------
(* Steps that take nothing from anyone: no account loses a role or is      *)
(* closed, no password changes, no session is added.                       *)

Tallied == {"count", "plus", "store roles"}
Loud    == Tallied \cup {"revoke"}

\* A desk that waits, or is at no call others go by.
Softly(g) == Waits(g) \/ (pc[g] \notin Loud /\ pc'[g] \notin Loud)

LEMMA RevokingStays ==
    ASSUME AccountsSound, \A g \in Desks : Softly(g), NEW u
    PROVE  Revoking(u)' = Revoking(u)
<1>1. ASSUME NEW g \in Desks
      PROVE  pc'[g] = "revoke" /\ req'[g].user = u <=>
               pc[g] = "revoke" /\ req[g].user = u
  <2>1. CASE Waits(g)
    <3>1. pc'[g] = pc[g]
          BY <2>1 DEF Waits
    <3>2. pc[g] = "revoke" => req'[g].user = req[g].user
          BY <2>1 DEF Waits, AccountsSound, OwnPart, Shaped, OfAccount
    <3>. QED BY <3>1, <3>2
  <2>2. CASE pc[g] \notin Loud /\ pc'[g] \notin Loud
        BY <2>2 DEF Loud
  <2>. QED BY <2>1, <2>2 DEF Softly
<1>. QED BY <1>1 DEF Revoking

LEMMA TallyStays ==
    ASSUME AccountsSound, \A g \in Desks : Softly(g), NEW r
    PROVE  /\ Uncounted(r)' = Uncounted(r) /\ Taken(r)' = Taken(r)
           /\ Added(r)' = Added(r)
<1>1. ASSUME NEW g \in Desks
      PROVE  /\ pc'[g] = "count" /\ r \in req'[g].roles <=>
                  pc[g] = "count" /\ r \in req[g].roles
             /\ pc'[g] \in {"plus", "store roles"} /\ r \in req'[g].held <=>
                  pc[g] \in {"plus", "store roles"} /\ r \in req[g].held
             /\ pc'[g] = "store roles" /\ r \in req'[g].roles <=>
                  pc[g] = "store roles" /\ r \in req[g].roles
  <2>1. CASE Waits(g)
    <3>1. pc'[g] = pc[g]
          BY <2>1 DEF Waits
    <3>2. pc[g] \in Tallied => req'[g].roles = req[g].roles
          BY <2>1 DEF Waits, AccountsSound, OwnPart, Shaped, Tallied, Giving,
             Changing
    <3>3. pc[g] \in {"plus", "store roles"} => req'[g].held = req[g].held
          BY <2>1 DEF Waits, AccountsSound, OwnPart, Shaped, Reroling, Changing
    <3>. QED BY <3>1, <3>2, <3>3 DEF Tallied
  <2>2. CASE pc[g] \notin Loud /\ pc'[g] \notin Loud
        BY <2>2 DEF Loud, Tallied
  <2>. QED BY <2>1, <2>2 DEF Softly
<1>. QED BY <1>1 DEF Uncounted, Taken, Added

LEMMA CountsStay ==
    ASSUME AccountsSound, \A g \in Desks : Softly(g),
           \A u \in Users : user'[u].there = user[u].there
                              /\ user'[u].roles = user[u].roles,
           \A r \in Roles : role'[r].there = role[r].there
                              /\ role'[r].count = role[r].count,
           excused \subseteq excused'
    PROVE  CountsInOrder'
<1>1. SUFFICES ASSUME "counts" \notin excused', NEW r \in There' PROVE Counted(r)'
      BY DEF CountsInOrder
<1>2. r \in There /\ "counts" \notin excused /\ role'[r].count = role[r].count
      BY <1>1 DEF There
<1>3. Holders(r)' = Holders(r)
      BY DEF Holders
<1>4. Counted(r)
      BY <1>2 DEF AccountsSound, CountsInOrder
<1>. QED BY <1>2, <1>3, <1>4, TallyStays DEF Counted

\* What a step of no consequence does to the documents.
Gentle ==
    /\ DOMAIN user' = Users
    /\ \A u \in Users :
         /\ DOMAIN user'[u] = UserFields
         /\ user'[u].there = user[u].there /\ user'[u].roles = user[u].roles
         /\ user[u].active => user'[u].active
    /\ DOMAIN role' = Roles
    /\ \A r \in Roles :
         /\ DOMAIN role'[r] = RoleFields
         /\ role'[r].there = role[r].there /\ role'[r].count = role[r].count
         /\ role'[r].edited = role[r].edited /\ role'[r].perms = role[r].perms
    /\ epoch' \in [Users -> Int] /\ since' = since
    /\ \A u \in Users : since[u] <= epoch'[u]
    /\ excused' = excused
    /\ DOMAIN session' \subseteq DOMAIN session
    /\ \A s \in DOMAIN session' : session'[s] = session[s]

LEMMA GentleStep ==
    ASSUME AccountsSound, Gentle,
           \A g \in Desks : Softly(g) /\ (Waits(g) \/ OwnPart(g)'),
           pc' \in [Desks -> Labels], DOMAIN req' = Desks, IsFiniteSet(Busy')
    PROVE  AccountsSound'
<1>1. \A u : Revoking(u)' = Revoking(u)
      BY RevokingStays
<1>2. There' = There /\ People' = People
      BY DEF Gentle, There, People
<1>3. \A v \in Users : OpenOwner(v) => OpenOwner(v)'
      BY DEF Gentle, OpenOwner
<1>4. ASSUME NEW g \in Desks, Waits(g) PROVE OwnPart(g)'
  <2>1. OwnPart(g)
        BY DEF AccountsSound
  <2>2. PICK u : u = req[g].user
        OBVIOUS
  <2>3. pc[g] \in Bringing \/ Reroling(g) => u \in Users
        BY <2>1, <2>2 DEF OwnPart, Shaped, Bringing, Reroling, Changing, OfAccount
  <2>4. Revoking(u)' = Revoking(u)
        BY <1>1
  <2>5. pc[g] = "sync" => req[g].todo \subseteq Roles
        BY <2>1 DEF OwnPart, Shaped
  <2>. QED BY <1>2, <1>3, <1>4, <2>1, <2>2, <2>3, <2>4, <2>5, OwnWaits DEF Gentle
<1>5. \A g \in Desks : OwnPart(g)'
      BY <1>4
<1>6. AccountsTyped'
      BY <1>2 DEF AccountsSound, AccountsTyped, Gentle
<1>7. SessionsAreCurrent'
  <2>1. ASSUME "sessions" \notin excused', NEW s \in DOMAIN session',
               NEW u, u = session'[s].user, Revoking(u)' = {}
        PROVE  since'[u] <= session'[s].born /\ user'[u].active
    <3>1. s \in DOMAIN session /\ session'[s] = session[s] /\ u \in Users
          BY <2>1 DEF Gentle, AccountsSound, AccountsTyped
    <3>2. "sessions" \notin excused /\ Revoking(u) = {}
          BY <1>1, <2>1 DEF Gentle
    <3>3. since[u] <= session[s].born /\ user[u].active
          BY <2>1, <3>1, <3>2 DEF AccountsSound, SessionsAreCurrent, SessionsEnd
    <3>. QED BY <3>1, <3>3 DEF Gentle
  <2>. QED BY <2>1 DEF SessionsAreCurrent, SessionsEnd, Revoking
<1>8. OneOwner'
      BY <1>3 DEF AccountsSound, OneOwner, Gentle
<1>9. CountsInOrder'
      BY CountsStay DEF Gentle
<1>10. EditedRolesKept'
      BY DEF AccountsSound, EditedRolesKept, Gentle
<1>. QED BY <1>5, <1>6, <1>7, <1>8, <1>9, <1>10 DEF AccountsSound

LEMMA StillGentle ==
    ASSUME AccountsSound, UNCHANGED <<user, role, session, epoch, since, excused>>
    PROVE  Gentle
  BY DEF AccountsSound, AccountsTyped, Gentle

LEMMA NobodyMoves ==
    ASSUME AccountsSound, Gentle, pc' = pc, req' = req
    PROVE  AccountsSound'
<1>1. \A g \in Desks : Waits(g)
      BY DEF Waits
<1>2. pc' \in [Desks -> Labels] /\ DOMAIN req' = Desks /\ IsFiniteSet(Busy')
      BY DEF AccountsSound, AccountsTyped, Busy
<1>. QED BY <1>1, <1>2, GentleStep DEF Softly

LEMMA GentleDesk ==
    ASSUME AccountsSound, Gentle, NEW h \in Desks,
           pc' \in [Desks -> Labels], DOMAIN req' = Desks, IsFiniteSet(Busy'),
           OthersWait(h), pc[h] \notin Loud, pc'[h] \notin Loud, OwnPart(h)'
    PROVE  AccountsSound'
<1>1. \A g \in Desks : Softly(g) /\ (Waits(g) \/ OwnPart(g)')
      BY DEF OthersWait, Softly
<1>. QED BY <1>1, GentleStep

\* At most of its calls a request owes nobody anything.
LEMMA OwnShaped ==
    ASSUME NEW h \in Desks, Shaped(h)',
           pc'[h] \notin Bringing \cup Changing \cup {"other owners", "switch", "sync"}
    PROVE  OwnPart(h)'
  BY DEF OwnPart, Bearing, LeavesOne, Removing, HoldsAsRead, Reroling, SyncsOthers

LEMMA OwnIdle ==
    ASSUME NEW h \in Desks, pc'[h] = "idle", req'[h] = NoRequest
    PROVE  OwnPart(h)'
<1>1. "idle" \notin OfAccount \cup OfRole \cup Giving \cup Bringing \cup Changing
      BY DEF OfAccount, OfRole, Giving, Bringing, Changing
<1>2. Shaped(h)'
      BY <1>1 DEF Shaped, Reroling, Switching, NoRequest
<1>. QED BY <1>1, <1>2, OwnShaped

LEMMA Finishing ==
    ASSUME AccountsSound, Gentle, NEW h \in Desks, pc[h] \notin Loud, Finish(h)
    PROVE  AccountsSound'
<1>1. /\ pc' \in [Desks -> Labels] /\ DOMAIN req' = Desks
      /\ pc'[h] = "idle" /\ req'[h] = NoRequest
      /\ OthersWait(h) /\ IsFiniteSet(Busy')
      BY Stepping DEF Finish, Labels
<1>2. "idle" \notin Loud
      BY DEF Loud, Tallied
<1>. QED BY <1>1, <1>2, OwnIdle, GentleDesk

-----------------------------------------------------------------------------
(* Signing in and out, passwords and invitations.                          *)

LEMMA SignInKeeps ==
    ASSUME AccountsSound, NEW h \in Desks, NEW u \in Users, NEW right \in BOOLEAN,
           SignIn(h, u, right)
    PROVE  AccountsSound'
<1>. DEFINE own == [crossed |-> {}, user |-> u, born |-> epoch[u],
                    tries |-> user[u].failed + 1]
            label == IF right THEN "enter" ELSE "miss"
<1>1. /\ pc[h] = "idle" /\ Goto(h, label) /\ req' = [req EXCEPT ![h] = own]
      /\ UNCHANGED <<user, role, session, epoch, since, asked, excused>>
      /\ right => user[u].active
      BY DEF SignIn, Start, Idle
<1>2. /\ DOMAIN own = {"crossed", "user", "born", "tries"}
      /\ own.user = u /\ own.born = epoch[u] /\ own.crossed = {}
      OBVIOUS
<1>3. label \in {"enter", "miss"} /\ (label = "enter" => user[u].active)
      BY <1>1
<1>. HIDE DEF own, label
<1>4. label \in Labels /\ label \notin Loud /\ "idle" \notin Loud
      BY <1>3 DEF Labels, OfAccount, Loud, Tallied
<1>5. /\ pc' \in [Desks -> Labels] /\ DOMAIN req' = Desks
      /\ pc'[h] = label /\ req'[h] = own
      /\ OthersWait(h) /\ IsFiniteSet(Busy')
      BY <1>1, <1>4, Stepping
<1>6. Shaped(h)'
      BY <1>2, <1>3, <1>5 DEF Shaped, Reroling, Switching, OfRole, Giving, Changing
<1>7. OwnPart(h)'
  <2>1. Bearing(h)'
        BY <1>1, <1>2, <1>3, <1>5
           DEF Bearing, Bringing, Current, AccountsSound, AccountsTyped
  <2>. QED BY <1>3, <1>5, <1>6, <2>1 DEF OwnPart, LeavesOne, Removing,
              HoldsAsRead, Reroling, SyncsOthers, Changing
<1>. QED BY <1>1, <1>4, <1>5, <1>7, StillGentle, GentleDesk

\* A live session is current, or it is being revoked.
LEMMA RefreshKeeps ==
    ASSUME AccountsSound, NEW h \in Desks, NEW s \in DOMAIN session, Refresh(h, s)
    PROVE  AccountsSound'
<1>. DEFINE own == [crossed |-> {}, user |-> session[s].user,
                    born |-> session[s].born, session |-> s]
<1>1. /\ pc[h] = "idle" /\ Goto(h, "rotate") /\ req' = [req EXCEPT ![h] = own]
      /\ UNCHANGED <<user, role, session, epoch, since, asked, excused>>
      BY DEF Refresh, Start, Idle
<1>2. /\ DOMAIN own = {"crossed", "user", "born", "session"}
      /\ own.user = session[s].user /\ own.born = session[s].born
      /\ own.crossed = {}
      OBVIOUS
<1>3. session[s].user \in Users
      BY DEF AccountsSound, AccountsTyped
<1>. HIDE DEF own
<1>4. "rotate" \in Labels /\ "rotate" \notin Loud /\ "idle" \notin Loud
      BY DEF Labels, OfAccount, Loud, Tallied
<1>5. /\ pc' \in [Desks -> Labels] /\ DOMAIN req' = Desks
      /\ pc'[h] = "rotate" /\ req'[h] = own
      /\ OthersWait(h) /\ IsFiniteSet(Busy')
      BY <1>1, <1>4, Stepping
<1>6. Shaped(h)'
      BY <1>2, <1>3, <1>5 DEF Shaped, Reroling, Switching, OfRole, Giving, Changing
<1>7. Bearing(h)'
  <2>1. PICK u : u = session[s].user
        OBVIOUS
  <2>2. \A g \in Desks : Softly(g)
        BY <1>1, <1>4, <1>5 DEF Softly, OthersWait
  <2>3. Revoking(u)' = Revoking(u)
        BY <2>2, RevokingStays
  <2>4. ASSUME "sessions" \notin excused, Revoking(u) = {}
        PROVE  since[u] <= session[s].born /\ user[u].active
        BY <2>1, <2>4 DEF AccountsSound, SessionsAreCurrent, SessionsEnd
  <2>5. SUFFICES ASSUME "sessions" \notin excused', Revoking(u)' = {}
                 PROVE  since'[u] <= session[s].born /\ user'[u].active
        BY <1>2, <1>5, <2>1 DEF Bearing, Current, Revoking
  <2>. QED BY <1>1, <2>3, <2>4, <2>5
<1>8. OwnPart(h)'
      BY <1>5, <1>6, <1>7 DEF OwnPart, LeavesOne, Removing, HoldsAsRead, Reroling,
         SyncsOthers, Changing
<1>. QED BY <1>1, <1>4, <1>5, <1>8, StillGentle, GentleDesk

\* Whoever is about to write a password, or to accept an invitation.
LEMMA StartKeeps ==
    ASSUME AccountsSound, NEW h \in Desks, NEW u \in Users,
           \/ ChangePassword(h, u) \/ FinishReset(h, u) \/ AcceptInvite(h, u)
    PROVE  AccountsSound'
<1>. DEFINE own == [crossed |-> {}, user |-> u]
<1>1. PICK label \in {"change", "reset", "accept"} :
        pc[h] = "idle" /\ Goto(h, label) /\ req' = [req EXCEPT ![h] = own]
          /\ UNCHANGED <<user, role, session, epoch, since, asked, excused>>
      BY DEF ChangePassword, FinishReset, AcceptInvite, Start, Idle
<1>2. DOMAIN own = {"crossed", "user"} /\ own.user = u
      OBVIOUS
<1>. HIDE DEF own
<1>3. label \in Labels /\ label \notin Loud /\ "idle" \notin Loud
      BY DEF Labels, OfAccount, Loud, Tallied
<1>4. /\ pc' \in [Desks -> Labels] /\ DOMAIN req' = Desks
      /\ pc'[h] = label /\ req'[h] = own
      /\ OthersWait(h) /\ IsFiniteSet(Busy')
      BY <1>1, <1>3, Stepping
<1>5. Shaped(h)'
      BY <1>2, <1>4 DEF Shaped, Reroling, Switching, OfRole, Giving, Changing, Bringing
<1>6. OwnPart(h)'
      BY <1>4, <1>5, OwnShaped DEF Bringing, Changing
<1>. QED BY <1>1, <1>3, <1>4, <1>6, StillGentle, GentleDesk

LEMMA RecordMissKeeps ==
    ASSUME AccountsSound, NEW h \in Desks, RecordMiss(h) PROVE AccountsSound'
<1>1. Gentle
      BY DEF RecordMiss, Gentle, AccountsSound, AccountsTyped, UserFields
<1>2. Finish(h) /\ pc[h] \notin Loud
      BY DEF RecordMiss, Loud, Tallied
<1>. QED BY <1>1, <1>2, Finishing

\* A request that goes on with what it brings.
LEMMA BringsOn ==
    ASSUME AccountsSound, Gentle, NEW h \in Desks, pc[h] \in Bringing,
           NEW label \in Bringing, Goto(h, label), req' = req
    PROVE  AccountsSound'
<1>1. Bringing \subseteq Labels \ Loud
      BY DEF Bringing, Labels, OfAccount, Loud, Tallied
<1>2. /\ pc' \in [Desks -> Labels] /\ DOMAIN req' = Desks
      /\ pc'[h] = label /\ req'[h] = req[h]
      /\ OthersWait(h) /\ IsFiniteSet(Busy')
      BY <1>1, Keeping
<1>3. OwnPart(h)
      BY DEF AccountsSound
<1>4. Shaped(h)'
      BY <1>2, <1>3 DEF OwnPart, Shaped, Bringing, OfAccount, OfRole, Giving,
         Changing, Reroling, Switching
<1>5. Bearing(h)'
  <2>1. PICK u : u = req[h].user
        OBVIOUS
  <2>2. Revoking(u)' = Revoking(u)
        BY <1>1, <1>2, RevokingStays DEF Softly, OthersWait
  <2>3. u \in Users
        BY <1>3, <2>1 DEF OwnPart, Shaped, Bringing, OfAccount
  <2>4. SUFFICES ASSUME "sessions" \notin excused', u \notin req[h].crossed,
                        Revoking(u)' = {}
                 PROVE  since'[u] <= req[h].born /\ user'[u].active
        BY <1>2, <2>1 DEF Bearing, Current, Revoking
  <2>5. since[u] <= req[h].born /\ user[u].active
        BY <1>3, <2>1, <2>2, <2>4 DEF OwnPart, Bearing, Current, Gentle
  <2>. QED BY <2>3, <2>5 DEF Gentle
<1>6. OwnPart(h)'
      BY <1>2, <1>4, <1>5 DEF OwnPart, LeavesOne, Removing, HoldsAsRead, Reroling,
         SyncsOthers, Changing, Bringing
<1>. QED BY <1>1, <1>2, <1>6, GentleDesk

LEMMA RecordSignInKeeps ==
    ASSUME AccountsSound, NEW h \in Desks, RecordSignIn(h) PROVE AccountsSound'
<1>1. Gentle
      BY DEF RecordSignIn, Gentle, AccountsSound, AccountsTyped, UserFields
<1>. QED BY <1>1, BringsOn DEF RecordSignIn, Bringing

LEMMA RevokeRotatedKeeps ==
    ASSUME AccountsSound, NEW h \in Desks, RevokeRotated(h) PROVE AccountsSound'
<1>1. Gentle
      BY DEF RevokeRotated, Without, Gentle, AccountsSound, AccountsTyped
<1>. QED BY <1>1, BringsOn DEF RevokeRotated, Bringing

LEMMA CheckHolderKeeps ==
    ASSUME AccountsSound, NEW h \in Desks, CheckHolder(h) PROVE AccountsSound'
<1>1. Gentle
      BY StillGentle DEF CheckHolder
<1>2. pc[h] \in Bringing /\ pc[h] \notin Loud
      BY DEF CheckHolder, Bringing, Loud, Tallied
<1>3. CASE Goto(h, "issue") /\ req' = req
      BY <1>1, <1>2, <1>3, BringsOn DEF Bringing
<1>4. CASE Finish(h)
      BY <1>1, <1>2, <1>4, Finishing
<1>. QED BY <1>3, <1>4 DEF CheckHolder

\* An accepted invitation opens the account.
LEMMA StoreAcceptedKeeps ==
    ASSUME AccountsSound, NEW h \in Desks, StoreAccepted(h) PROVE AccountsSound'
<1>1. PICK u : u = req[h].user
      OBVIOUS
<1>. DEFINE own == [crossed |-> {}, user |-> u, born |-> epoch[u] + 1]
<1>2. /\ pc[h] = "accept" /\ Goto(h, "issue") /\ req' = [req EXCEPT ![h] = own]
      /\ user' = [user EXCEPT ![u].status = "active", ![u].active = TRUE,
                              ![u].invite = FALSE]
      /\ epoch' = [epoch EXCEPT ![u] = epoch[u] + 1]
      /\ UNCHANGED <<role, session, since, excused>>
      BY <1>1 DEF StoreAccepted
<1>3. u \in Users
      BY <1>1, <1>2 DEF AccountsSound, OwnPart, Shaped, OfAccount
<1>4. Gentle /\ user'[u].active
      BY <1>2, <1>3 DEF Gentle, AccountsSound, AccountsTyped, UserFields
<1>5. /\ DOMAIN own = {"crossed", "user", "born"}
      /\ own.user = u /\ own.born = epoch[u] + 1
      OBVIOUS
<1>. HIDE DEF own
<1>6. {"issue", "accept"} \subseteq Labels \ Loud
      BY DEF Labels, OfAccount, Loud, Tallied
<1>7. /\ pc' \in [Desks -> Labels] /\ DOMAIN req' = Desks
      /\ pc'[h] = "issue" /\ req'[h] = own
      /\ OthersWait(h) /\ IsFiniteSet(Busy')
      BY <1>2, <1>6, Stepping
<1>8. Shaped(h)'
      BY <1>3, <1>5, <1>7 DEF Shaped, Reroling, Switching, OfRole, Giving, Changing
<1>9. since'[u] <= req'[h].born /\ req'[h].user = u
      BY <1>2, <1>3, <1>5, <1>7 DEF AccountsSound, AccountsTyped
<1>10. OwnPart(h)'
      BY <1>4, <1>7, <1>8, <1>9 DEF OwnPart, Bearing, Current, LeavesOne,
         Removing, HoldsAsRead, Reroling, SyncsOthers, Changing
<1>. QED BY <1>2, <1>4, <1>6, <1>7, <1>10, GentleDesk

LEMMA SignOutKeeps ==
    ASSUME AccountsSound, NEW gone, SignOut(gone) PROVE AccountsSound'
<1>1. Gentle
      BY DEF SignOut, Without, Gentle, AccountsSound, AccountsTyped
<1>. QED BY <1>1, NobodyMoves DEF SignOut

LEMMA AccountAloneKeeps ==
    ASSUME AccountsSound, NEW u \in Users, StartReset(u) \/ LockExpires(u)
    PROVE  AccountsSound'
<1>1. Gentle
  <2>1. CASE StartReset(u)
        BY <2>1 DEF StartReset, Gentle, AccountsSound, AccountsTyped, UserFields
  <2>2. CASE LockExpires(u)
        BY <2>2 DEF LockExpires, Gentle, AccountsSound, AccountsTyped, UserFields
  <2>. QED BY <2>1, <2>2
<1>. QED BY <1>1, NobodyMoves DEF StartReset, LockExpires

-----------------------------------------------------------------------------
(* Administration.                                                         *)

\* A request that reads and goes on, with more than it had.
LEMMA ReadsOn ==
    ASSUME AccountsSound, Gentle, NEW h \in Desks, pc[h] \notin Loud,
           NEW label \in Labels \ Loud, NEW own,
           Goto(h, label), req' = [req EXCEPT ![h] = own],
           pc'[h] = label /\ req'[h] = own => OwnPart(h)'
    PROVE  AccountsSound'
<1>1. /\ pc' \in [Desks -> Labels] /\ DOMAIN req' = Desks
      /\ pc'[h] = label /\ req'[h] = own
      /\ OthersWait(h) /\ IsFiniteSet(Busy')
      BY Stepping
<1>. QED BY <1>1, GentleDesk

LEMMA GoesOn ==
    ASSUME AccountsSound, Gentle, NEW h \in Desks, pc[h] \notin Loud,
           NEW label \in Labels \ Loud, Goto(h, label), req' = req,
           pc'[h] = label /\ req'[h] = req[h] => OwnPart(h)'
    PROVE  AccountsSound'
<1>1. /\ pc' \in [Desks -> Labels] /\ DOMAIN req' = Desks
      /\ pc'[h] = label /\ req'[h] = req[h]
      /\ OthersWait(h) /\ IsFiniteSet(Busy')
      BY Keeping
<1>. QED BY <1>1, GentleDesk

LEMMA AlsoHas ==
    ASSUME NEW f, NEW g
    PROVE  /\ DOMAIN Also(f, g) = DOMAIN f \cup DOMAIN g
           /\ \A x \in DOMAIN f : Also(f, g)[x] = f[x]
           /\ \A x \in DOMAIN g : x \notin DOMAIN f => Also(f, g)[x] = g[x]
  BY DEF Also

\* What is wanted fits the handler it is for.
LEMMA AskKeeps ==
    ASSUME AccountsSound, NEW h \in Desks, NEW by \in Users, NEW want \in Wants,
           Ask(h, by, want)
    PROVE  AccountsSound'
<1>. DEFINE more == [crossed |-> {}, asOwner |-> OwnerRole \in user[by].roles]
            own == Also(want, more)
<1>1. /\ pc[h] = "idle" /\ Goto(h, want.op) /\ req' = [req EXCEPT ![h] = own]
      /\ UNCHANGED <<user, role, session, epoch, since, excused>>
      /\ want.op \in {"create", "credentials", "set roles"} =>
           \A r \in want.roles : role[r].there
      BY DEF Ask, Start, Idle
<1>2. /\ "op" \in DOMAIN want
      /\ want.op \in {"create", "credentials", "temporary", "set active",
                      "set roles", "create role", "edit role", "delete role",
                      "sync roles"}
      /\ want.op \in {"create", "credentials", "temporary", "set active", "set roles"} =>
           "user" \in DOMAIN want /\ want.user \in Users
      /\ want.op \in {"create", "credentials", "set roles"} =>
           "roles" \in DOMAIN want /\ want.roles \subseteq Roles
      /\ want.op = "set active" => "active" \in DOMAIN want
      /\ want.op \in {"create role", "edit role", "delete role"} =>
           "role" \in DOMAIN want /\ want.role \in Roles
      /\ "held" \notin DOMAIN want
  <2>1. \A g \in Grants : g \subseteq Roles
        BY AccountsAssumption
  <2>2. OwnerRole \in Roles
        BY AccountsAssumption
  <2>3. CASE want \in [op : {"create"}, user : Users, roles : Grants, invited : BOOLEAN]
        BY <2>1, <2>3
  <2>4. CASE want \in [op : {"credentials"}, user : Users, roles : {{r} : r \in Roles}]
        BY <2>4
  <2>5. CASE want \in [op : {"temporary"}, user : Users]
        BY <2>5
  <2>6. CASE want \in [op : {"set active"}, user : Users, active : BOOLEAN]
        BY <2>6
  <2>7. CASE want \in [op : {"set roles"}, user : Users, roles : Grants]
        BY <2>1, <2>7
  <2>8. CASE want \in [op : {"create role", "edit role", "delete role"}, role : Roles]
        BY <2>8
  <2>9. CASE want = [op |-> "sync roles", role |-> OwnerRole]
        BY <2>2, <2>9
  <2>. QED BY <2>3, <2>4, <2>5, <2>6, <2>7, <2>8, <2>9 DEF Wants
<1>3. DOMAIN more = {"crossed", "asOwner"}
      OBVIOUS
<1>. HIDE DEF more
<1>4. /\ DOMAIN own = DOMAIN want \cup {"crossed", "asOwner"}
      /\ \A x \in DOMAIN want : own[x] = want[x]
      BY <1>3, AlsoHas
<1>. HIDE DEF own
<1>5. want.op \in Labels \ Loud /\ "idle" \notin Loud
      BY <1>2 DEF Labels, OfAccount, OfRole, Loud, Tallied
<1>6. ASSUME pc'[h] = want.op, req'[h] = own PROVE OwnPart(h)'
  <2>1. There' = There
        BY <1>1 DEF There
  <2>2. want.op \in {"create", "credentials", "set roles"} => want.roles \subseteq There
        BY <1>1, <1>2 DEF There
  <2>3. ~Reroling(h)' /\ (Switching(h)' => want.op = "set active")
        BY <1>2, <1>6 DEF Reroling, Switching, Changing
  <2>4. /\ "op" \in DOMAIN req'[h] /\ req'[h].op = want.op
        /\ "held" \notin DOMAIN req'[h]
    <3>1. "op" \in DOMAIN own /\ own.op = want.op
          BY <1>2, <1>4
    <3>2. "held" \notin DOMAIN own
          BY <1>2, <1>4
    <3>. QED BY <1>6, <3>1, <3>2
  <2>5. Shaped(h)'
        BY <1>2, <1>4, <1>6, <2>1, <2>2, <2>3, <2>4 DEF Shaped, OfAccount, OfRole,
           Giving, Changing, Bringing
  <2>. QED BY <1>2, <1>6, <2>5, OwnShaped DEF Bringing, Changing
<1>. QED BY <1>1, <1>5, <1>6, StillGentle, ReadsOn

LEMMA CheckAddressKeeps ==
    ASSUME AccountsSound, NEW h \in Desks, CheckAddress(h) PROVE AccountsSound'
<1>1. Gentle /\ pc[h] = "create" /\ "create" \notin Loud /\ "roles" \in Labels \ Loud
      BY StillGentle DEF CheckAddress, Reads, Labels, OfAccount, Loud, Tallied
<1>2. CASE Finish(h)
      BY <1>1, <1>2, Finishing
<1>3. CASE Goto(h, "roles") /\ req' = req
  <2>1. ASSUME pc'[h] = "roles", req'[h] = req[h] PROVE OwnPart(h)'
    <3>1. Shaped(h) /\ There' = There
          BY <1>1 DEF AccountsSound, OwnPart, There, Gentle
    <3>2. Shaped(h)'
          BY <1>1, <2>1, <3>1 DEF Shaped, OfAccount, OfRole, Giving, Changing,
             Bringing, Reroling, Switching
    <3>. QED BY <2>1, <3>2, OwnShaped DEF Bringing, Changing
  <2>. QED BY <1>1, <1>3, <2>1, GoesOn
<1>. QED BY <1>2, <1>3 DEF CheckAddress

LEMMA ReadRolesKeeps ==
    ASSUME AccountsSound, NEW h \in Desks, ReadRoles(h) PROVE AccountsSound'
<1>. DEFINE given == {r \in req[h].roles : ~role[r].deleted}
            own == [req[h] EXCEPT !.roles = given]
            label == IF given \cap PortalRoles = {} THEN "seats" ELSE "insert"
<1>1. Gentle /\ pc[h] = "roles" /\ "roles" \notin Loud
      BY StillGentle DEF ReadRoles, Reads, Loud, Tallied
<1>2. CASE Finish(h)
      BY <1>1, <1>2, Finishing
<1>3. CASE Goto(h, label) /\ req' = [req EXCEPT ![h].roles = given]
  <2>1. Shaped(h) /\ There' = There
        BY <1>1 DEF AccountsSound, OwnPart, There, Gentle
  <2>2. "roles" \in DOMAIN req[h] /\ "user" \in DOMAIN req[h] /\ req[h].user \in Users
          /\ "crossed" \in DOMAIN req[h] /\ req[h].roles \subseteq There
        BY <1>1, <2>1 DEF Shaped, Giving, OfAccount
  <2>3. /\ DOMAIN own = DOMAIN req[h] /\ own.user = req[h].user
        /\ own.roles = given /\ given \subseteq There
        BY <2>2
  <2>4. req' = [req EXCEPT ![h] = own] /\ label \in {"seats", "insert"}
        BY <1>3
  <2>. HIDE DEF own, label, given
  <2>5. label \in Labels \ Loud
        BY <2>4 DEF Labels, OfAccount, Loud, Tallied
  <2>6. ASSUME pc'[h] = label, req'[h] = own PROVE OwnPart(h)'
    <3>1. Shaped(h)'
          BY <2>1, <2>2, <2>3, <2>4, <2>6 DEF Shaped, OfAccount, OfRole, Giving,
             Changing, Bringing, Reroling, Switching
    <3>. QED BY <2>4, <2>6, <3>1, OwnShaped DEF Bringing, Changing
  <2>. QED BY <1>1, <1>3, <2>4, <2>5, <2>6, ReadsOn
<1>. QED BY <1>2, <1>3 DEF ReadRoles

LEMMA EnforceAdminSeatsKeeps ==
    ASSUME AccountsSound, NEW h \in Desks, EnforceAdminSeats(h) PROVE AccountsSound'
<1>1. Gentle /\ pc[h] = "seats" /\ "seats" \notin Loud /\ "insert" \in Labels \ Loud
      BY StillGentle DEF EnforceAdminSeats, Reads, Labels, OfAccount, Loud, Tallied
<1>2. CASE Finish(h)
      BY <1>1, <1>2, Finishing
<1>3. CASE Goto(h, "insert") /\ req' = req
  <2>1. ASSUME pc'[h] = "insert", req'[h] = req[h] PROVE OwnPart(h)'
    <3>1. Shaped(h) /\ There' = There
          BY <1>1 DEF AccountsSound, OwnPart, There, Gentle
    <3>2. Shaped(h)'
          BY <1>1, <2>1, <3>1 DEF Shaped, OfAccount, OfRole, Giving, Changing,
             Bringing, Reroling, Switching
    <3>. QED BY <2>1, <3>2, OwnShaped DEF Bringing, Changing
  <2>. QED BY <1>1, <1>3, <2>1, GoesOn
<1>. QED BY <1>2, <1>3 DEF EnforceAdminSeats

LEMMA StoreInviteKeeps ==
    ASSUME AccountsSound, NEW h \in Desks, StoreInvite(h) PROVE AccountsSound'
<1>1. Gentle
      BY DEF StoreInvite, Gentle, AccountsSound, AccountsTyped, UserFields
<1>2. Finish(h) /\ pc[h] \notin Loud
      BY DEF StoreInvite, Loud, Tallied
<1>. QED BY <1>1, <1>2, Finishing

LEMMA SendCredentialsKeeps ==
    ASSUME AccountsSound, NEW h \in Desks, SendCredentials(h) PROVE AccountsSound'
<1>. DEFINE own == Also(req[h], [invited |-> TRUE])
<1>1. PICK label \in {"create", "renew", "temporary"} : Goto(h, label)
      BY DEF SendCredentials
<1>2. Gentle /\ pc[h] = "credentials" /\ req' = [req EXCEPT ![h] = own]
      BY StillGentle DEF SendCredentials, Reads
<1>3. Shaped(h) /\ There' = There
      BY <1>2 DEF AccountsSound, OwnPart, There, Gentle
<1>4. /\ "roles" \in DOMAIN req[h] /\ "user" \in DOMAIN req[h]
      /\ "crossed" \in DOMAIN req[h]
      /\ req[h].user \in Users /\ req[h].roles \subseteq There
      BY <1>2, <1>3 DEF Shaped, Giving, OfAccount
<1>5. /\ DOMAIN req[h] \subseteq DOMAIN own
      /\ \A x \in DOMAIN req[h] : own[x] = req[h][x]
  <2>1. ASSUME NEW f, NEW g
        PROVE  /\ DOMAIN f \subseteq DOMAIN Also(f, g)
               /\ \A x \in DOMAIN f : Also(f, g)[x] = f[x]
        BY AlsoHas
  <2>. QED BY <2>1
<1>. HIDE DEF own
<1>6. label \in Labels \ Loud /\ "credentials" \notin Loud
      BY DEF Labels, OfAccount, Loud, Tallied
<1>7. ASSUME pc'[h] = label, req'[h] = own PROVE OwnPart(h)'
  <2>1. Shaped(h)'
        BY <1>3, <1>4, <1>5, <1>7 DEF Shaped, OfAccount, OfRole, Giving, Changing,
           Bringing, Reroling, Switching
  <2>. QED BY <1>7, <2>1, OwnShaped DEF Bringing, Changing
<1>. QED BY <1>1, <1>2, <1>6, <1>7, ReadsOn

LEMMA RenewInvitationKeeps ==
    ASSUME AccountsSound, NEW h \in Desks, RenewInvitation(h) PROVE AccountsSound'
<1>1. Gentle
  <2>1. PICK u : u = req[h].user
        OBVIOUS
  <2>2. /\ user' = [user EXCEPT ![u].failed = 0, ![u].locked = FALSE]
        /\ epoch' = [epoch EXCEPT ![u] = epoch[u] + 1]
        /\ UNCHANGED <<role, session, since, excused>>
        BY <2>1 DEF RenewInvitation
  <2>3. u \in Users
        BY <2>1 DEF RenewInvitation, AccountsSound, OwnPart, Shaped, OfAccount
  <2>4. epoch' \in [Users -> Int] /\ \A v \in Users : since[v] <= epoch'[v]
        BY <2>2, <2>3 DEF AccountsSound, AccountsTyped
  <2>. QED BY <2>2, <2>3, <2>4 DEF Gentle, AccountsSound, AccountsTyped, UserFields
<1>2. /\ pc[h] = "renew" /\ Goto(h, "invite") /\ req' = req
      /\ "renew" \notin Loud /\ "invite" \in Labels \ Loud
      BY DEF RenewInvitation, Labels, OfAccount, Loud, Tallied
<1>3. ASSUME pc'[h] = "invite", req'[h] = req[h] PROVE OwnPart(h)'
  <2>1. Shaped(h)
        BY DEF AccountsSound, OwnPart
  <2>2. Shaped(h)'
        BY <1>2, <1>3, <2>1 DEF Shaped, OfAccount, OfRole, Giving, Changing,
           Bringing, Reroling, Switching
  <2>. QED BY <1>3, <2>2, OwnShaped DEF Bringing, Changing
<1>. QED BY <1>1, <1>2, <1>3, GoesOn

LEMMA CheckUnusedKeeps ==
    ASSUME AccountsSound, NEW h \in Desks, CheckUnused(h) PROVE AccountsSound'
<1>1. Gentle /\ pc[h] = "delete role" /\ "delete role" \notin Loud
        /\ "drop" \in Labels \ Loud
      BY StillGentle DEF CheckUnused, Reads, Labels, OfRole, Loud, Tallied
<1>2. CASE Finish(h)
      BY <1>1, <1>2, Finishing
<1>3. CASE Goto(h, "drop") /\ req' = req
  <2>1. ASSUME pc'[h] = "drop", req'[h] = req[h] PROVE OwnPart(h)'
    <3>1. Shaped(h)
          BY DEF AccountsSound, OwnPart
    <3>2. Shaped(h)'
          BY <1>1, <2>1, <3>1 DEF Shaped, OfAccount, OfRole, Giving, Changing,
             Bringing, Reroling, Switching
    <3>. QED BY <2>1, <3>2, OwnShaped DEF Bringing, Changing
  <2>. QED BY <1>1, <1>3, <2>1, GoesOn
<1>. QED BY <1>2, <1>3 DEF CheckUnused

LEMMA DropRoleKeeps ==
    ASSUME AccountsSound, NEW h \in Desks, DropRole(h) PROVE AccountsSound'
<1>1. Gentle
      BY DEF DropRole, Gentle, AccountsSound, AccountsTyped, RoleFields
<1>. QED BY <1>1, Finishing DEF DropRole, Loud, Tallied

\* What is to be synced has not been edited.
LEMMA ReadBuiltInKeeps ==
    ASSUME AccountsSound, NEW h \in Desks, ReadBuiltIn(h) PROVE AccountsSound'
<1>. DEFINE own == [crossed |-> {}, todo |-> ToSync]
<1>1. Gentle /\ role' = role /\ pc[h] = "sync roles" /\ Goto(h, "sync")
        /\ req' = [req EXCEPT ![h] = own]
      BY StillGentle DEF ReadBuiltIn, Reads
<1>2. DOMAIN own = {"crossed", "todo"} /\ own.todo = ToSync
      OBVIOUS
<1>. HIDE DEF own
<1>3. ToSync \subseteq Roles /\ \A r \in ToSync : ~role[r].edited
      BY AccountsAssumption DEF ToSync, Outdated
<1>4. "sync roles" \notin Loud /\ "sync" \in Labels \ Loud
      BY DEF Labels, Loud, Tallied
<1>5. ASSUME pc'[h] = "sync", req'[h] = own PROVE OwnPart(h)'
  <2>1. Shaped(h)'
        BY <1>2, <1>3, <1>5 DEF Shaped, OfAccount, OfRole, Giving, Changing,
           Bringing, Reroling, Switching
  <2>2. SyncsOthers(h)'
        BY <1>1, <1>2, <1>3, <1>5 DEF SyncsOthers
  <2>. QED BY <1>5, <2>1, <2>2 DEF OwnPart, Bearing, Bringing, LeavesOne,
              Removing, HoldsAsRead, Reroling, Changing
<1>. QED BY <1>1, <1>4, <1>5, ReadsOn

-----------------------------------------------------------------------------
(* Who gives or takes roles away, or closes an account.                    *)

\* Whoever is about to remove one that is no owner leaves another.
LEMMA AnotherOwner ==
    ASSUME AccountsSound, NEW u \in Users, OwnerRole \notin user[u].roles,
           "owners" \notin excused
    PROVE  \E v \in Users : v # u /\ OpenOwner(v)
<1>1. PICK v \in Users : OpenOwner(v)
      BY DEF AccountsSound, OneOwner
<1>. QED BY <1>1 DEF OpenOwner

\* A count of more than one owner is of another owner too.
LEMMA CountedOwner ==
    ASSUME AccountsSound, NEW u \in Users, ~(OwnerCount <= 1)
    PROVE  \E v \in Users : v # u /\ OpenOwner(v)
<1>. DEFINE all == {v \in Owners(Users) : user[v].active}
<1>1. SUFFICES ASSUME \A v \in Users : v = u \/ ~OpenOwner(v)
               PROVE  Cardinality(all) <= 1
      BY DEF OwnerCount
<1>2. all \subseteq {u}
      BY <1>1 DEF Owners, OpenOwner
<1>3. IsFiniteSet({u}) /\ Cardinality({u}) = 1
      BY FS_Singleton
<1>4. Cardinality(all) <= Cardinality({u})
      BY <1>2, <1>3, FS_Subset
<1>. QED BY <1>3, <1>4

\* What a request that is about to change roles or to close an account owes.
LEMMA OwnChanging ==
    ASSUME NEW h \in Desks, Shaped(h)', LeavesOne(h)', HoldsAsRead(h)',
           pc'[h] \in Changing \cup {"other owners", "switch"}
    PROVE  OwnPart(h)'
  BY DEF OwnPart, Bearing, Bringing, SyncsOthers, Changing

LEMMA ReadHeldKeeps ==
    ASSUME AccountsSound, NEW h \in Desks, ReadHeld(h) PROVE AccountsSound'
<1>. DEFINE u == req[h].user
            own == Also(req[h], [held |-> user[u].roles])
            label == IF OwnerRole \in user[u].roles \ req[h].roles
                     THEN "other owners" ELSE "minus"
<1>1. /\ Gentle /\ UNCHANGED <<user, role, excused>> /\ pc[h] = "set roles"
      /\ "set roles" \notin Loud
      BY StillGentle DEF ReadHeld, Reads, Loud, Tallied
<1>2. CASE Finish(h)
      BY <1>1, <1>2, Finishing
<1>3. CASE user[u].there /\ Goto(h, label) /\ req' = [req EXCEPT ![h] = own]
  <2>1. Shaped(h) /\ There' = There
        BY <1>1 DEF AccountsSound, OwnPart, There
  <2>2. /\ "crossed" \in DOMAIN req[h] /\ "user" \in DOMAIN req[h] /\ u \in Users
        /\ "roles" \in DOMAIN req[h] /\ req[h].roles \subseteq There
        /\ "op" \in DOMAIN req[h] /\ req[h].op = "set roles"
        /\ "held" \notin DOMAIN req[h]
        BY <1>1, <2>1 DEF Shaped, Giving, OfAccount
  <2>3. user[u].roles \subseteq There
        BY <2>2 DEF AccountsSound, AccountsTyped
  <2>4. /\ DOMAIN own = DOMAIN req[h] \cup {"held"}
        /\ \A x \in DOMAIN req[h] : own[x] = req[h][x]
        /\ own.held = user[u].roles
    <3>1. ASSUME NEW f, NEW g, "held" \notin DOMAIN f, DOMAIN g = {"held"}
          PROVE  /\ DOMAIN Also(f, g) = DOMAIN f \cup {"held"}
                 /\ \A x \in DOMAIN f : Also(f, g)[x] = f[x]
                 /\ Also(f, g).held = g.held
          BY <3>1 DEF Also
    <3>2. PICK g : g = [held |-> user[u].roles]
          OBVIOUS
    <3>3. DOMAIN g = {"held"} /\ g.held = user[u].roles
          BY <3>2
    <3>4. own = Also(req[h], g)
          BY <3>2
    <3>5. PICK f : f = req[h]
          OBVIOUS
    <3>6. own = Also(f, g) /\ "held" \notin DOMAIN f
          BY <2>2, <3>4, <3>5
    <3>7. /\ DOMAIN Also(f, g) = DOMAIN f \cup {"held"}
          /\ \A x \in DOMAIN f : Also(f, g)[x] = f[x]
          /\ Also(f, g).held = g.held
          BY <3>1, <3>3, <3>6
    <3>. HIDE DEF own
    <3>. QED BY <3>3, <3>5, <3>6, <3>7
  <2>. HIDE DEF own
  <2>5. /\ label \in {"other owners", "minus"}
        /\ OwnerRole \in user[u].roles \ req[h].roles => label = "other owners"
        OBVIOUS
  <2>. HIDE DEF label
  <2>6. label \in Labels \ Loud
        BY <2>5 DEF Labels, OfAccount, Loud, Tallied
  <2>7. ASSUME pc'[h] = label, req'[h] = own PROVE OwnPart(h)'
    <3>1. Shaped(h)'
          BY <2>1, <2>2, <2>3, <2>4, <2>5, <2>7 DEF Shaped, OfAccount, OfRole,
             Giving, Changing, Bringing, Reroling, Switching
    <3>2. HoldsAsRead(h)'
          BY <1>1, <1>3, <2>2, <2>4, <2>7 DEF HoldsAsRead
    <3>3. LeavesOne(h)'
      <4>1. SUFFICES ASSUME label = "minus", OwnerRole \notin req[h].roles,
                            "owners" \notin excused
                     PROVE  \E v \in Users : v # u /\ OpenOwner(v)'
            BY <1>1, <2>2, <2>4, <2>5, <2>7 DEF LeavesOne, Removing, Changing
      <4>2. OwnerRole \notin user[u].roles
            BY <2>5, <4>1
      <4>3. PICK v \in Users : v # u /\ OpenOwner(v)
            BY <2>2, <4>1, <4>2, AnotherOwner
      <4>. QED BY <1>1, <4>3 DEF OpenOwner
    <3>. QED BY <2>5, <2>7, <3>1, <3>2, <3>3, OwnChanging DEF Changing
  <2>. QED BY <1>1, <1>3, <2>6, <2>7, ReadsOn
<1>. QED BY <1>2, <1>3 DEF ReadHeld

LEMMA ReadAccountKeeps ==
    ASSUME AccountsSound, NEW h \in Desks, ReadAccount(h) PROVE AccountsSound'
<1>. DEFINE u == req[h].user
            label == IF ~req[h].active /\ OwnerRole \in user[u].roles
                     THEN "other owners" ELSE "switch"
<1>1. /\ Gentle /\ UNCHANGED <<user, role, excused>> /\ pc[h] = "set active"
      /\ "set active" \notin Loud
      BY StillGentle DEF ReadAccount, Reads, Loud, Tallied
<1>2. CASE Finish(h)
      BY <1>1, <1>2, Finishing
<1>3. CASE Goto(h, label) /\ req' = req
  <2>1. Shaped(h) /\ There' = There
        BY <1>1 DEF AccountsSound, OwnPart, There
  <2>2. /\ "crossed" \in DOMAIN req[h] /\ "user" \in DOMAIN req[h] /\ u \in Users
        /\ "op" \in DOMAIN req[h] /\ req[h].op = "set active"
        /\ "active" \in DOMAIN req[h]
        BY <1>1, <2>1 DEF Shaped, OfAccount, Switching
  <2>3. /\ label \in {"other owners", "switch"}
        /\ label = "switch" => req[h].active \/ OwnerRole \notin user[u].roles
        OBVIOUS
  <2>. HIDE DEF label
  <2>4. label \in Labels \ Loud
        BY <2>3 DEF Labels, OfAccount, Loud, Tallied
  <2>5. ASSUME pc'[h] = label, req'[h] = req[h] PROVE OwnPart(h)'
    <3>1. Shaped(h)'
          BY <2>1, <2>2, <2>3, <2>5 DEF Shaped, OfAccount, OfRole,
             Giving, Changing, Bringing, Reroling, Switching
    <3>2. HoldsAsRead(h)'
          BY <2>2, <2>3, <2>5 DEF HoldsAsRead, Reroling, Changing
    <3>3. LeavesOne(h)'
      <4>1. SUFFICES ASSUME label = "switch", ~req[h].active, "owners" \notin excused
                     PROVE  \E v \in Users : v # u /\ OpenOwner(v)'
            BY <1>1, <2>3, <2>5 DEF LeavesOne, Removing, Changing
      <4>2. PICK v \in Users : v # u /\ OpenOwner(v)
            BY <2>2, <2>3, <4>1, AnotherOwner
      <4>. QED BY <1>1, <4>2 DEF OpenOwner
    <3>. QED BY <2>3, <2>5, <3>1, <3>2, <3>3, OwnChanging DEF Changing
  <2>. QED BY <1>1, <1>3, <2>4, <2>5, GoesOn
<1>. QED BY <1>2, <1>3 DEF ReadAccount

LEMMA CheckOtherOwnersKeeps ==
    ASSUME AccountsSound, NEW h \in Desks, CheckOtherOwners(h) PROVE AccountsSound'
<1>. DEFINE label == IF req[h].op = "set roles" THEN "minus" ELSE "switch"
<1>1. /\ Gentle /\ UNCHANGED <<user, role, excused>> /\ pc[h] = "other owners"
      /\ "other owners" \notin Loud
      BY StillGentle DEF CheckOtherOwners, Reads, Loud, Tallied
<1>2. CASE Finish(h)
      BY <1>1, <1>2, Finishing
<1>3. CASE ~LastOwner(h) /\ Goto(h, label) /\ req' = req
  <2>1. Shaped(h) /\ HoldsAsRead(h) /\ There' = There
        BY <1>1 DEF AccountsSound, OwnPart, There
  <2>2. /\ "crossed" \in DOMAIN req[h] /\ "user" \in DOMAIN req[h]
        /\ req[h].user \in Users
        /\ "op" \in DOMAIN req[h] /\ req[h].op \in {"set roles", "set active"}
        /\ Reroling(h) <=> req[h].op = "set roles"
        /\ Switching(h) <=> req[h].op = "set active"
        BY <1>1, <2>1 DEF Shaped, OfAccount, Reroling, Switching, Changing
  <2>3. /\ label \in {"minus", "switch"}
        /\ label = "minus" <=> req[h].op = "set roles"
        OBVIOUS
  <2>. HIDE DEF label
  <2>4. label \in Labels \ Loud
        BY <2>3 DEF Labels, OfAccount, Loud, Tallied
  <2>5. ASSUME pc'[h] = label, req'[h] = req[h] PROVE OwnPart(h)'
    <3>1. (Reroling(h)' <=> Reroling(h)) /\ (Switching(h)' <=> Switching(h))
          BY <2>2, <2>3, <2>5 DEF Reroling, Switching, Changing
    <3>2. Shaped(h)'
          BY <2>1, <2>2, <2>3, <2>5, <3>1 DEF Shaped, OfAccount, OfRole,
             Giving, Changing, Bringing, Reroling
    <3>3. HoldsAsRead(h)'
          BY <1>1, <2>1, <2>5, <3>1 DEF HoldsAsRead
    <3>4. LeavesOne(h)'
      <4>1. PICK v \in Users : v # req[h].user /\ OpenOwner(v)
            BY <1>3, <2>2, CountedOwner DEF LastOwner
      <4>. QED BY <1>1, <2>5, <4>1 DEF LeavesOne, OpenOwner
    <3>. QED BY <2>3, <2>5, <3>2, <3>3, <3>4, OwnChanging DEF Changing
  <2>. QED BY <1>1, <1>3, <2>4, <2>5, GoesOn
<1>. QED BY <1>2, <1>3 DEF CheckOtherOwners

-----------------------------------------------------------------------------
(* Steps others go by.  X are the accounts of which others are told that   *)
(* they changed under them.                                                *)

LEMMA OthersKeep ==
    ASSUME AccountsSound, NEW h \in Desks, OthersWait(h), NEW X \in SUBSET Users,
           There \subseteq There', excused \subseteq excused',
           \A g \in Desks : g # h /\ pc[g] # "idle" => X \subseteq req'[g].crossed,
           \A u \in Users \ X :
             /\ since'[u] = since[u] /\ (user[u].active => user'[u].active)
             /\ user[u].there =>
                  user'[u].there /\ user'[u].roles = user[u].roles
             /\ \/ Revoking(u) = {} \/ Revoking(u)' # {} \/ "sessions" \in excused',
           \A g \in Desks : g # h /\ pc[g] = "sync" =>
             \/ "edits" \in excused'
             \/ \A r \in req[g].todo : ~role[r].edited => ~role'[r].edited
    PROVE  \A g \in Desks : g # h => OwnPart(g)'
<1>1. SUFFICES ASSUME NEW g \in Desks, g # h PROVE OwnPart(g)'
      OBVIOUS
<1>2. OwnPart(g) /\ Waits(g)
      BY <1>1 DEF AccountsSound, OthersWait
<1>3. PICK u : u = req[g].user
      OBVIOUS
<1>4. pc[g] \in OfAccount => u \in Users
      BY <1>2, <1>3 DEF OwnPart, Shaped
<1>5. pc[g] \in OfAccount => pc[g] # "idle"
      BY DEF OfAccount
<1>6. pc[g] \in Bringing =>
        \/ u \in req'[g].crossed \/ "sessions" \in excused'
        \/ Revoking(u)' # {}
        \/ /\ Revoking(u) = {} /\ since'[u] = since[u]
           /\ user[u].active => user'[u].active
  <2>1. pc[g] \in Bringing => pc[g] \in OfAccount
        BY DEF Bringing, OfAccount
  <2>. QED BY <1>1, <1>4, <1>5, <2>1
<1>7. Removing(g) =>
        req'[g].crossed # {} \/ \A v \in Users : OpenOwner(v) => OpenOwner(v)'
  <2>1. Removing(g) => pc[g] # "idle"
        BY DEF Removing, Changing
  <2>2. \A v \in Users \ X : OpenOwner(v) => OpenOwner(v)'
        BY DEF OpenOwner
  <2>. QED BY <1>1, <2>1, <2>2
<1>8. Reroling(g) =>
        \/ u \in req'[g].crossed
        \/ user[u].there => user'[u].there /\ user'[u].roles = user[u].roles
  <2>1. Reroling(g) => pc[g] \in OfAccount
        BY DEF Reroling, Changing, OfAccount
  <2>. QED BY <1>1, <1>4, <1>5, <2>1
<1>. QED BY <1>1, <1>2, <1>3, <1>6, <1>7, <1>8, OwnWaits

\* A set that changed by one element at most.
Bit(b) == IF b THEN 1 ELSE 0

LEMMA WithOne ==
    ASSUME NEW R, NEW x, IsFiniteSet(R), x \notin R, NEW S, S \ {x} = R
    PROVE  Cardinality(S) = Cardinality(R) + Bit(x \in S)
<1>1. CASE x \in S
  <2>1. S = R \cup {x}
        BY <1>1
  <2>2. Cardinality(R \cup {x}) = Cardinality(R) + 1
        BY FS_AddElement
  <2>. QED BY <1>1, <2>1, <2>2 DEF Bit
<1>2. CASE x \notin S
  <2>1. S = R /\ Cardinality(R) \in Nat
        BY <1>2, FS_CardinalityType
  <2>. QED BY <1>2, <2>1 DEF Bit
<1>. QED BY <1>1, <1>2

LEMMA OneMore ==
    ASSUME NEW S, NEW T, NEW x, IsFiniteSet(S), T \ {x} = S \ {x}
    PROVE  /\ Cardinality(S) \in Nat /\ Cardinality(T) \in Nat
           /\ Cardinality(T) = Cardinality(S) + Bit(x \in T) - Bit(x \in S)
<1>1. PICK R : R = S \ {x}
      OBVIOUS
<1>2. IsFiniteSet(R) /\ Cardinality(R) \in Nat /\ x \notin R
      BY <1>1, FS_RemoveElement, FS_CardinalityType
<1>3. Cardinality(S) = Cardinality(R) + Bit(x \in S)
      BY <1>1, <1>2, WithOne
<1>4. Cardinality(T) = Cardinality(R) + Bit(x \in T)
      BY <1>1, <1>2, WithOne
<1>. QED BY <1>2, <1>3, <1>4 DEF Bit

LEMMA SameBut ==
    ASSUME NEW S, NEW T, NEW x, S \ {x} = T \ {x}, x \notin S, x \notin T
    PROVE  S = T
<1>1. ASSUME NEW y PROVE y \in S <=> y \in T
      OBVIOUS
<1>. QED BY <1>1

LEMMA OthersTally ==
    ASSUME AccountsSound, NEW h \in Desks, OthersWait(h), NEW r
    PROVE  /\ Uncounted(r)' \ {h} = Uncounted(r) \ {h}
           /\ Taken(r)' \ {h} = Taken(r) \ {h}
           /\ Added(r)' \ {h} = Added(r) \ {h}
           /\ IsFiniteSet(Uncounted(r)) /\ IsFiniteSet(Taken(r))
           /\ IsFiniteSet(Added(r))
<1>1. ASSUME NEW g \in Desks, g # h
      PROVE  /\ pc'[g] = "count" /\ r \in req'[g].roles <=>
                  pc[g] = "count" /\ r \in req[g].roles
             /\ pc'[g] \in {"plus", "store roles"} /\ r \in req'[g].held <=>
                  pc[g] \in {"plus", "store roles"} /\ r \in req[g].held
             /\ pc'[g] = "store roles" /\ r \in req'[g].roles <=>
                  pc[g] = "store roles" /\ r \in req[g].roles
  <2>1. Waits(g)
        BY <1>1 DEF OthersWait
  <2>2. pc'[g] = pc[g]
        BY <2>1 DEF Waits
  <2>3. pc[g] \in Tallied => req'[g].roles = req[g].roles
        BY <2>1 DEF Waits, AccountsSound, OwnPart, Shaped, Tallied, Giving, Changing
  <2>4. pc[g] \in {"plus", "store roles"} => req'[g].held = req[g].held
        BY <2>1 DEF Waits, AccountsSound, OwnPart, Shaped, Reroling, Changing
  <2>. QED BY <2>2, <2>3, <2>4 DEF Tallied
<1>2. /\ Uncounted(r) \subseteq Busy /\ Taken(r) \subseteq Busy
      /\ Added(r) \subseteq Busy /\ IsFiniteSet(Busy)
      BY DEF Uncounted, Taken, Added, Busy, AccountsSound, AccountsTyped
<1>3. IsFiniteSet(Uncounted(r)) /\ IsFiniteSet(Taken(r)) /\ IsFiniteSet(Added(r))
      BY <1>2, FS_Subset
<1>. QED BY <1>1, <1>3 DEF Uncounted, Taken, Added

LEMMA OthersRevoke ==
    ASSUME AccountsSound, NEW h \in Desks, OthersWait(h), NEW u
    PROVE  Revoking(u)' \ {h} = Revoking(u) \ {h}
<1>1. ASSUME NEW g \in Desks, g # h
      PROVE  pc'[g] = "revoke" /\ req'[g].user = u <=>
               pc[g] = "revoke" /\ req[g].user = u
  <2>1. Waits(g) /\ pc'[g] = pc[g]
        BY <1>1 DEF OthersWait, Waits
  <2>2. pc[g] = "revoke" => req'[g].user = req[g].user
        BY <2>1 DEF Waits, AccountsSound, OwnPart, Shaped, OfAccount
  <2>. QED BY <2>1, <2>2
<1>. QED BY <1>1 DEF Revoking

\* A role's count and who holds it change as one request and one account do.
LEMMA Balance ==
    ASSUME AccountsSound, NEW h \in Desks, OthersWait(h), NEW u \in Users,
           NEW r \in Roles, Counted(r),
           \A v \in Users \ {u} : user'[v].there = user[v].there
                                    /\ user'[v].roles = user[v].roles,
           role'[r].count - role[r].count =
               Bit(u \in Holders(r)') - Bit(u \in Holders(r))
             - Bit(h \in Uncounted(r)') + Bit(h \in Uncounted(r))
             - Bit(h \in Taken(r)') + Bit(h \in Taken(r))
             + Bit(h \in Added(r)') - Bit(h \in Added(r)),
           role'[r].count \in Int
    PROVE  Counted(r)'
<1>1. Holders(r)' \ {u} = Holders(r) \ {u}
      BY DEF Holders
<1>2. IsFiniteSet(Holders(r)) /\ role[r].count \in Int
  <2>1. Holders(r) \subseteq People /\ IsFiniteSet(People) /\ role[r].count \in Int
        BY DEF Holders, People, AccountsSound, AccountsTyped
  <2>. QED BY <2>1, FS_Subset
<1>3. PICK H, H1 : H = Holders(r) /\ H1 = Holders(r)'
      OBVIOUS
<1>4. PICK U, U1 : U = Uncounted(r) /\ U1 = Uncounted(r)'
      OBVIOUS
<1>5. PICK T, T1 : T = Taken(r) /\ T1 = Taken(r)'
      OBVIOUS
<1>6. PICK A, A1 : A = Added(r) /\ A1 = Added(r)'
      OBVIOUS
<1>7. /\ Cardinality(H) \in Nat /\ Cardinality(H1) \in Nat
      /\ Cardinality(H1) = Cardinality(H) + Bit(u \in H1) - Bit(u \in H)
      BY <1>1, <1>2, <1>3, OneMore
<1>8. /\ Cardinality(U) \in Nat /\ Cardinality(U1) \in Nat
      /\ Cardinality(U1) = Cardinality(U) + Bit(h \in U1) - Bit(h \in U)
      BY <1>4, OthersTally, OneMore
<1>9. /\ Cardinality(T) \in Nat /\ Cardinality(T1) \in Nat
      /\ Cardinality(T1) = Cardinality(T) + Bit(h \in T1) - Bit(h \in T)
      BY <1>5, OthersTally, OneMore
<1>10. /\ Cardinality(A) \in Nat /\ Cardinality(A1) \in Nat
       /\ Cardinality(A1) = Cardinality(A) + Bit(h \in A1) - Bit(h \in A)
      BY <1>6, OthersTally, OneMore
<1>11. role[r].count = Cardinality(H) - Cardinality(U) - Cardinality(T)
                         + Cardinality(A)
      BY <1>3, <1>4, <1>5, <1>6 DEF Counted
<1>12. role'[r].count = Cardinality(H1) - Cardinality(U1) - Cardinality(T1)
                          + Cardinality(A1)
      BY <1>2, <1>3, <1>4, <1>5, <1>6, <1>7, <1>8, <1>9, <1>10, <1>11 DEF Bit
<1>. QED BY <1>3, <1>4, <1>5, <1>6, <1>12 DEF Counted

\* Live sessions stay current, save those of accounts that are being changed.
LEMMA SessionsStay ==
    ASSUME AccountsSound, excused \subseteq excused', NEW X \in SUBSET Users,
           \A s \in DOMAIN session' : s \in DOMAIN session /\ session'[s] = session[s],
           \A u \in Users \ X :
             /\ since'[u] = since[u] /\ (user[u].active => user'[u].active)
             /\ \/ Revoking(u) = {} \/ Revoking(u)' # {} \/ "sessions" \in excused',
           \A u \in X : \/ Revoking(u)' # {}
                        \/ \A s \in DOMAIN session' : session'[s].user # u
    PROVE  SessionsAreCurrent'
<1>1. ASSUME "sessions" \notin excused', NEW s \in DOMAIN session',
             NEW u, u = session'[s].user, Revoking(u)' = {}
      PROVE  since'[u] <= session'[s].born /\ user'[u].active
  <2>1. s \in DOMAIN session /\ session'[s] = session[s] /\ u \in Users
        BY <1>1 DEF AccountsSound, AccountsTyped
  <2>2. u \notin X /\ "sessions" \notin excused
        BY <1>1
  <2>3. Revoking(u) = {}
        BY <1>1, <2>1, <2>2
  <2>4. since[u] <= session[s].born /\ user[u].active
        BY <1>1, <2>1, <2>2, <2>3 DEF AccountsSound, SessionsAreCurrent, SessionsEnd
  <2>. QED BY <2>1, <2>2, <2>4
<1>. QED BY <1>1 DEF SessionsAreCurrent, SessionsEnd, Revoking

\* Desk h's step tells by how much a role's count must change.
Tells(h, r, d) ==
    d = - Bit(h \in Uncounted(r)') + Bit(h \in Uncounted(r))
        - Bit(h \in Taken(r)') + Bit(h \in Taken(r))
        + Bit(h \in Added(r)') - Bit(h \in Added(r))

LEMMA RecountedKeeps ==
    ASSUME AccountsSound, NEW h \in Desks, NEW rs, NEW by \in Int,
           role' = Recounted(rs, by), UNCHANGED <<user, session, epoch, since, excused>>,
           pc[h] # "revoke", pc'[h] # "revoke",
           pc' \in [Desks -> Labels], DOMAIN req' = Desks, IsFiniteSet(Busy'),
           OthersWait(h), There' = There => OwnPart(h)',
           \A r \in There : Tells(h, r, IF r \in rs THEN by ELSE 0)
    PROVE  AccountsSound'
<1>1. /\ DOMAIN role' = Roles
      /\ \A r \in Roles :
           /\ DOMAIN role'[r] = RoleFields
           /\ role'[r].there = role[r].there
           /\ role'[r].edited = role[r].edited /\ role'[r].perms = role[r].perms
           /\ role'[r].count = role[r].count + (IF r \in rs THEN by ELSE 0)
           /\ role[r].count \in Int /\ role'[r].count \in Int
  <2>1. DOMAIN role' = Roles
        BY DEF Recounted
  <2>2. SUFFICES ASSUME NEW r \in Roles
                 PROVE  /\ DOMAIN role'[r] = RoleFields
                        /\ role'[r].there = role[r].there
                        /\ role'[r].edited = role[r].edited
                        /\ role'[r].perms = role[r].perms
                        /\ role'[r].count = role[r].count + (IF r \in rs THEN by ELSE 0)
                        /\ role[r].count \in Int /\ role'[r].count \in Int
        BY <2>1
  <2>3. DOMAIN role[r] = RoleFields /\ role[r].count \in Int
        BY DEF AccountsSound, AccountsTyped
  <2>4. role'[r] = IF r \in rs THEN [role[r] EXCEPT !.count = role[r].count + by]
                   ELSE role[r]
        BY DEF Recounted
  <2>. QED BY <2>3, <2>4 DEF RoleFields
<1>2. There' = There /\ People' = People /\ \A r : Holders(r)' = Holders(r)
      BY <1>1 DEF There, People, Holders
<1>3. \A u : Revoking(u)' = Revoking(u)
      BY OthersRevoke DEF Revoking
<1>4. \A g \in Desks : g # h => OwnPart(g)'
  <2>1. \A g \in Desks : pc[g] = "sync" => req[g].todo \subseteq Roles
        BY DEF AccountsSound, OwnPart, Shaped
  <2>2. \A g \in Desks : pc[g] = "sync" =>
          \A r \in req[g].todo : ~role[r].edited => ~role'[r].edited
        BY <1>1, <2>1
  <2>3. PICK X \in SUBSET Users : X = {}
        OBVIOUS
  <2>4. \A g \in Desks : g # h /\ pc[g] # "idle" => X \subseteq req'[g].crossed
        BY <2>3
  <2>5. \A u \in Users \ X :
          /\ since'[u] = since[u] /\ (user[u].active => user'[u].active)
          /\ user[u].there => user'[u].there /\ user'[u].roles = user[u].roles
          /\ Revoking(u) = {} \/ Revoking(u)' # {} \/ "sessions" \in excused'
        BY <1>3
  <2>. QED BY <1>2, <2>2, <2>4, <2>5, OthersKeep
<1>5. AccountsTyped'
      BY <1>1, <1>2 DEF AccountsSound, AccountsTyped
<1>6. SessionsAreCurrent'
      BY <1>3, SessionsStay
<1>7. OneOwner'
      BY DEF AccountsSound, OneOwner, OpenOwner
<1>8. CountsInOrder'
  <2>1. SUFFICES ASSUME "counts" \notin excused, NEW r \in There PROVE Counted(r)'
        BY <1>2 DEF CountsInOrder
  <2>2. Counted(r) /\ r \in Roles
        BY <2>1 DEF AccountsSound, CountsInOrder, There
  <2>3. PICK d : d = IF r \in rs THEN by ELSE 0
        OBVIOUS
  <2>4. /\ d = - Bit(h \in Uncounted(r)') + Bit(h \in Uncounted(r))
               - Bit(h \in Taken(r)') + Bit(h \in Taken(r))
               + Bit(h \in Added(r)') - Bit(h \in Added(r))
        /\ role'[r].count = role[r].count + d
        BY <1>1, <2>2, <2>3 DEF Tells
  <2>5. Founders \subseteq Users /\ Founders # {}
        BY AccountsAssumption
  <2>6. PICK u \in Users : TRUE
        BY <2>5
  <2>7. Bit(u \in Holders(r)') - Bit(u \in Holders(r)) = 0
        BY <1>2 DEF Bit
  <2>8. role'[r].count - role[r].count =
               Bit(u \in Holders(r)') - Bit(u \in Holders(r))
             - Bit(h \in Uncounted(r)') + Bit(h \in Uncounted(r))
             - Bit(h \in Taken(r)') + Bit(h \in Taken(r))
             + Bit(h \in Added(r)') - Bit(h \in Added(r))
        BY <1>1, <2>2, <2>4, <2>7 DEF Bit
  <2>. QED BY <1>1, <2>2, <2>8, Balance
<1>9. EditedRolesKept'
      BY <1>1 DEF AccountsSound, EditedRolesKept
<1>. QED BY <1>2, <1>4, <1>5, <1>6, <1>7, <1>8, <1>9 DEF AccountsSound

\* Which of the tallies a desk is in, at each call.
LEMMA InTally ==
    ASSUME NEW h \in Desks, NEW r
    PROVE  /\ h \in Uncounted(r) <=> pc[h] = "count" /\ r \in req[h].roles
           /\ h \in Taken(r) <=> pc[h] \in {"plus", "store roles"} /\ r \in req[h].held
           /\ h \in Added(r) <=> pc[h] = "store roles" /\ r \in req[h].roles
           /\ h \in Uncounted(r)' <=> pc'[h] = "count" /\ r \in req'[h].roles
           /\ h \in Taken(r)' <=> pc'[h] \in {"plus", "store roles"} /\ r \in req'[h].held
           /\ h \in Added(r)' <=> pc'[h] = "store roles" /\ r \in req'[h].roles
  BY DEF Uncounted, Taken, Added

LEMMA CountDownKeeps ==
    ASSUME AccountsSound, NEW h \in Desks, CountDown(h) PROVE AccountsSound'
<1>1. /\ pc[h] = "minus" /\ Goto(h, "plus") /\ req' = req
      /\ role' = Recounted(req[h].held, -1)
      /\ UNCHANGED <<user, session, epoch, since, excused>>
      BY DEF CountDown, Held
<1>2. {"minus", "plus"} \subseteq Labels
      BY DEF Labels, OfAccount
<1>3. /\ pc' \in [Desks -> Labels] /\ DOMAIN req' = Desks
      /\ pc'[h] = "plus" /\ req'[h] = req[h]
      /\ OthersWait(h) /\ IsFiniteSet(Busy')
      BY <1>1, <1>2, Keeping
<1>4. ASSUME There' = There PROVE OwnPart(h)'
  <2>1. OwnPart(h)
        BY DEF AccountsSound
  <2>2. Shaped(h)'
        BY <1>1, <1>3, <1>4, <2>1 DEF OwnPart, Shaped, OfAccount, OfRole, Giving,
           Changing, Bringing, Reroling, Switching
  <2>3. HoldsAsRead(h)'
        BY <1>1, <1>3, <2>1 DEF OwnPart, HoldsAsRead, Reroling, Changing
  <2>4. LeavesOne(h)'
        BY <1>1, <1>3, <2>1 DEF OwnPart, LeavesOne, Removing, Changing, OpenOwner
  <2>. QED BY <1>3, <2>2, <2>3, <2>4, OwnChanging DEF Changing
<1>5. ASSUME NEW r \in There
      PROVE  Tells(h, r, IF r \in req[h].held THEN -1 ELSE 0)
  <2>1. /\ h \notin Uncounted(r)
        /\ h \notin Uncounted(r)'
        /\ h \notin Taken(r)
        /\ h \in Taken(r)' <=> r \in req[h].held
        /\ h \notin Added(r)
        /\ h \notin Added(r)'
        BY <1>1, <1>3, InTally
  <2>. QED BY <2>1 DEF Bit, Tells
<1>6. pc[h] # "revoke" /\ pc'[h] # "revoke"
      BY <1>1, <1>3
<1>7. /\ UNCHANGED <<user, session, epoch, since, excused>>
      /\ role' = Recounted(req[h].held, -1)
      BY <1>1
<1>. QED BY <1>3, <1>4, <1>5, <1>6, <1>7, RecountedKeeps

LEMMA CountUpKeeps ==
    ASSUME AccountsSound, NEW h \in Desks, CountUp(h) PROVE AccountsSound'
<1>1. /\ pc[h] = "plus" /\ Goto(h, "store roles") /\ req' = req
      /\ role' = Recounted(req[h].roles, 1)
      /\ UNCHANGED <<user, session, epoch, since, excused>>
      BY DEF CountUp
<1>2. {"plus", "store roles"} \subseteq Labels
      BY DEF Labels, OfAccount
<1>3. /\ pc' \in [Desks -> Labels] /\ DOMAIN req' = Desks
      /\ pc'[h] = "store roles" /\ req'[h] = req[h]
      /\ OthersWait(h) /\ IsFiniteSet(Busy')
      BY <1>1, <1>2, Keeping
<1>4. ASSUME There' = There PROVE OwnPart(h)'
  <2>1. OwnPart(h)
        BY DEF AccountsSound
  <2>2. Shaped(h)'
        BY <1>1, <1>3, <1>4, <2>1 DEF OwnPart, Shaped, OfAccount, OfRole, Giving,
           Changing, Bringing, Reroling, Switching
  <2>3. HoldsAsRead(h)'
        BY <1>1, <1>3, <2>1 DEF OwnPart, HoldsAsRead, Reroling, Changing
  <2>4. LeavesOne(h)'
        BY <1>1, <1>3, <2>1 DEF OwnPart, LeavesOne, Removing, Changing, OpenOwner
  <2>. QED BY <1>3, <2>2, <2>3, <2>4, OwnChanging DEF Changing
<1>5. ASSUME NEW r \in There
      PROVE  Tells(h, r, IF r \in req[h].roles THEN 1 ELSE 0)
  <2>1. /\ h \notin Uncounted(r)
        /\ h \notin Uncounted(r)'
        /\ h \in Taken(r) <=> r \in req[h].held
        /\ h \in Taken(r)' <=> r \in req[h].held
        /\ h \notin Added(r)
        /\ h \in Added(r)' <=> r \in req[h].roles
        BY <1>1, <1>3, InTally
  <2>. QED BY <2>1 DEF Bit, Tells
<1>6. pc[h] # "revoke" /\ pc'[h] # "revoke"
      BY <1>1, <1>3
<1>7. /\ UNCHANGED <<user, session, epoch, since, excused>>
      /\ role' = Recounted(req[h].roles, 1)
      BY <1>1
<1>8. /\ pc' \in [Desks -> Labels] /\ DOMAIN req' = Desks
      /\ OthersWait(h) /\ IsFiniteSet(Busy')
      BY <1>3
<1>. QED BY <1>4, <1>5, <1>6, <1>7, <1>8, RecountedKeeps

LEMMA CountNewUserKeeps ==
    ASSUME AccountsSound, NEW h \in Desks, CountNewUser(h) PROVE AccountsSound'
<1>1. /\ pc[h] = "count" /\ role' = Recounted(req[h].roles, 1)
      /\ UNCHANGED <<user, session, epoch, since, excused>>
      /\ (Goto(h, "invite") /\ req' = req) \/ Finish(h)
      BY DEF CountNewUser
<1>2. {"count", "invite", "idle"} \subseteq Labels
      BY DEF Labels, OfAccount
<1>3. /\ pc' \in [Desks -> Labels] /\ DOMAIN req' = Desks
      /\ \/ pc'[h] = "invite" /\ req'[h] = req[h]
         \/ pc'[h] = "idle" /\ req'[h] = NoRequest
      /\ OthersWait(h) /\ IsFiniteSet(Busy')
      BY <1>1, <1>2, Keeping, Stepping DEF Finish
<1>4. ASSUME There' = There PROVE OwnPart(h)'
  <2>1. CASE pc'[h] = "invite" /\ req'[h] = req[h]
    <3>1. Shaped(h)
          BY DEF AccountsSound, OwnPart
    <3>2. Shaped(h)'
          BY <1>1, <1>4, <2>1, <3>1 DEF Shaped, OfAccount, OfRole, Giving,
             Changing, Bringing, Reroling, Switching
    <3>. QED BY <2>1, <3>2, OwnShaped DEF Bringing, Changing
  <2>. QED BY <1>3, <2>1, OwnIdle
<1>5. ASSUME NEW r \in There
      PROVE  Tells(h, r, IF r \in req[h].roles THEN 1 ELSE 0)
  <2>1. /\ h \in Uncounted(r) <=> r \in req[h].roles
        /\ h \notin Uncounted(r)'
        /\ h \notin Taken(r)
        /\ h \notin Taken(r)'
        /\ h \notin Added(r)
        /\ h \notin Added(r)'
        BY <1>1, <1>3, InTally
  <2>. QED BY <2>1 DEF Bit, Tells
<1>6. pc[h] # "revoke" /\ pc'[h] # "revoke"
      BY <1>1, <1>3
<1>7. /\ UNCHANGED <<user, session, epoch, since, excused>>
      /\ role' = Recounted(req[h].roles, 1)
      BY <1>1
<1>. QED BY <1>3, <1>4, <1>5, <1>6, <1>7, RecountedKeeps

\* What was added and taken off is now what the account has, unless another
\* changed it meanwhile.
LEMMA StoreRolesKeeps ==
    ASSUME AccountsSound, NEW h \in Desks, StoreRoles(h) PROVE AccountsSound'
<1>1. PICK u : u = req[h].user
      OBVIOUS
<1>2. /\ pc[h] = "store roles" /\ Goto(h, "idle")
      /\ user' = [user EXCEPT ![u].roles = req[h].roles]
      /\ req' = Crossing(h, u, NoRequest) /\ excused' = Overlapped(h)
      /\ UNCHANGED <<role, session, epoch, since>>
      BY <1>1 DEF StoreRoles
<1>3. /\ OwnPart(h) /\ u \in Users /\ req[h].roles \subseteq There
      /\ "crossed" \in DOMAIN req[h]
      BY <1>1, <1>2 DEF AccountsSound, OwnPart, Shaped, OfAccount, Giving, Changing
<1>4. "idle" \in Labels
      BY DEF Labels
<1>5. /\ pc' \in [Desks -> Labels] /\ DOMAIN req' = Desks
      /\ pc'[h] = "idle" /\ req'[h] = NoRequest
      /\ OthersWait(h) /\ IsFiniteSet(Busy')
      /\ \A g \in Desks : g # h /\ pc[g] # "idle" => u \in req'[g].crossed
      BY <1>2, <1>4, CrossingAll
<1>6. /\ excused \subseteq excused'
      /\ req[h].crossed # {} => "owners" \in excused'
      /\ u \in req[h].crossed => "counts" \in excused'
      BY <1>1, <1>2 DEF Overlapped
<1>7. /\ DOMAIN user' = Users
      /\ \A v \in Users :
           /\ DOMAIN user'[v] = UserFields
           /\ user'[v].there = user[v].there /\ user'[v].active = user[v].active
           /\ user'[v].roles = IF v = u THEN req[h].roles ELSE user[v].roles
      BY <1>2, <1>3 DEF AccountsSound, AccountsTyped, UserFields
<1>8. There' = There /\ People' = People
  <2>1. There' = There
        BY <1>2 DEF There
  <2>. QED BY <1>7, <2>1 DEF People
<1>9. ASSUME NEW v PROVE Revoking(v)' = Revoking(v)
  <2>1. Revoking(v)' \ {h} = Revoking(v) \ {h}
        BY <1>5, OthersRevoke
  <2>2. h \notin Revoking(v)' /\ h \notin Revoking(v)
        BY <1>2, <1>5 DEF Revoking
  <2>. QED BY <2>1, <2>2, SameBut
<1>10. \A g \in Desks : g # h => OwnPart(g)'
  <2>1. PICK X \in SUBSET Users : X = {u}
        BY <1>3
  <2>2. \A g \in Desks : g # h /\ pc[g] # "idle" => X \subseteq req'[g].crossed
        BY <1>5, <2>1
  <2>3. \A v \in Users \ X :
          /\ since'[v] = since[v] /\ (user[v].active => user'[v].active)
          /\ user[v].there => user'[v].there /\ user'[v].roles = user[v].roles
          /\ Revoking(v) = {} \/ Revoking(v)' # {} \/ "sessions" \in excused'
        BY <1>2, <1>7, <1>9, <2>1
  <2>. QED BY <1>2, <1>5, <1>6, <1>8, <2>2, <2>3, OthersKeep
<1>11. AccountsTyped'
      BY <1>2, <1>3, <1>5, <1>7, <1>8 DEF AccountsSound, AccountsTyped
<1>12. SessionsAreCurrent'
  <2>1. PICK X \in SUBSET Users : X = {}
        OBVIOUS
  <2>2. \A v \in Users \ X :
          /\ since'[v] = since[v] /\ (user[v].active => user'[v].active)
          /\ Revoking(v) = {} \/ Revoking(v)' # {} \/ "sessions" \in excused'
    <3>1. since' = since
          BY <1>2
    <3>. QED BY <1>7, <1>9, <3>1
  <2>3. \A s \in DOMAIN session' : s \in DOMAIN session /\ session'[s] = session[s]
        BY <1>2
  <2>4. excused \subseteq excused' /\ \A v \in X : Revoking(v)' # {}
        BY <1>6, <2>1
  <2>. QED BY <2>2, <2>3, <2>4, SessionsStay
<1>13. OneOwner'
  <2>1. SUFFICES ASSUME "owners" \notin excused' PROVE \E v \in Users : OpenOwner(v)'
        BY DEF OneOwner
  <2>2. "owners" \notin excused /\ req[h].crossed = {}
        BY <1>6, <2>1
  <2>3. CASE OwnerRole \in req[h].roles
    <3>1. PICK v \in Users : OpenOwner(v)
          BY <2>2 DEF AccountsSound, OneOwner
    <3>. QED BY <1>7, <2>3, <3>1 DEF OpenOwner
  <2>4. CASE OwnerRole \notin req[h].roles
    <3>1. PICK v \in Users : v # u /\ OpenOwner(v)
          BY <1>1, <1>2, <1>3, <2>2, <2>4 DEF OwnPart, LeavesOne, Removing, Changing
    <3>. QED BY <1>7, <3>1 DEF OpenOwner
  <2>. QED BY <2>3, <2>4
<1>14. CountsInOrder'
  <2>1. SUFFICES ASSUME "counts" \notin excused', NEW r \in There PROVE Counted(r)'
        BY <1>8 DEF CountsInOrder
  <2>2. Counted(r) /\ r \in Roles /\ u \notin req[h].crossed
        BY <1>6, <2>1 DEF AccountsSound, CountsInOrder, There
  <2>3. user[u].there /\ user[u].roles = req[h].held
        BY <1>1, <1>2, <1>3, <2>2 DEF OwnPart, HoldsAsRead, Reroling, Changing
  <2>4. role[r].count \in Int /\ role'[r].count = role[r].count
        BY <1>2, <2>2 DEF AccountsSound, AccountsTyped
  <2>5. /\ u \in Holders(r)' <=> r \in req[h].roles
        /\ u \in Holders(r) <=> r \in req[h].held
        BY <1>3, <1>7, <2>3 DEF Holders
  <2>6. role'[r].count - role[r].count =
               Bit(u \in Holders(r)') - Bit(u \in Holders(r))
             - Bit(h \in Uncounted(r)') + Bit(h \in Uncounted(r))
             - Bit(h \in Taken(r)') + Bit(h \in Taken(r))
             + Bit(h \in Added(r)') - Bit(h \in Added(r))
    <3>1. /\ h \notin Uncounted(r)
          /\ h \notin Uncounted(r)'
          /\ h \in Taken(r) <=> r \in req[h].held
          /\ h \notin Taken(r)'
          /\ h \in Added(r) <=> r \in req[h].roles
          /\ h \notin Added(r)'
          BY <1>2, <1>5, InTally
    <3>. QED BY <2>4, <2>5, <3>1 DEF Bit
  <2>. QED BY <1>3, <1>5, <1>7, <2>2, <2>4, <2>6, Balance
<1>15. EditedRolesKept'
      BY <1>2, <1>6 DEF AccountsSound, EditedRolesKept
<1>16. OwnPart(h)'
      BY <1>5, OwnIdle
<1>. QED BY <1>10, <1>11, <1>12, <1>13, <1>14, <1>15, <1>16 DEF AccountsSound

-----------------------------------------------------------------------------
(* The other steps others go by: they change no count.                     *)

LEMMA CountsKept ==
    ASSUME AccountsSound, NEW h \in Desks, OthersWait(h),
           pc[h] \notin Tallied, pc'[h] \notin Tallied, excused \subseteq excused',
           \A u \in Users : user'[u].there = user[u].there
                              /\ user'[u].roles = user[u].roles,
           \A r \in There' : \/ r \in There /\ role'[r].count = role[r].count
                             \/ r \notin There /\ role'[r].count = 0
    PROVE  CountsInOrder'
<1>1. SUFFICES ASSUME "counts" \notin excused', NEW r \in There' PROVE Counted(r)'
      BY DEF CountsInOrder
<1>2. /\ Uncounted(r)' = Uncounted(r) /\ Taken(r)' = Taken(r)
      /\ Added(r)' = Added(r)
  <2>1. /\ Uncounted(r)' \ {h} = Uncounted(r) \ {h}
        /\ Taken(r)' \ {h} = Taken(r) \ {h} /\ Added(r)' \ {h} = Added(r) \ {h}
        BY OthersTally
  <2>2. /\ h \notin Uncounted(r) /\ h \notin Taken(r) /\ h \notin Added(r)
        /\ h \notin Uncounted(r)' /\ h \notin Taken(r)' /\ h \notin Added(r)'
    <3>1. pc[h] \notin {"count", "plus", "store roles"}
          /\ pc'[h] \notin {"count", "plus", "store roles"}
          BY DEF Tallied
    <3>. QED BY <3>1, InTally
  <2>3. Uncounted(r)' = Uncounted(r)
        BY <2>1, <2>2, SameBut
  <2>4. Taken(r)' = Taken(r)
        BY <2>1, <2>2, SameBut
  <2>5. Added(r)' = Added(r)
        BY <2>1, <2>2, SameBut
  <2>. QED BY <2>3, <2>4, <2>5
<1>3. Holders(r)' = Holders(r)
      BY DEF Holders
<1>4. CASE r \in There /\ role'[r].count = role[r].count
  <2>1. Counted(r)
        BY <1>1, <1>4 DEF AccountsSound, CountsInOrder
  <2>. QED BY <1>2, <1>3, <1>4, <2>1 DEF Counted
<1>5. CASE r \notin There /\ role'[r].count = 0
  <2>1. Holders(r) = {}
        BY <1>5 DEF Holders, AccountsSound, AccountsTyped
  <2>2. Uncounted(r) = {} /\ Taken(r) = {} /\ Added(r) = {}
        BY <1>5 DEF Uncounted, Taken, Added, AccountsSound, OwnPart, Shaped, Giving,
           Changing, Reroling
  <2>3. Cardinality({}) = 0
        BY FS_EmptySet
  <2>. QED BY <1>2, <1>3, <1>5, <2>1, <2>2, <2>3 DEF Counted
<1>. QED BY <1>1, <1>4, <1>5

\* A step that changes roles, and neither accounts nor sessions.
LEMMA RolesChange ==
    ASSUME AccountsSound, NEW h \in Desks, OthersWait(h),
           pc' \in [Desks -> Labels], DOMAIN req' = Desks, IsFiniteSet(Busy'),
           pc[h] \notin Loud, pc'[h] \notin Loud,
           UNCHANGED <<user, session, epoch, since>>, excused \subseteq excused',
           DOMAIN role' = Roles,
           \A r \in Roles :
             /\ DOMAIN role'[r] = RoleFields
             /\ role[r].there => role'[r].there /\ role'[r].count = role[r].count
             /\ ~role[r].there /\ role'[r].there => role'[r].count = 0
             /\ role'[r].count \in Int,
           \A g \in Desks : g # h /\ pc[g] = "sync" =>
             \/ "edits" \in excused'
             \/ \A r \in req[g].todo : ~role[r].edited => ~role'[r].edited,
           EditedRolesKept',
           There \subseteq There' => OwnPart(h)'
    PROVE  AccountsSound'
<1>1. There \subseteq There' /\ People' = People
      BY DEF There, People
<1>2. ASSUME NEW u PROVE Revoking(u)' = Revoking(u)
  <2>1. Revoking(u)' \ {h} = Revoking(u) \ {h}
        BY OthersRevoke
  <2>2. h \notin Revoking(u)' /\ h \notin Revoking(u)
        BY DEF Revoking, Loud
  <2>. QED BY <2>1, <2>2, SameBut
<1>3. PICK X \in SUBSET Users : X = {}
      OBVIOUS
<1>4. \A v \in Users \ X :
        /\ since'[v] = since[v] /\ (user[v].active => user'[v].active)
        /\ user[v].there => user'[v].there /\ user'[v].roles = user[v].roles
        /\ Revoking(v) = {} \/ Revoking(v)' # {} \/ "sessions" \in excused'
      BY <1>2
<1>5. \A g \in Desks : g # h => OwnPart(g)'
  <2>1. \A g \in Desks : g # h /\ pc[g] # "idle" => X \subseteq req'[g].crossed
        BY <1>3
  <2>. QED BY <1>1, <1>4, <2>1, OthersKeep
<1>6. AccountsTyped'
  <2>1. \A u \in Users : user[u].roles \subseteq There'
        BY <1>1 DEF AccountsSound, AccountsTyped
  <2>. QED BY <1>1, <2>1 DEF AccountsSound, AccountsTyped
<1>7. SessionsAreCurrent'
  <2>1. \A s \in DOMAIN session' : s \in DOMAIN session /\ session'[s] = session[s]
        OBVIOUS
  <2>2. \A v \in Users \ X :
          /\ since'[v] = since[v] /\ (user[v].active => user'[v].active)
          /\ Revoking(v) = {} \/ Revoking(v)' # {} \/ "sessions" \in excused'
        BY <1>4
  <2>3. \A v \in X : Revoking(v)' # {}
        BY <1>3
  <2>. QED BY <2>1, <2>2, <2>3, SessionsStay
<1>8. OneOwner'
      BY DEF AccountsSound, OneOwner, OpenOwner
<1>9. CountsInOrder'
  <2>1. \A r \in There' : \/ r \in There /\ role'[r].count = role[r].count
                          \/ r \notin There /\ role'[r].count = 0
        BY DEF There
  <2>. QED BY <2>1, CountsKept DEF Loud
<1>. QED BY <1>1, <1>5, <1>6, <1>7, <1>8, <1>9 DEF AccountsSound

\* The same of a request that is over with it.
LEMMA RolesChanged ==
    ASSUME AccountsSound, NEW h \in Desks, Finish(h), pc[h] \notin Loud,
           UNCHANGED <<user, session, epoch, since>>, excused \subseteq excused',
           DOMAIN role' = Roles,
           \A r \in Roles :
             /\ DOMAIN role'[r] = RoleFields
             /\ role[r].there => role'[r].there /\ role'[r].count = role[r].count
             /\ ~role[r].there /\ role'[r].there => role'[r].count = 0
             /\ role'[r].count \in Int,
           \A g \in Desks : g # h /\ pc[g] = "sync" =>
             \/ "edits" \in excused'
             \/ \A r \in req[g].todo : ~role[r].edited => ~role'[r].edited,
           EditedRolesKept'
    PROVE  AccountsSound'
<1>1. /\ pc' \in [Desks -> Labels] /\ DOMAIN req' = Desks
      /\ pc'[h] = "idle" /\ req'[h] = NoRequest
      /\ OthersWait(h) /\ IsFiniteSet(Busy')
      BY Stepping DEF Finish, Labels
<1>2. OwnPart(h)' /\ pc'[h] \notin Loud
      BY <1>1, OwnIdle DEF Loud, Tallied
<1>. QED BY <1>1, <1>2, RolesChange

LEMMA CreateRoleKeeps ==
    ASSUME AccountsSound, NEW h \in Desks, CreateRole(h) PROVE AccountsSound'
<1>1. PICK r : r = req[h].role
      OBVIOUS
<1>2. /\ pc[h] = "create role" /\ Finish(h)
      /\ UNCHANGED <<user, session, epoch, since, excused>>
      /\ role' = IF role[r].there THEN role
               ELSE [role EXCEPT ![r] = [there |-> TRUE, deleted |-> FALSE,
                       edited |-> FALSE, perms |-> "theirs", count |-> 0]]
      BY <1>1 DEF CreateRole
<1>3. r \in Roles /\ \A q \in Roles : DOMAIN role[q] = RoleFields /\ role[q].count \in Int
      BY <1>1, <1>2 DEF AccountsSound, AccountsTyped, OwnPart, Shaped, OfRole
<1>4. DOMAIN role' = Roles /\ \A q \in Roles :
        \/ role'[q] = role[q]
        \/ /\ ~role[q].there /\ role'[q].there /\ ~role'[q].edited
           /\ role'[q].count = 0 /\ DOMAIN role'[q] = RoleFields
      BY <1>2, <1>3 DEF AccountsSound, AccountsTyped, RoleFields
<1>5. EditedRolesKept'
      BY <1>2, <1>4 DEF AccountsSound, EditedRolesKept
<1>6. \A g \in Desks : pc[g] = "sync" => req[g].todo \subseteq Roles
      BY DEF AccountsSound, OwnPart, Shaped
<1>7. \A g \in Desks : pc[g] = "sync" =>
        \A q \in req[g].todo : ~role[q].edited => ~role'[q].edited
      BY <1>4, <1>6
<1>8. \A q \in Roles :
        /\ DOMAIN role'[q] = RoleFields
        /\ role[q].there => role'[q].there /\ role'[q].count = role[q].count
        /\ ~role[q].there /\ role'[q].there => role'[q].count = 0
        /\ role'[q].count \in Int
      BY <1>3, <1>4
<1>. QED BY <1>2, <1>4, <1>5, <1>7, <1>8, RolesChanged DEF Loud, Tallied

LEMMA UpdateRoleKeeps ==
    ASSUME AccountsSound, NEW h \in Desks, UpdateRole(h) PROVE AccountsSound'
<1>1. PICK r : r = req[h].role
      OBVIOUS
<1>2. /\ pc[h] = "edit role" /\ Finish(h)
      /\ UNCHANGED <<user, session, epoch, since>>
      /\ role' = IF ~role[r].there \/ r = OwnerRole THEN role
               ELSE [role EXCEPT ![r].perms = "theirs", ![r].edited = TRUE]
      /\ excused \subseteq excused'
      /\ Syncing(r) # {} => "edits" \in excused'
      BY <1>1 DEF UpdateRole, Excuse
<1>3. r \in Roles /\ \A q \in Roles : DOMAIN role[q] = RoleFields /\ role[q].count \in Int
      BY <1>1, <1>2 DEF AccountsSound, AccountsTyped, OwnPart, Shaped, OfRole
<1>4. DOMAIN role' = Roles /\ \A q \in Roles :
        /\ q # r => role'[q] = role[q]
        /\ DOMAIN role'[q] = RoleFields /\ role'[q].there = role[q].there
        /\ role'[q].count = role[q].count
        /\ role'[q] = role[q] \/ role'[q].perms = "theirs"
      BY <1>2, <1>3 DEF AccountsSound, AccountsTyped, RoleFields
<1>5. EditedRolesKept'
  <2>1. "edits" \notin excused' => "edits" \notin excused
        BY <1>2
  <2>2. ASSUME "edits" \notin excused', NEW q \in Roles, role'[q].edited
        PROVE  role'[q].perms = "theirs"
    <3>1. role[q].edited => role[q].perms = "theirs"
          BY <2>1, <2>2 DEF AccountsSound, EditedRolesKept
    <3>. QED BY <1>4, <2>2, <3>1
  <2>. QED BY <2>2 DEF EditedRolesKept
<1>6. \A g \in Desks : pc[g] = "sync" => req[g].todo \subseteq Roles
      BY DEF AccountsSound, OwnPart, Shaped
<1>7. \A g \in Desks : pc[g] = "sync" =>
        \/ "edits" \in excused'
        \/ \A q \in req[g].todo : ~role[q].edited => ~role'[q].edited
  <2>1. ASSUME NEW g \in Desks, pc[g] = "sync", "edits" \notin excused',
               NEW q \in req[g].todo, ~role[q].edited
        PROVE  ~role'[q].edited
    <3>1. q \in Roles /\ g \in Syncing(q)
          BY <1>6, <2>1 DEF Syncing
    <3>2. q # r
          BY <1>2, <2>1, <3>1
    <3>. QED BY <1>4, <2>1, <3>1, <3>2
  <2>. QED BY <2>1
<1>8. \A q \in Roles :
        /\ DOMAIN role'[q] = RoleFields
        /\ role[q].there => role'[q].there /\ role'[q].count = role[q].count
        /\ ~role[q].there /\ role'[q].there => role'[q].count = 0
        /\ role'[q].count \in Int
      BY <1>3, <1>4
<1>. QED BY <1>2, <1>4, <1>5, <1>7, <1>8, RolesChanged DEF Loud, Tallied

\* What is synced nobody has edited, unless that is excused.
LEMMA SyncRoleKeeps ==
    ASSUME AccountsSound, NEW h \in Desks, SyncRole(h) PROVE AccountsSound'
<1>1. /\ pc[h] = "sync" /\ UNCHANGED <<user, session, epoch, since, excused>>
      /\ "sync" \notin Loud /\ "sync" \in Labels
      BY DEF SyncRole, Loud, Tallied, Labels
<1>2. CASE Finish(h) /\ role' = role
      BY <1>1, <1>2, StillGentle, Finishing
<1>3. ASSUME NEW r \in req[h].todo,
             role' = [role EXCEPT ![r].perms = "shipped"],
             req' = [req EXCEPT ![h].todo = req[h].todo \ {r}], pc' = pc
      PROVE  AccountsSound'
  <2>. DEFINE own == [req[h] EXCEPT !.todo = req[h].todo \ {r}]
  <2>1. OwnPart(h) /\ Shaped(h)
        BY DEF AccountsSound, OwnPart
  <2>2. "todo" \in DOMAIN req[h] /\ "crossed" \in DOMAIN req[h] /\ r \in Roles
          /\ req[h].todo \subseteq Roles
        BY <1>1, <1>3, <2>1 DEF Shaped
  <2>3. DOMAIN own = DOMAIN req[h] /\ own.todo = req[h].todo \ {r}
        BY <2>2
  <2>4. req' = [req EXCEPT ![h] = own] /\ Goto(h, "sync")
        BY <1>1, <1>3 DEF Goto, AccountsSound, AccountsTyped
  <2>. HIDE DEF own
  <2>5. /\ pc' \in [Desks -> Labels] /\ DOMAIN req' = Desks
        /\ pc'[h] = "sync" /\ req'[h] = own
        /\ OthersWait(h) /\ IsFiniteSet(Busy')
        BY <1>1, <2>4, Stepping
  <2>6. DOMAIN role' = Roles /\ \A q \in Roles :
          /\ DOMAIN role'[q] = RoleFields /\ role'[q].there = role[q].there
          /\ role'[q].count = role[q].count /\ role[q].count \in Int
          /\ role'[q].edited = role[q].edited
          /\ q # r => role'[q] = role[q]
        BY <1>3, <2>2 DEF AccountsSound, AccountsTyped, RoleFields
  <2>7. EditedRolesKept'
        BY <1>1, <1>3, <2>1, <2>6 DEF AccountsSound, OwnPart, SyncsOthers,
           EditedRolesKept
  <2>8. OwnPart(h)'
    <3>1. There' = There
          BY <2>6 DEF There
    <3>2. Shaped(h)'
          BY <2>2, <2>3, <2>5 DEF Shaped, OfAccount, OfRole, Giving, Changing,
             Bringing, Reroling, Switching
    <3>3. SyncsOthers(h)'
          BY <1>1, <2>1, <2>2, <2>3, <2>5, <2>6 DEF OwnPart, SyncsOthers
    <3>. QED BY <2>5, <3>2, <3>3 DEF OwnPart, Bearing, Bringing, LeavesOne,
                Removing, HoldsAsRead, Reroling, Changing
  <2>9. \A g \in Desks : pc[g] = "sync" =>
          \A q \in req[g].todo : ~role[q].edited => ~role'[q].edited
    <3>1. \A g \in Desks : pc[g] = "sync" => req[g].todo \subseteq Roles
          BY DEF AccountsSound, OwnPart, Shaped
    <3>. QED BY <2>6, <3>1
  <2>. QED BY <1>1, <2>5, <2>6, <2>7, <2>8, <2>9, RolesChange
<1>. QED BY <1>1, <1>2, <1>3 DEF SyncRole

\* A new password, or a closed account: until the sessions are revoked, this
\* desk is known to be about to.
LEMMA RenewKeeps ==
    ASSUME AccountsSound, NEW h \in Desks, NEW u, u = req[h].user, NEW account,
           pc[h] \in {"change", "reset", "temporary", "switch"},
           Renew(h, account), DOMAIN account = UserFields,
           account.there = user[u].there, account.roles = user[u].roles,
           excused \subseteq excused',
           \/ user[u].active => account.active
           \/ "owners" \in excused'
           \/ \E v \in Users : v # u /\ OpenOwner(v)
    PROVE  AccountsSound'
<1>1. /\ Goto(h, "revoke") /\ user' = [user EXCEPT ![u] = account]
      /\ epoch' = [epoch EXCEPT ![u] = epoch[u] + 1]
      /\ since' = [since EXCEPT ![u] = epoch[u] + 1]
      /\ req' = Crossing(h, u, req[h]) /\ UNCHANGED <<role, session>>
      BY DEF Renew
<1>2. OwnPart(h) /\ Shaped(h) /\ u \in Users
      BY DEF AccountsSound, OwnPart, Shaped, OfAccount
<1>3. "revoke" \in Labels
      BY DEF Labels, OfAccount
<1>4. /\ pc' \in [Desks -> Labels] /\ DOMAIN req' = Desks
      /\ pc'[h] = "revoke" /\ req'[h] = req[h]
      /\ OthersWait(h) /\ IsFiniteSet(Busy')
      /\ \A g \in Desks : g # h /\ pc[g] # "idle" => u \in req'[g].crossed
      BY <1>1, <1>3, CrossingAll
<1>5. /\ DOMAIN user' = Users
      /\ epoch' \in [Users -> Int] /\ since' \in [Users -> Int]
      /\ \A v \in Users : since'[v] <= epoch'[v]
      /\ \A v \in Users :
           /\ DOMAIN user'[v] = UserFields
           /\ user'[v].there = user[v].there /\ user'[v].roles = user[v].roles
           /\ v # u => user'[v] = user[v] /\ since'[v] = since[v]
      /\ user'[u] = account
      BY <1>1, <1>2 DEF AccountsSound, AccountsTyped
<1>6. There' = There /\ People' = People
      BY <1>1, <1>5 DEF There, People
<1>7. PICK X \in SUBSET Users : X = {u}
      BY <1>2
<1>8. Revoking(u)' # {}
      BY <1>4 DEF Revoking
<1>9. \A v \in Users \ X :
        /\ since'[v] = since[v] /\ (user[v].active => user'[v].active)
        /\ user[v].there => user'[v].there /\ user'[v].roles = user[v].roles
        /\ Revoking(v) = {} \/ Revoking(v)' # {} \/ "sessions" \in excused'
  <2>1. SUFFICES ASSUME NEW v \in Users \ X, Revoking(v) # {} PROVE Revoking(v)' # {}
        BY <1>5, <1>7
  <2>2. Revoking(v)' \ {h} = Revoking(v) \ {h}
        BY <1>4, OthersRevoke
  <2>3. h \notin Revoking(v)
        BY DEF Revoking
  <2>. QED BY <2>1, <2>2, <2>3
<1>10. \A g \in Desks : g # h => OwnPart(g)'
  <2>1. \A g \in Desks : g # h /\ pc[g] # "idle" => X \subseteq req'[g].crossed
        BY <1>4, <1>7
  <2>2. \A g \in Desks : pc[g] = "sync" =>
          \A r \in req[g].todo : ~role[r].edited => ~role'[r].edited
        BY <1>1
  <2>. QED BY <1>4, <1>6, <1>9, <2>1, <2>2, OthersKeep
<1>11. AccountsTyped'
      BY <1>1, <1>4, <1>5, <1>6 DEF AccountsSound, AccountsTyped
<1>12. SessionsAreCurrent'
  <2>1. \A s \in DOMAIN session' : s \in DOMAIN session /\ session'[s] = session[s]
        BY <1>1
  <2>2. \A v \in Users \ X :
          /\ since'[v] = since[v] /\ (user[v].active => user'[v].active)
          /\ Revoking(v) = {} \/ Revoking(v)' # {} \/ "sessions" \in excused'
        BY <1>9
  <2>3. \A v \in X : Revoking(v)' # {}
        BY <1>7, <1>8
  <2>. QED BY <2>1, <2>2, <2>3, SessionsStay
<1>13. OneOwner'
  <2>1. SUFFICES ASSUME "owners" \notin excused' PROVE \E v \in Users : OpenOwner(v)'
        BY DEF OneOwner
  <2>2. PICK v \in Users : OpenOwner(v)
        BY <2>1 DEF AccountsSound, OneOwner
  <2>3. CASE user[u].active => account.active
        BY <1>5, <2>2, <2>3 DEF OpenOwner
  <2>4. CASE \E w \in Users : w # u /\ OpenOwner(w)
        BY <1>5, <2>4 DEF OpenOwner
  <2>. QED BY <2>1, <2>3, <2>4
<1>14. CountsInOrder'
  <2>1. pc[h] \notin Tallied /\ pc'[h] \notin Tallied
        BY <1>4 DEF Tallied
  <2>. QED BY <1>1, <1>4, <1>5, <1>6, <2>1, CountsKept
<1>15. EditedRolesKept'
      BY <1>1 DEF AccountsSound, EditedRolesKept
<1>16. OwnPart(h)'
  <2>1. Shaped(h)'
        BY <1>2, <1>4 DEF Shaped, OfAccount, OfRole, Giving, Changing, Bringing,
           Reroling, Switching
  <2>. QED BY <1>4, <2>1, OwnShaped DEF Bringing, Changing
<1>. QED BY <1>10, <1>11, <1>12, <1>13, <1>14, <1>15, <1>16 DEF AccountsSound

LEMMA StorePasswordKeeps ==
    ASSUME AccountsSound, NEW h \in Desks,
           StoreChange(h) \/ StoreReset(h) \/ StoreTemporary(h)
    PROVE  AccountsSound'
<1>1. PICK u : u = req[h].user
      OBVIOUS
<1>2. pc[h] \in {"change", "reset", "temporary"} /\ excused' = excused
      BY DEF StoreChange, StoreReset, StoreTemporary
<1>3. u \in Users /\ DOMAIN user[u] = UserFields
      BY <1>1, <1>2 DEF AccountsSound, AccountsTyped, OwnPart, Shaped, OfAccount
<1>4. CASE StoreChange(h)
      BY <1>1, <1>2, <1>3, <1>4, RenewKeeps DEF StoreChange
<1>5. CASE StoreReset(h)
  <2>1. PICK account : account = [user[u] EXCEPT
                         !.status = "active", !.reset = FALSE, !.locked = FALSE]
        OBVIOUS
  <2>2. /\ DOMAIN account = UserFields /\ account.there = user[u].there
        /\ account.roles = user[u].roles /\ account.active = user[u].active
        BY <1>3, <2>1 DEF UserFields
  <2>3. Renew(h, account)
        BY <1>1, <1>5, <2>1 DEF StoreReset
  <2>. QED BY <1>1, <1>2, <2>2, <2>3, RenewKeeps
<1>6. CASE StoreTemporary(h) /\ user[u].there
  <2>1. PICK account : account = [user[u] EXCEPT !.failed = 0, !.locked = FALSE]
        OBVIOUS
  <2>2. /\ DOMAIN account = UserFields /\ account.there = user[u].there
        /\ account.roles = user[u].roles /\ account.active = user[u].active
        BY <1>3, <2>1 DEF UserFields
  <2>3. Renew(h, account)
        BY <1>1, <1>6, <2>1 DEF StoreTemporary
  <2>. QED BY <1>1, <1>2, <2>2, <2>3, RenewKeeps
<1>7. CASE StoreTemporary(h) /\ ~user[u].there
  <2>1. Gentle /\ Finish(h) /\ pc[h] \notin Loud
        BY <1>1, <1>2, <1>7, StillGentle DEF StoreTemporary, Loud, Tallied
  <2>. QED BY <2>1, Finishing
<1>. QED BY <1>4, <1>5, <1>6, <1>7

\* Whoever closes an owner's account leaves another.
LEMMA SwitchKeeps ==
    ASSUME AccountsSound, NEW h \in Desks, Switch(h) PROVE AccountsSound'
<1>1. PICK u : u = req[h].user
      OBVIOUS
<1>2. pc[h] = "switch"
      BY DEF Switch
<1>3. u \in Users /\ DOMAIN user[u] = UserFields /\ OwnPart(h)
      BY <1>1, <1>2 DEF AccountsSound, AccountsTyped, OwnPart, Shaped, OfAccount
<1>4. CASE req[h].active
  <2>1. /\ user' = [user EXCEPT ![u].active = TRUE] /\ Finish(h)
        /\ UNCHANGED <<role, session, epoch, since, excused>>
        BY <1>1, <1>4 DEF Switch
  <2>2. Gentle
        BY <1>3, <2>1 DEF Gentle, AccountsSound, AccountsTyped, UserFields
  <2>. QED BY <1>2, <2>1, <2>2, Finishing DEF Loud, Tallied
<1>5. CASE ~req[h].active
  <2>1. PICK account : account = [user[u] EXCEPT !.active = FALSE]
        OBVIOUS
  <2>2. /\ DOMAIN account = UserFields /\ account.there = user[u].there
        /\ account.roles = user[u].roles
        BY <1>3, <2>1 DEF UserFields
  <2>3. Renew(h, account) /\ excused' = Overlapped(h)
        BY <1>1, <1>5, <2>1 DEF Switch
  <2>4. "owners" \in excused' \/ \E v \in Users : v # u /\ OpenOwner(v)
        BY <1>1, <1>2, <1>3, <1>5, <2>3 DEF Overlapped, OwnPart, LeavesOne, Removing
  <2>5. excused \subseteq excused'
        BY <2>3 DEF Overlapped
  <2>. QED BY <1>1, <1>2, <2>2, <2>3, <2>4, <2>5, RenewKeeps
<1>. QED BY <1>4, <1>5

\* No session of the account is left that came before, and those who will
\* yet bring one are told.
LEMMA RevokeAllKeeps ==
    ASSUME AccountsSound, NEW h \in Desks, RevokeAll(h) PROVE AccountsSound'
<1>1. PICK u : u = req[h].user
      OBVIOUS
<1>2. /\ pc[h] = "revoke" /\ Goto(h, "idle")
      /\ session' = Without(SessionsOf(u)) /\ req' = Crossing(h, u, NoRequest)
      /\ UNCHANGED <<user, role, epoch, since, excused>>
      BY <1>1 DEF RevokeAll, Revoked
<1>3. u \in Users /\ "idle" \in Labels
      BY <1>1, <1>2 DEF AccountsSound, OwnPart, Shaped, OfAccount, Labels
<1>4. /\ pc' \in [Desks -> Labels] /\ DOMAIN req' = Desks
      /\ pc'[h] = "idle" /\ req'[h] = NoRequest
      /\ OthersWait(h) /\ IsFiniteSet(Busy')
      /\ \A g \in Desks : g # h /\ pc[g] # "idle" => u \in req'[g].crossed
      BY <1>2, <1>3, CrossingAll
<1>5. \A s \in DOMAIN session' :
        s \in DOMAIN session /\ session'[s] = session[s] /\ session'[s].user # u
      BY <1>2 DEF Without, SessionsOf
<1>6. PICK X \in SUBSET Users : X = {u}
      BY <1>3
<1>7. \A v \in Users \ X :
        /\ since'[v] = since[v] /\ (user[v].active => user'[v].active)
        /\ user[v].there => user'[v].there /\ user'[v].roles = user[v].roles
        /\ Revoking(v) = {} \/ Revoking(v)' # {} \/ "sessions" \in excused'
  <2>1. SUFFICES ASSUME NEW v \in Users \ X, Revoking(v) # {} PROVE Revoking(v)' # {}
        BY <1>2
  <2>2. Revoking(v)' \ {h} = Revoking(v) \ {h}
        BY <1>4, OthersRevoke
  <2>3. h \notin Revoking(v)
        BY <1>1, <1>6, <2>1 DEF Revoking
  <2>. QED BY <2>1, <2>2, <2>3
<1>8. \A g \in Desks : g # h => OwnPart(g)'
  <2>1. \A g \in Desks : g # h /\ pc[g] # "idle" => X \subseteq req'[g].crossed
        BY <1>4, <1>6
  <2>2. There' = There
        BY <1>2 DEF There
  <2>. QED BY <1>2, <1>4, <1>7, <2>1, <2>2, OthersKeep
<1>9. AccountsTyped'
      BY <1>2, <1>4, <1>5 DEF AccountsSound, AccountsTyped, There, People
<1>10. SessionsAreCurrent'
      BY <1>2, <1>5, <1>6, <1>7, SessionsStay
<1>11. OneOwner' /\ EditedRolesKept'
      BY <1>2 DEF AccountsSound, OneOwner, OpenOwner, EditedRolesKept
<1>12. CountsInOrder'
  <2>1. pc[h] \notin Tallied /\ pc'[h] \notin Tallied /\ There' = There
        BY <1>2, <1>4 DEF Tallied, There
  <2>. QED BY <1>2, <1>4, <2>1, CountsKept
<1>13. OwnPart(h)'
      BY <1>4, OwnIdle
<1>. QED BY <1>8, <1>9, <1>10, <1>11, <1>12, <1>13 DEF AccountsSound

\* A request over and done with that leaves accounts and roles alone.
LEMMA Leaving ==
    ASSUME AccountsSound, NEW h \in Desks, Finish(h), UNCHANGED <<user, role, epoch, since>>,
           excused \subseteq excused',
           pc[h] \in Tallied => "counts" \in excused',
           pc[h] = "revoke" => "sessions" \in excused',
           \A s \in DOMAIN session' : session'[s].user \in Users,
           (\A u : "sessions" \in excused' \/ Revoking(u)' = Revoking(u))
             => SessionsAreCurrent'
    PROVE  AccountsSound'
<1>1. /\ pc' \in [Desks -> Labels] /\ DOMAIN req' = Desks
      /\ pc'[h] = "idle" /\ req'[h] = NoRequest
      /\ OthersWait(h) /\ IsFiniteSet(Busy')
      BY Stepping DEF Finish, Labels
<1>2. ASSUME NEW u, "sessions" \notin excused' PROVE Revoking(u)' = Revoking(u)
  <2>1. Revoking(u)' \ {h} = Revoking(u) \ {h}
        BY <1>1, OthersRevoke
  <2>2. h \notin Revoking(u)' /\ h \notin Revoking(u)
        BY <1>1, <1>2 DEF Revoking
  <2>. QED BY <2>1, <2>2, SameBut
<1>3. \A g \in Desks : g # h => OwnPart(g)'
  <2>1. PICK X \in SUBSET Users : X = {}
        OBVIOUS
  <2>2. \A g \in Desks : g # h /\ pc[g] # "idle" => X \subseteq req'[g].crossed
        BY <2>1
  <2>3. \A v \in Users \ X :
          /\ since'[v] = since[v] /\ (user[v].active => user'[v].active)
          /\ user[v].there => user'[v].there /\ user'[v].roles = user[v].roles
          /\ Revoking(v) = {} \/ Revoking(v)' # {} \/ "sessions" \in excused'
        BY <1>2
  <2>4. \A g \in Desks : pc[g] = "sync" =>
          \A r \in req[g].todo : ~role[r].edited => ~role'[r].edited
        OBVIOUS
  <2>5. There' = There
        BY DEF There
  <2>. QED BY <1>1, <2>2, <2>3, <2>4, <2>5, OthersKeep
<1>4. AccountsTyped'
      BY <1>1 DEF AccountsSound, AccountsTyped, There, People
<1>5. SessionsAreCurrent'
      BY <1>2
<1>6. OneOwner' /\ EditedRolesKept'
      BY DEF AccountsSound, OneOwner, OpenOwner, EditedRolesKept
<1>7. CountsInOrder'
  <2>1. CASE pc[h] \in Tallied
        BY <2>1 DEF CountsInOrder
  <2>2. CASE pc[h] \notin Tallied
    <3>1. pc'[h] \notin Tallied /\ There' = There
          BY <1>1 DEF Tallied, There
    <3>. QED BY <1>1, <2>2, <3>1, CountsKept
  <2>. QED BY <2>1, <2>2
<1>8. OwnPart(h)'
      BY <1>1, OwnIdle
<1>. QED BY <1>3, <1>4, <1>5, <1>6, <1>7, <1>8 DEF AccountsSound

\* What a request brings is current, unless it was crossed and nobody is
\* about to revoke what it brings.
LEMMA IssueTokensKeeps ==
    ASSUME AccountsSound, NEW h \in Desks, IssueTokens(h) PROVE AccountsSound'
<1>1. PICK u : u = req[h].user
      OBVIOUS
<1>2. PICK s0 : /\ DOMAIN session' = DOMAIN session \cup {s0}
                /\ session'[s0].user = u /\ session'[s0].born = req[h].born
                /\ \A t \in DOMAIN session : t # s0 => session'[t] = session[t]
      BY <1>1 DEF IssueTokens
<1>3. /\ pc[h] = "issue" /\ Finish(h) /\ UNCHANGED <<user, role, epoch, since>>
      /\ excused \subseteq excused'
      /\ u \in req[h].crossed /\ Revoking(u) = {} => "sessions" \in excused'
      BY <1>1 DEF IssueTokens, Excuse
<1>4. u \in Users /\ Bearing(h)
      BY <1>1, <1>3 DEF AccountsSound, OwnPart, Shaped, OfAccount
<1>5. \A s \in DOMAIN session' : session'[s].user \in Users
      BY <1>2, <1>4 DEF AccountsSound, AccountsTyped
<1>6. ASSUME \A v : "sessions" \in excused' \/ Revoking(v)' = Revoking(v)
      PROVE  SessionsAreCurrent'
  <2>1. ASSUME "sessions" \notin excused', NEW s \in DOMAIN session',
               NEW v, v = session'[s].user, Revoking(v)' = {}
        PROVE  since[v] <= session'[s].born /\ user[v].active
    <3>1. Revoking(v) = {} /\ "sessions" \notin excused
          BY <1>3, <1>6, <2>1
    <3>2. CASE s = s0
      <4>1. v = u /\ u \notin req[h].crossed
            BY <1>2, <1>3, <2>1, <3>1, <3>2
      <4>2. since[u] <= req[h].born /\ user[u].active
            BY <1>1, <1>3, <1>4, <3>1, <4>1 DEF Bearing, Bringing, Current
      <4>. QED BY <1>2, <3>2, <4>1, <4>2
    <3>3. CASE s # s0
      <4>1. s \in DOMAIN session /\ session'[s] = session[s]
            BY <1>2, <2>1, <3>3
      <4>. QED BY <2>1, <3>1, <4>1 DEF AccountsSound, SessionsAreCurrent, SessionsEnd
    <3>. QED BY <3>2, <3>3
  <2>2. user' = user /\ since' = since
        BY <1>3
  <2>. QED BY <2>1, <2>2 DEF SessionsAreCurrent, SessionsEnd, Revoking
<1>7. pc[h] \notin Tallied /\ pc[h] # "revoke"
      BY <1>3 DEF Tallied
<1>. QED BY <1>3, <1>5, <1>6, <1>7, Leaving

LEMMA AbortKeeps ==
    ASSUME AccountsSound, NEW h \in Desks, Abort(h) PROVE AccountsSound'
<1>1. /\ Finish(h) /\ UNCHANGED <<user, role, session, epoch, since>>
      /\ excused \subseteq excused'
      /\ pc[h] \in Tallied => "counts" \in excused'
      /\ pc[h] = "revoke" => "sessions" \in excused'
      BY DEF Abort, Tallied
<1>2. \A s \in DOMAIN session' : session'[s].user \in Users
      BY <1>1 DEF AccountsSound, AccountsTyped
<1>3. ASSUME \A v : "sessions" \in excused' \/ Revoking(v)' = Revoking(v)
      PROVE  SessionsAreCurrent'
  <2>1. ASSUME "sessions" \notin excused', NEW s \in DOMAIN session,
               NEW v, v = session[s].user, Revoking(v)' = {}
        PROVE  since[v] <= session[s].born /\ user[v].active
        BY <1>1, <1>3, <2>1 DEF AccountsSound, SessionsAreCurrent, SessionsEnd
  <2>2. user' = user /\ since' = since /\ session' = session
        BY <1>1
  <2>. QED BY <2>1, <2>2 DEF SessionsAreCurrent, SessionsEnd, Revoking
<1>. QED BY <1>1, <1>2, <1>3, Leaving

\* The new account's roles are counted by the next call.
LEMMA InsertUserKeeps ==
    ASSUME AccountsSound, NEW h \in Desks, InsertUser(h) PROVE AccountsSound'
<1>1. PICK u : u = req[h].user
      OBVIOUS
<1>2. /\ pc[h] = "insert" /\ UNCHANGED <<role, session, epoch, since, excused>>
      /\ "count" \in Labels /\ "insert" \notin Loud
      BY DEF InsertUser, Labels, OfAccount, Loud, Tallied
<1>3. OwnPart(h) /\ Shaped(h) /\ u \in Users /\ req[h].roles \subseteq There
      BY <1>1, <1>2 DEF AccountsSound, OwnPart, Shaped, OfAccount, Giving
<1>4. CASE user[u].there
  <2>1. Finish(h) /\ user' = user
        BY <1>1, <1>4 DEF InsertUser
  <2>. QED BY <1>2, <2>1, StillGentle, Finishing
<1>5. CASE ~user[u].there
  <2>1. PICK account :
          /\ DOMAIN account = UserFields /\ account.there /\ account.active
          /\ account.roles = req[h].roles
          /\ user' = [user EXCEPT ![u] = account]
    <3>1. PICK account : account =
            [there |-> TRUE, active |-> TRUE,
             status |-> IF req[h].invited THEN "invited" ELSE "active",
             roles |-> req[h].roles, failed |-> 0, locked |-> FALSE,
             reset |-> FALSE, invite |-> FALSE]
          OBVIOUS
    <3>2. user' = [user EXCEPT ![u] = account]
          BY <1>1, <1>5, <3>1 DEF InsertUser
    <3>3. /\ DOMAIN account = UserFields /\ account.there /\ account.active
          /\ account.roles = req[h].roles
          BY <3>1 DEF UserFields
    <3>. QED BY <3>2, <3>3
  <2>2. Goto(h, "count") /\ req' = req
        BY <1>1, <1>5 DEF InsertUser
  <2>3. /\ pc' \in [Desks -> Labels] /\ DOMAIN req' = Desks
        /\ pc'[h] = "count" /\ req'[h] = req[h]
        /\ OthersWait(h) /\ IsFiniteSet(Busy')
        BY <1>2, <2>2, Keeping
  <2>4. /\ DOMAIN user' = Users /\ user'[u] = account
        /\ \A v \in Users : v # u => user'[v] = user[v]
        /\ \A v \in Users : DOMAIN user[v] = UserFields /\ user[v].roles \subseteq There
        BY <1>3, <2>1 DEF AccountsSound, AccountsTyped
  <2>5. There' = There /\ People' \subseteq People \cup {u}
        BY <1>2, <2>4 DEF There, People
  <2>6. ASSUME NEW v PROVE Revoking(v)' = Revoking(v)
    <3>1. Revoking(v)' \ {h} = Revoking(v) \ {h}
          BY <2>3, OthersRevoke
    <3>2. h \notin Revoking(v)' /\ h \notin Revoking(v)
          BY <1>2, <2>3 DEF Revoking
    <3>. QED BY <3>1, <3>2, SameBut
  <2>7. PICK X \in SUBSET Users : X = {}
        OBVIOUS
  <2>8. \A v \in Users \ X :
          /\ since'[v] = since[v] /\ (user[v].active => user'[v].active)
          /\ user[v].there => user'[v].there /\ user'[v].roles = user[v].roles
          /\ Revoking(v) = {} \/ Revoking(v)' # {} \/ "sessions" \in excused'
    <3>1. SUFFICES ASSUME NEW v \in Users
                   PROVE  /\ user[v].active => user'[v].active
                          /\ user[v].there => user'[v].there /\ user'[v].roles = user[v].roles
          BY <1>2, <2>6
    <3>. QED BY <1>5, <2>1, <2>4
  <2>9. \A g \in Desks : g # h => OwnPart(g)'
    <3>1. \A g \in Desks : g # h /\ pc[g] # "idle" => X \subseteq req'[g].crossed
          BY <2>7
    <3>2. \A g \in Desks : pc[g] = "sync" =>
            \A r \in req[g].todo : ~role[r].edited => ~role'[r].edited
          BY <1>2
    <3>. QED BY <1>2, <2>3, <2>5, <2>8, <3>1, <3>2, OthersKeep
  <2>10. AccountsTyped'
    <3>1. IsFiniteSet(People')
      <4>1. IsFiniteSet(People \cup {u})
            BY FS_AddElement DEF AccountsSound, AccountsTyped
      <4>. QED BY <2>5, <4>1, FS_Subset
    <3>2. \A v \in Users : DOMAIN user'[v] = UserFields /\ user'[v].roles \subseteq There
          BY <1>3, <2>1, <2>4
    <3>. QED BY <1>2, <2>3, <2>4, <2>5, <3>1, <3>2 DEF AccountsSound, AccountsTyped
  <2>11. SessionsAreCurrent'
    <3>1. \A s \in DOMAIN session' : s \in DOMAIN session /\ session'[s] = session[s]
          BY <1>2
    <3>2. \A v \in Users \ X :
            /\ since'[v] = since[v] /\ (user[v].active => user'[v].active)
            /\ Revoking(v) = {} \/ Revoking(v)' # {} \/ "sessions" \in excused'
          BY <2>8
    <3>. QED BY <1>2, <2>7, <3>1, <3>2, SessionsStay
  <2>12. OneOwner'
    <3>1. SUFFICES ASSUME "owners" \notin excused PROVE \E v \in Users : OpenOwner(v)'
          BY <1>2 DEF OneOwner
    <3>2. PICK v \in Users : OpenOwner(v)
          BY <3>1 DEF AccountsSound, OneOwner
    <3>. QED BY <1>5, <2>4, <3>2 DEF OpenOwner
  <2>13. CountsInOrder'
    <3>1. SUFFICES ASSUME "counts" \notin excused, NEW r \in There PROVE Counted(r)'
          BY <1>2, <2>5 DEF CountsInOrder
    <3>2. Counted(r) /\ r \in Roles
          BY <3>1 DEF AccountsSound, CountsInOrder, There
    <3>3. role[r].count \in Int /\ role'[r].count = role[r].count
          BY <1>2, <3>2 DEF AccountsSound, AccountsTyped
    <3>4. u \notin Holders(r) /\ (u \in Holders(r)' <=> r \in req[h].roles)
          BY <1>3, <1>5, <2>1, <2>4 DEF Holders
    <3>5. /\ h \notin Uncounted(r) /\ (h \in Uncounted(r)' <=> r \in req[h].roles)
          /\ h \notin Taken(r) /\ h \notin Taken(r)'
          /\ h \notin Added(r) /\ h \notin Added(r)'
          BY <1>2, <2>3, InTally
    <3>6. role'[r].count - role[r].count =
               Bit(u \in Holders(r)') - Bit(u \in Holders(r))
             - Bit(h \in Uncounted(r)') + Bit(h \in Uncounted(r))
             - Bit(h \in Taken(r)') + Bit(h \in Taken(r))
             + Bit(h \in Added(r)') - Bit(h \in Added(r))
          BY <3>3, <3>4, <3>5 DEF Bit
    <3>. QED BY <1>3, <2>3, <2>4, <3>2, <3>3, <3>6, Balance
  <2>14. EditedRolesKept'
        BY <1>2 DEF AccountsSound, EditedRolesKept
  <2>15. OwnPart(h)'
    <3>1. Shaped(h)'
          BY <1>2, <1>3, <2>3, <2>5 DEF Shaped, OfAccount, OfRole, Giving, Changing,
             Bringing, Reroling, Switching
    <3>. QED BY <2>3, <3>1, OwnShaped DEF Bringing, Changing
  <2>. QED BY <2>9, <2>10, <2>11, <2>12, <2>13, <2>14, <2>15 DEF AccountsSound
<1>. QED BY <1>4, <1>5

-----------------------------------------------------------------------------
(* The step, and the theorems.                                             *)

LEMMA AccountsStep == ASSUME AccountsSound, [Next]_vars PROVE AccountsSound'
<1>1. CASE UNCHANGED vars
  <2>1. Gentle /\ pc' = pc /\ req' = req
        BY <1>1, StillGentle DEF vars
  <2>. QED BY <2>1, NobodyMoves
<1>2. ASSUME NEW h \in Desks, Visit(h) PROVE AccountsSound'
  <2>1. PICK u \in Users :
          \/ \E right \in BOOLEAN : SignIn(h, u, right)
          \/ ChangePassword(h, u) \/ FinishReset(h, u) \/ AcceptInvite(h, u)
          \/ \E want \in Wants : Ask(h, u, want)
        BY <1>2 DEF Visit
  <2>. QED BY <2>1, SignInKeeps, StartKeeps, AskKeeps
<1>3. ASSUME NEW h \in Desks, Continue(h) PROVE AccountsSound'
  <2>1. CASE \/ RecordMiss(h) \/ RecordSignIn(h) \/ IssueTokens(h) \/ RevokeRotated(h)
             \/ CheckHolder(h) \/ StoreChange(h) \/ StoreReset(h) \/ StoreTemporary(h)
             \/ RevokeAll(h) \/ StoreAccepted(h)
        BY <2>1, RecordMissKeeps, RecordSignInKeeps, IssueTokensKeeps,
           RevokeRotatedKeeps, CheckHolderKeeps, StorePasswordKeeps,
           RevokeAllKeeps, StoreAcceptedKeeps
  <2>2. CASE \/ CheckAddress(h) \/ ReadRoles(h) \/ EnforceAdminSeats(h)
             \/ InsertUser(h) \/ CountNewUser(h) \/ StoreInvite(h)
             \/ SendCredentials(h) \/ RenewInvitation(h)
        BY <2>2, CheckAddressKeeps, ReadRolesKeeps, EnforceAdminSeatsKeeps,
           InsertUserKeeps, CountNewUserKeeps, StoreInviteKeeps,
           SendCredentialsKeeps, RenewInvitationKeeps
  <2>3. CASE \/ ReadHeld(h) \/ ReadAccount(h) \/ CheckOtherOwners(h)
             \/ CountDown(h) \/ CountUp(h) \/ StoreRoles(h) \/ Switch(h)
        BY <2>3, ReadHeldKeeps, ReadAccountKeeps, CheckOtherOwnersKeeps,
           CountDownKeeps, CountUpKeeps, StoreRolesKeeps, SwitchKeeps
  <2>4. CASE \/ CreateRole(h) \/ UpdateRole(h) \/ CheckUnused(h)
             \/ DropRole(h) \/ ReadBuiltIn(h) \/ SyncRole(h) \/ Abort(h)
        BY <2>4, CreateRoleKeeps, UpdateRoleKeeps, CheckUnusedKeeps,
           DropRoleKeeps, ReadBuiltInKeeps, SyncRoleKeeps, AbortKeeps
  <2>. QED BY <1>3, <2>1, <2>2, <2>3, <2>4 DEF Continue
<1>4. ASSUME NEW h \in Desks, NEW s \in DOMAIN session, Refresh(h, s)
      PROVE  AccountsSound'
      BY <1>4, RefreshKeeps
<1>5. ASSUME NEW gone, SignOut(gone) PROVE AccountsSound'
      BY <1>5, SignOutKeeps
<1>6. ASSUME NEW u \in Users, StartReset(u) \/ LockExpires(u) PROVE AccountsSound'
      BY <1>6, AccountAloneKeeps
<1>. QED BY <1>1, <1>2, <1>3, <1>4, <1>5, <1>6 DEF Next

LEMMA AccountsAlways == Spec => []AccountsSound
<1>1. Init => AccountsSound
      BY AccountsStart
<1>2. AccountsSound /\ [Next]_vars => AccountsSound'
      BY AccountsStep
<1>. QED BY <1>1, <1>2, PTL DEF Spec

\* As long as no two changes of accounts overlapped, some open account holds
\* the owner role, whatever else is under way, fails or is refused: who is
\* about to take one away knows another (LeavesOne).
THEOREM AnOwnerIsLeft == Spec => []LastOwnerKept
<1>1. ASSUME AccountsSound PROVE LastOwnerKept
  <2>1. SUFFICES ASSUME "owners" \notin excused PROVE OwnerCount >= 1
        BY DEF LastOwnerKept, OwnerRemains
  <2>2. PICK v \in Users : OpenOwner(v)
        BY <1>1, <2>1 DEF AccountsSound, OneOwner
  <2>3. PICK all : all = {u \in Owners(Users) : user[u].active}
        OBVIOUS
  <2>4. v \in all /\ all \subseteq People
        BY <2>2, <2>3 DEF Owners, OpenOwner, People
  <2>5. IsFiniteSet(all)
        BY <1>1, <2>4, FS_Subset DEF AccountsSound, AccountsTyped
  <2>6. Cardinality(all) \in Nat /\ Cardinality(all) # 0
        BY <2>4, <2>5, FS_CardinalityType, FS_EmptySet
  <2>. QED BY <2>3, <2>6 DEF OwnerCount
<1>. QED BY <1>1, AccountsAlways, PTL

\* A role's user_count is how many hold it whenever no request is between two
\* of its updates (CountsInOrder has what is owed in between), and a shipped
\* role an institution edited is never overwritten, with the excuses stated.
THEOREM RolesStayInOrder == Spec => []RolesInOrder
<1>1. ASSUME AccountsSound PROVE RolesInOrder
  <2>1. ASSUME "counts" \notin excused,
               \A h \in Desks : pc[h] \notin {"count", "plus", "store roles"},
               NEW r \in Roles, role[r].there
        PROVE  role[r].count = Cardinality(Holders(r))
    <3>1. Counted(r)
          BY <1>1, <2>1 DEF AccountsSound, CountsInOrder, There
    <3>2. Uncounted(r) = {} /\ Taken(r) = {} /\ Added(r) = {}
          BY <2>1 DEF Uncounted, Taken, Added
    <3>3. IsFiniteSet(Holders(r))
      <4>1. Holders(r) \subseteq People
            BY DEF Holders, People
      <4>. QED BY <1>1, <4>1, FS_Subset DEF AccountsSound, AccountsTyped
    <3>4. Cardinality({}) = 0 /\ Cardinality(Holders(r)) \in Nat
          BY <3>3, FS_EmptySet, FS_CardinalityType
    <3>. QED BY <3>1, <3>2, <3>4 DEF Counted
  <2>. QED BY <1>1, <2>1 DEF RolesInOrder, UserCountsMatch, AccountsSound
<1>. QED BY <1>1, AccountsAlways, PTL

\* Every live session was opened no earlier than the last change, reset,
\* temporary password or closure of its account, and the account is open,
\* unless the session is being revoked or was issued by a request that such a
\* change crossed (IssueTokens) or was to be revoked by one that failed
\* (Abort).  It says nothing of a password that came with an invitation.
THEOREM SessionsStayCurrent == Spec => []SessionsAreCurrent
<1>1. ASSUME AccountsSound PROVE SessionsAreCurrent
      BY <1>1 DEF AccountsSound
<1>. QED BY <1>1, AccountsAlways, PTL
=============================================================================
