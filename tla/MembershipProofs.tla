-------------------------- MODULE MembershipProofs --------------------------
(***************************************************************************)
(* For any number of users, projects, secrets and calls: a user stays the  *)
(* owner of its own tenant, an invite is used once and listed while it can *)
(* be used, every group has an owner and nobody is a member of it twice.   *)
(*                                                                         *)
(* All are about what a call read and acts upon later.  The invariant Inv  *)
(* says what a pending call still knows: the row it removes or changes is  *)
(* of the same group and member, as ids are not used twice while a call    *)
(* names them; the invite it accepts was made.  Settled adds what it was   *)
(* allowed to do, and who of those about to join will own a group that has *)
(* no owner yet.                                                           *)
(***************************************************************************)
EXTENDS Membership, TLAPS, FiniteSetTheorems

OpenInvite(s) == acceptable[s] \notin {None, Never}
JoinsWith(c, s) == At(c, "join") /\ call[c].secret = s

RowsTold == \A r, q \in members : r = Row(r.id, r.group, r.member, r.role) /\ (r.id = q.id => r = q)
Shaped == DOMAIN call = Calls /\ DOMAIN acceptable = Secrets /\ DOMAIN joined = Secrets

\* The row of a pending call.
KnowsRow(c) ==
    "row" \in DOMAIN call[c] =>
        \A r \in members : r.id = call[c].row.id => r.group = call[c].row.group /\ r.member = call[c].row.member
HasRow(c) == At(c, "remove") \/ At(c, "update") => "row" \in DOMAIN call[c]
\* What was validated of it (tenantMemberRepository.validateDelete and validateUpdate).
Allowed(c) ==
    \A u \in Users : call[c].row.group = u /\ call[c].row.member = u =>
        ~At(c, "remove") /\ (At(c, "update") => call[c].role = "owner")

\* An invite that is accepted was made, for this group.
Accepts(c) ==
    At(c, "accept") =>
      /\ {"pc", "group", "secret"} \subseteq DOMAIN call[c]
      /\ call[c].secret \in Secrets /\ acceptable[call[c].secret] # Never
      /\ acceptable[call[c].secret] = None \/ acceptable[call[c].secret].group = call[c].group

\* Who joins with a secret deleted the invite, and was the only one.
UsedOnce(s) ==
    /\ acceptable[s] # None => joined[s] = {} /\ \A c \in Calls : ~JoinsWith(c, s)
    /\ joined[s] # {} => \A c \in Calls : ~JoinsWith(c, s)
    /\ \A c, d \in Calls : JoinsWith(c, s) /\ JoinsWith(d, s) => c = d
    /\ \E m : joined[s] \subseteq {m}

PendingKnown == \A c \in Calls : KnowsRow(c) /\ HasRow(c) /\ Allowed(c) /\ Accepts(c)
InvitesOnce == "overlap" \in mishap \/ \A s \in Secrets : UsedOnce(s)
Inv == RowsTold /\ Shaped /\ PendingKnown /\ InvitesOnce /\ InvitesListed

LEMMA InitInv == Init => Inv
<1> SUFFICES ASSUME Init PROVE Inv
    OBVIOUS
<1>1. PICK s \in Scenarios : members = s.members
  BY DEF Init
<1>2. RowsTold
  BY <1>1, ScenarioAssumption DEF RowsTold
<1>3. Shaped
  BY DEF Init, Shaped
<1>4. PendingKnown
  <2>1. ASSUME NEW c \in Calls PROVE call[c] = Idle
    BY DEF Init
  <2> QED BY <2>1 DEF PendingKnown, KnowsRow, HasRow, Allowed, Accepts, At, Idle
<1>5. InvitesOnce
  BY IdsAssumption DEF Init, InvitesOnce, UsedOnce, JoinsWith, At, Idle
<1>6. InvitesListed
  BY DEF Init, InvitesListed, Unless
<1> QED BY <1>2, <1>3, <1>4, <1>5, <1>6 DEF Inv

\* A call that names no row and no secret goes on.
LEMMA MoveInv ==
    ASSUME Inv, NEW c \in Calls, NEW rec, Go(c, rec), UNCHANGED <<members, acceptable, listed, joined>>,
           mishap \subseteq mishap',
           rec.pc \notin {"remove", "update", "accept"},
           rec.pc = "join" => rec.secret = None,
           "row" \in DOMAIN rec => "row" \in DOMAIN call[c] /\ rec.row = call[c].row
    PROVE  Inv'
<1>1. DOMAIN call' = Calls /\ \A d \in Calls : call'[d] = IF d = c THEN rec ELSE call[d]
  BY DEF Go, Inv, Shaped
<1>2. RowsTold' /\ Shaped' /\ InvitesListed'
  BY <1>1 DEF Inv, RowsTold, Shaped, InvitesListed, Unless
<1>3. ASSUME NEW d \in Calls PROVE KnowsRow(d)' /\ HasRow(d)' /\ Allowed(d)' /\ Accepts(d)'
  <2>1. KnowsRow(d) /\ HasRow(d) /\ Allowed(d) /\ Accepts(d)
    BY DEF Inv, PendingKnown
  <2>2. CASE d = c
    BY <1>1, <2>1, <2>2 DEF KnowsRow, HasRow, Allowed, Accepts, At
  <2>3. CASE d # c
    BY <1>1, <2>1, <2>3 DEF KnowsRow, HasRow, Allowed, Accepts, At
  <2> QED BY <2>2, <2>3
<1>4. ASSUME NEW d \in Calls, NEW s \in Secrets, JoinsWith(d, s)' PROVE JoinsWith(d, s)
  BY <1>1, <1>4, IdsAssumption DEF JoinsWith, At
<1>5. ASSUME NEW s \in Secrets, UsedOnce(s) PROVE UsedOnce(s)'
  BY <1>4, <1>5 DEF UsedOnce
<1>6. InvitesOnce'
  BY <1>5 DEF Inv, InvitesOnce
<1> QED BY <1>2, <1>3, <1>6 DEF Inv, PendingKnown

\* A call that removes or changes a row knows it.
LEMMA KnowInv ==
    ASSUME Inv, NEW c \in Calls, NEW rec, Go(c, rec), UNCHANGED <<members, acceptable, listed, joined, mishap>>,
           rec.pc \in {"remove", "update"}, "row" \in DOMAIN rec, rec.row \in members,
           \A u \in Users : rec.row.group = u /\ rec.row.member = u =>
               rec.pc # "remove" /\ (rec.pc = "update" => rec.role = "owner")
    PROVE  Inv'
<1>1. DOMAIN call' = Calls /\ \A d \in Calls : call'[d] = IF d = c THEN rec ELSE call[d]
  BY DEF Go, Inv, Shaped
<1>2. RowsTold' /\ Shaped' /\ InvitesListed'
  BY <1>1 DEF Inv, RowsTold, Shaped, InvitesListed, Unless
<1>3. ASSUME NEW d \in Calls PROVE KnowsRow(d)' /\ HasRow(d)' /\ Allowed(d)' /\ Accepts(d)'
  <2>1. KnowsRow(d) /\ HasRow(d) /\ Allowed(d) /\ Accepts(d)
    BY DEF Inv, PendingKnown
  <2>2. CASE d = c
    <3>1. call'[d] = rec
      BY <1>1, <2>2
    <3>2. KnowsRow(d)'
      BY <3>1 DEF KnowsRow, Inv, RowsTold
    <3>3. HasRow(d)' /\ Allowed(d)' /\ Accepts(d)'
      BY <3>1 DEF HasRow, Allowed, Accepts, At
    <3> QED BY <3>2, <3>3
  <2>3. CASE d # c
    BY <1>1, <2>1, <2>3 DEF KnowsRow, HasRow, Allowed, Accepts, At
  <2> QED BY <2>2, <2>3
<1>4. ASSUME NEW d \in Calls, NEW s \in Secrets, JoinsWith(d, s)' PROVE JoinsWith(d, s)
  BY <1>1, <1>4 DEF JoinsWith, At
<1>5. ASSUME NEW s \in Secrets, UsedOnce(s) PROVE UsedOnce(s)'
  BY <1>4, <1>5 DEF UsedOnce
<1>6. InvitesOnce'
  BY <1>5 DEF Inv, InvitesOnce
<1> QED BY <1>2, <1>3, <1>6 DEF Inv, PendingKnown

\* A new row is told apart from those there are, and those that calls name.
LEMMA CreateRowTold ==
    ASSUME Inv, NEW g, NEW m, NEW role, CreateRow(g, m, role)
    PROVE  /\ RowsTold'
           /\ members \subseteq members'
           /\ \A c \in Calls, r \in members' : "row" \in DOMAIN call[c] /\ r.id = call[c].row.id => r \in members
<1>1. CASE members' = members
  BY <1>1 DEF Inv, RowsTold
<1>2. CASE FreeIds # {} /\ members' = members \cup {Row(NewId, g, m, role)}
  <2>1. NewId \in FreeIds
    BY <1>2 DEF NewId
  <2>2. /\ \A r \in members : r.id # NewId
        /\ \A c \in Calls : "row" \in DOMAIN call[c] => call[c].row.id # NewId
    BY <2>1 DEF FreeIds
  <2>3. Row(NewId, g, m, role).id = NewId
    BY DEF Row
  <2>4. Row(NewId, g, m, role) = Row(NewId, Row(NewId, g, m, role).group, Row(NewId, g, m, role).member, Row(NewId, g, m, role).role)
    BY DEF Row
  <2> HIDE DEF Row
  <2>5. RowsTold'
    BY <1>2, <2>2, <2>3, <2>4 DEF Inv, RowsTold
  <2> QED BY <1>2, <2>2, <2>3, <2>5
<1> QED BY <1>1, <1>2 DEF CreateRow

LEMMA JoinInv ==
    ASSUME Inv, NEW c \in Calls, Join(c)
    PROVE  Inv'
<1>1. DOMAIN call' = Calls /\ \A d \in Calls : call'[d] = IF d = c THEN Idle ELSE call[d]
  BY DEF Join, Finish, Go, Inv, Shaped
<1>2. /\ CreateRow(call[c].group, call[c].member, RoleOrViewer(call[c].role))
      /\ mishap \subseteq mishap' /\ At(c, "join")
      /\ UNCHANGED <<acceptable, listed>>
      /\ joined' = IF call[c].secret = None THEN joined
                   ELSE [joined EXCEPT ![call[c].secret] = @ \cup {call[c].member}]
  BY DEF Join, Hap
<1>3. RowsTold' /\ Shaped' /\ InvitesListed'
  BY <1>1, <1>2, CreateRowTold DEF Inv, Shaped, InvitesListed, Unless
<1>4. ASSUME NEW d \in Calls PROVE KnowsRow(d)' /\ HasRow(d)' /\ Allowed(d)' /\ Accepts(d)'
  <2>1. KnowsRow(d) /\ HasRow(d) /\ Allowed(d) /\ Accepts(d)
    BY DEF Inv, PendingKnown
  <2>2. CASE d = c
    BY <1>1, <2>2 DEF KnowsRow, HasRow, Allowed, Accepts, At, Idle
  <2>3. CASE d # c
    <3>1. call'[d] = call[d]
      BY <1>1, <2>3
    <3>2. KnowsRow(d)'
      BY <3>1, <2>1, <1>2, CreateRowTold DEF KnowsRow
    <3>3. HasRow(d)' /\ Allowed(d)' /\ Accepts(d)'
      BY <3>1, <2>1, <1>2 DEF HasRow, Allowed, Accepts, At
    <3> QED BY <3>2, <3>3
  <2> QED BY <2>2, <2>3
<1>5. ASSUME NEW s \in Secrets, UsedOnce(s) PROVE UsedOnce(s)'
  <2>1. \A d \in Calls : JoinsWith(d, s)' => d # c /\ JoinsWith(d, s)
    BY <1>1 DEF JoinsWith, At, Idle
  <2>2. CASE call[c].secret = s
    <3>1. JoinsWith(c, s)
      BY <2>2, <1>2 DEF JoinsWith
    <3>2. acceptable[s] = None /\ joined[s] = {} /\ \A d \in Calls : JoinsWith(d, s) => d = c
      BY <3>1, <1>5 DEF UsedOnce
    <3>3. joined'[s] = {call[c].member}
      BY <3>2, <2>2, <1>2, IdsAssumption DEF Inv, Shaped
    <3> QED BY <2>1, <3>2, <3>3, <1>2 DEF UsedOnce
  <2>3. CASE call[c].secret # s
    <3>1. joined'[s] = joined[s]
      BY <2>3, <1>2 DEF Inv, Shaped
    <3> QED BY <2>1, <3>1, <1>2, <1>5 DEF UsedOnce
  <2> QED BY <2>2, <2>3
<1>6. InvitesOnce'
  BY <1>2, <1>5 DEF Inv, InvitesOnce
<1> QED BY <1>3, <1>4, <1>6 DEF Inv, PendingKnown

\* What a change of role leaves of a row.
Alike(r, q) == r.id = q.id /\ r.group = q.group /\ r.member = q.member /\ r = Row(r.id, r.group, r.member, r.role)
LEMMA RoleChanged ==
    ASSUME NEW q, NEW role, q = Row(q.id, q.group, q.member, q.role)
    PROVE  Alike([q EXCEPT !.role = role], q) /\ [q EXCEPT !.role = role].role = role
<1>1. [q EXCEPT !.role = role] = Row(q.id, q.group, q.member, role)
  BY DEF Row
<1>2. Row(q.id, q.group, q.member, role).role = role
  BY DEF Row
<1>3. Alike(Row(q.id, q.group, q.member, role), q)
  BY DEF Alike, Row
<1> QED BY <1>1, <1>2, <1>3

\* Rows are removed and changed by their ids.
LEMMA ChangeInv ==
    ASSUME Inv, NEW c \in Calls, RemoveWrite(c) \/ UpdateWrite(c)
    PROVE  Inv'
<1>1. DOMAIN call' = Calls /\ \A d \in Calls : call'[d] = IF d = c THEN Idle ELSE call[d]
  BY DEF RemoveWrite, UpdateWrite, Finish, Go, Inv, Shaped
<1>2. mishap \subseteq mishap' /\ UNCHANGED <<acceptable, listed, joined>>
  BY DEF RemoveWrite, UpdateWrite, Hap, invites
<1>3. \A r \in members' : \E q \in members : Alike(r, q)
  <2>1. CASE RemoveWrite(c)
    BY <2>1 DEF RemoveWrite, Inv, RowsTold, Alike
  <2>2. CASE UpdateWrite(c)
    <3>1. ASSUME NEW r \in members' PROVE \E q \in members : Alike(r, q)
      <4> DEFINE role == IF call[c].role = "unspecified" THEN call[c].row.role ELSE call[c].role
      <4>1. PICK q \in members : r = IF q.id # call[c].row.id THEN q ELSE [q EXCEPT !.role = role]
        BY <2>2 DEF UpdateWrite
      <4> HIDE DEF role
      <4>2. q = Row(q.id, q.group, q.member, q.role)
        BY DEF Inv, RowsTold
      <4> QED BY <4>1, <4>2, RoleChanged DEF Alike
    <3> QED BY <3>1
  <2> QED BY <2>1, <2>2
<1>4. ASSUME NEW r \in members', NEW q \in members', r.id = q.id PROVE r = q
  <2>1. CASE RemoveWrite(c)
    BY <1>4, <2>1 DEF RemoveWrite, Inv, RowsTold
  <2>2. CASE UpdateWrite(c)
    <3> DEFINE F(x) == IF x.id # call[c].row.id THEN x
                       ELSE [x EXCEPT !.role = IF call[c].role = "unspecified" THEN call[c].row.role ELSE call[c].role]
    <3>1. members' = {F(x) : x \in members}
      BY <2>2 DEF UpdateWrite
    <3>2. ASSUME NEW x \in members PROVE F(x).id = x.id
      <4>1. x = Row(x.id, x.group, x.member, x.role)
        BY DEF Inv, RowsTold
      <4> QED BY <4>1 DEF Row
    <3> HIDE DEF F
    <3>3. PICK x \in members : r = F(x)
      BY <3>1
    <3>4. PICK y \in members : q = F(y)
      BY <3>1
    <3>5. x = y
      BY <1>4, <3>2, <3>3, <3>4 DEF Inv, RowsTold
    <3> QED BY <3>3, <3>4, <3>5
  <2> QED BY <2>1, <2>2
<1>5. RowsTold' /\ Shaped' /\ InvitesListed'
  BY <1>1, <1>2, <1>3, <1>4 DEF Inv, RowsTold, Alike, Shaped, InvitesListed, Unless
<1>6. ASSUME NEW d \in Calls PROVE KnowsRow(d)' /\ HasRow(d)' /\ Allowed(d)' /\ Accepts(d)'
  <2>1. KnowsRow(d) /\ HasRow(d) /\ Allowed(d) /\ Accepts(d)
    BY DEF Inv, PendingKnown
  <2>2. CASE d = c
    BY <1>1, <2>2 DEF KnowsRow, HasRow, Allowed, Accepts, At, Idle
  <2>3. CASE d # c
    <3>1. call'[d] = call[d]
      BY <1>1, <2>3
    <3>2. KnowsRow(d)'
      BY <3>1, <2>1, <1>3 DEF KnowsRow, Alike
    <3>3. HasRow(d)' /\ Allowed(d)' /\ Accepts(d)'
      BY <3>1, <2>1, <1>2 DEF HasRow, Allowed, Accepts, At
    <3> QED BY <3>2, <3>3
  <2> QED BY <2>2, <2>3
<1>7. ASSUME NEW s \in Secrets, UsedOnce(s) PROVE UsedOnce(s)'
  <2>1. \A d \in Calls : JoinsWith(d, s)' => JoinsWith(d, s)
    BY <1>1 DEF JoinsWith, At, Idle
  <2> QED BY <2>1, <1>2, <1>7 DEF UsedOnce
<1>8. InvitesOnce'
  BY <1>2, <1>7 DEF Inv, InvitesOnce
<1> QED BY <1>5, <1>6, <1>8 DEF Inv, PendingKnown

\* An invite is made with a secret that was never used.
LEMMA InviteInv ==
    ASSUME Inv, NEW c \in Calls, NEW u \in Users, NEW g \in Groups, NEW role \in Requested, NEW s \in Secrets,
           Invite(c, u, g, role, s)
    PROVE  Inv'
<1> DEFINE new == [group |-> g, role |-> role]
<1>1. /\ acceptable[s] = Never /\ listed' = listed \cup {<<g, s>>}
      /\ DOMAIN acceptable' = Secrets
      /\ \A x \in Secrets : acceptable'[x] = IF x = s THEN new ELSE acceptable[x]
      /\ UNCHANGED <<members, joined, call, mishap>>
  BY DEF Invite, rows, Inv, Shaped
<1>2. new \notin {None, Never} /\ new.group = g
  BY IdsAssumption
<1> HIDE DEF new
<1>3. RowsTold' /\ Shaped'
  BY <1>1 DEF Inv, RowsTold, Shaped
<1>4. InvitesListed'
  BY <1>1, <1>2 DEF Inv, InvitesListed, Unless
<1>5. ASSUME NEW d \in Calls PROVE KnowsRow(d)' /\ HasRow(d)' /\ Allowed(d)' /\ Accepts(d)'
  <2>1. KnowsRow(d) /\ HasRow(d) /\ Allowed(d) /\ Accepts(d)
    BY DEF Inv, PendingKnown
  <2>2. KnowsRow(d)' /\ HasRow(d)' /\ Allowed(d)'
    BY <1>1, <2>1 DEF KnowsRow, HasRow, Allowed, At
  <2>3. Accepts(d)'
    BY <1>1, <2>1 DEF Accepts, At
  <2> QED BY <2>2, <2>3
<1>6. ASSUME NEW x \in Secrets, UsedOnce(x) PROVE UsedOnce(x)'
  BY <1>1, <1>6, IdsAssumption DEF UsedOnce, JoinsWith, At
<1>7. InvitesOnce'
  BY <1>1, <1>6 DEF Inv, InvitesOnce
<1> QED BY <1>3, <1>4, <1>5, <1>7 DEF Inv, PendingKnown

\* An invite is closed by its deletion, or when it expires.
LEMMA CloseInv ==
    ASSUME Inv, NEW s \in Secrets, acceptable[s] # Never, acceptable' = [acceptable EXCEPT ![s] = None],
           UNCHANGED <<members, joined, call>>, mishap \subseteq mishap', InvitesListed'
    PROVE  Inv'
<1>1. DOMAIN acceptable' = Secrets /\ \A x \in Secrets : acceptable'[x] = IF x = s THEN None ELSE acceptable[x]
  BY DEF Inv, Shaped
<1>2. RowsTold' /\ Shaped'
  BY <1>1 DEF Inv, RowsTold, Shaped
<1>3. ASSUME NEW d \in Calls PROVE KnowsRow(d)' /\ HasRow(d)' /\ Allowed(d)' /\ Accepts(d)'
  <2>1. KnowsRow(d) /\ HasRow(d) /\ Allowed(d) /\ Accepts(d)
    BY DEF Inv, PendingKnown
  <2>2. KnowsRow(d)' /\ HasRow(d)' /\ Allowed(d)'
    BY <2>1 DEF KnowsRow, HasRow, Allowed, At
  <2>3. Accepts(d)'
    BY <1>1, <2>1, IdsAssumption DEF Accepts, At
  <2> QED BY <2>2, <2>3
<1>4. ASSUME NEW x \in Secrets, UsedOnce(x) PROVE UsedOnce(x)'
  BY <1>1, <1>4 DEF UsedOnce, JoinsWith, At
<1>5. InvitesOnce'
  BY <1>4 DEF Inv, InvitesOnce
<1> QED BY <1>2, <1>3, <1>5 DEF Inv, PendingKnown

LEMMA ExpireInv ==
    ASSUME Inv, NEW s \in Secrets, Expire(s)
    PROVE  Inv'
<1>1. /\ acceptable' = [acceptable EXCEPT ![s] = None] /\ acceptable[s] # Never
      /\ listed' = {x \in listed : x[2] # s}
      /\ UNCHANGED <<members, joined, call, mishap>>
  BY DEF Expire, rows
<1>2. \A x \in Secrets : acceptable'[x] = IF x = s THEN None ELSE acceptable[x]
  BY <1>1 DEF Inv, Shaped
<1>3. InvitesListed'
  BY <1>1, <1>2 DEF Inv, InvitesListed, Unless
<1> QED BY <1>1, <1>3, CloseInv

LEMMA InviteDeleteInv ==
    ASSUME Inv, NEW c \in Calls, NEW u \in Users, NEW g \in Groups, NEW s \in Secrets, InviteDelete(c, u, g, s)
    PROVE  Inv'
<1>1. /\ acceptable' = [acceptable EXCEPT ![s] = None] /\ acceptable[s] # Never
      /\ listed' = listed \ {<<g, s>>}
      /\ UNCHANGED <<members, joined, call>>
      /\ mishap' = mishap \cup When(acceptable[s] # None /\ acceptable[s].group # g, "strayed")
  BY DEF InviteDelete, DeleteInvite, Hap, rows
<1>2. \A x \in Secrets : acceptable'[x] = IF x = s THEN None ELSE acceptable[x]
  BY <1>1 DEF Inv, Shaped
<1>3. InvitesListed'
  <2> SUFFICES ASSUME "strayed" \notin mishap'
               PROVE  listed' = {<<acceptable'[x].group, x>> : x \in {y \in Secrets : acceptable'[y] \notin {None, Never}}}
      BY DEF InvitesListed, Unless
  <2>1. "strayed" \notin mishap /\ (acceptable[s] = None \/ acceptable[s].group = g)
    BY <1>1 DEF When
  <2>2. listed = {<<acceptable[x].group, x>> : x \in {y \in Secrets : acceptable[y] \notin {None, Never}}}
    BY <2>1 DEF Inv, InvitesListed, Unless
  <2> QED BY <1>1, <1>2, <2>1, <2>2
<1> QED BY <1>1, <1>3, CloseInv

LEMMA InviteAcceptInv ==
    ASSUME Inv, NEW c \in Calls, NEW u \in Users, NEW s \in Secrets, InviteAccept(c, u, s)
    PROVE  Inv'
<1> DEFINE rec == [Joining(acceptable[s].group, u, acceptable[s].role, s) EXCEPT !.pc = "accept"]
<1>1. /\ acceptable[s] \notin {None, Never} /\ Go(c, rec)
      /\ UNCHANGED <<members, acceptable, listed, joined, mishap>>
  BY DEF InviteAccept, rows, invites
<1>2. /\ rec.pc = "accept" /\ rec.secret = s /\ rec.group = acceptable[s].group
      /\ {"pc", "group", "secret"} \subseteq DOMAIN rec /\ "row" \notin DOMAIN rec
  BY DEF Joining
<1> HIDE DEF rec
<1>3. DOMAIN call' = Calls /\ \A d \in Calls : call'[d] = IF d = c THEN rec ELSE call[d]
  BY <1>1 DEF Go, Inv, Shaped
<1>4. RowsTold' /\ Shaped' /\ InvitesListed'
  BY <1>1, <1>3 DEF Inv, RowsTold, Shaped, InvitesListed, Unless
<1>5. ASSUME NEW d \in Calls PROVE KnowsRow(d)' /\ HasRow(d)' /\ Allowed(d)' /\ Accepts(d)'
  <2>1. KnowsRow(d) /\ HasRow(d) /\ Allowed(d) /\ Accepts(d)
    BY DEF Inv, PendingKnown
  <2>2. CASE d = c
    BY <1>1, <1>2, <1>3, <2>2 DEF KnowsRow, HasRow, Allowed, Accepts, At
  <2>3. CASE d # c
    BY <1>1, <1>3, <2>1, <2>3 DEF KnowsRow, HasRow, Allowed, Accepts, At
  <2> QED BY <2>2, <2>3
<1>6. ASSUME NEW d \in Calls, NEW x \in Secrets, JoinsWith(d, x)' PROVE JoinsWith(d, x)
  BY <1>2, <1>3, <1>6 DEF JoinsWith, At
<1>7. ASSUME NEW x \in Secrets, UsedOnce(x) PROVE UsedOnce(x)'
  BY <1>1, <1>6, <1>7 DEF UsedOnce
<1>8. InvitesOnce'
  BY <1>1, <1>7 DEF Inv, InvitesOnce
<1> QED BY <1>4, <1>5, <1>8 DEF Inv, PendingKnown

\* Who deletes the invite first joins with it.
LEMMA AcceptDeleteInv ==
    ASSUME Inv, NEW c \in Calls, AcceptDelete(c)
    PROVE  Inv'
<1> DEFINE s == call[c].secret
           rec == [call[c] EXCEPT !.pc = "join"]
<1>1. At(c, "accept") /\ Accepts(c)
  BY DEF AcceptDelete, Inv, PendingKnown
<1>2. /\ {"pc", "group", "secret"} \subseteq DOMAIN call[c] /\ s \in Secrets /\ acceptable[s] # Never
      /\ acceptable[s] = None \/ acceptable[s].group = call[c].group
  BY <1>1 DEF Accepts
<1>3. /\ acceptable' = [acceptable EXCEPT ![s] = None]
      /\ listed' = listed \ {<<call[c].group, s>>}
      /\ Go(c, rec) /\ UNCHANGED <<members, joined>>
      /\ mishap' = mishap \cup When(acceptable[s] = None, "overlap")
  BY <1>2 DEF AcceptDelete, DeleteInvite, Hap, rows, Inv, Shaped
<1>4. rec.pc = "join" /\ rec.secret = s /\ ("row" \in DOMAIN rec => "row" \in DOMAIN call[c] /\ rec.row = call[c].row)
  BY <1>2
<1> HIDE DEF rec, s
<1>5. DOMAIN acceptable' = Secrets /\ \A x \in Secrets : acceptable'[x] = IF x = s THEN None ELSE acceptable[x]
  BY <1>2, <1>3 DEF Inv, Shaped
<1>6. DOMAIN call' = Calls /\ \A d \in Calls : call'[d] = IF d = c THEN rec ELSE call[d]
  BY <1>3 DEF Go, Inv, Shaped
<1>7. RowsTold' /\ Shaped'
  BY <1>3, <1>5, <1>6 DEF Inv, RowsTold, Shaped
<1>8. InvitesListed'
  <2> SUFFICES ASSUME "strayed" \notin mishap'
               PROVE  listed' = {<<acceptable'[x].group, x>> : x \in {y \in Secrets : acceptable'[y] \notin {None, Never}}}
      BY DEF InvitesListed, Unless
  <2>1. listed = {<<acceptable[x].group, x>> : x \in {y \in Secrets : acceptable[y] \notin {None, Never}}}
    BY <1>3 DEF Inv, InvitesListed, Unless
  <2> QED BY <1>2, <1>3, <1>5, <2>1
<1>9. ASSUME NEW d \in Calls PROVE KnowsRow(d)' /\ HasRow(d)' /\ Allowed(d)' /\ Accepts(d)'
  <2>1. KnowsRow(d) /\ HasRow(d) /\ Allowed(d) /\ Accepts(d)
    BY DEF Inv, PendingKnown
  <2>2. CASE d = c
    BY <1>3, <1>4, <1>6, <2>1, <2>2 DEF KnowsRow, HasRow, Allowed, Accepts, At
  <2>3. CASE d # c
    <3>1. KnowsRow(d)' /\ HasRow(d)' /\ Allowed(d)'
      BY <1>3, <1>6, <2>1, <2>3 DEF KnowsRow, HasRow, Allowed, At
    <3>2. Accepts(d)'
      BY <1>5, <1>6, <2>1, <2>3, IdsAssumption DEF Accepts, At
    <3> QED BY <3>1, <3>2
  <2> QED BY <2>2, <2>3
<1>10. ASSUME "overlap" \notin mishap', NEW x \in Secrets PROVE UsedOnce(x)'
  <2>1. UsedOnce(x) /\ UsedOnce(s)
    BY <1>2, <1>3, <1>10 DEF Inv, InvitesOnce
  <2>2. acceptable[s] # None
    BY <1>3, <1>10 DEF When
  <2>3. CASE x = s
    <3>1. joined[s] = {} /\ \A d \in Calls : ~JoinsWith(d, s)
      BY <2>1, <2>2 DEF UsedOnce
    <3>2. acceptable'[s] = None /\ joined'[s] = {}
      BY <1>2, <1>3, <1>5, <3>1
    <3>3. \A d \in Calls : (At(d, "join")' /\ call'[d].secret = s) => d = c
      BY <1>6, <3>1 DEF JoinsWith, At
    <3> QED BY <2>3, <3>2, <3>3 DEF UsedOnce, JoinsWith
  <2>4. CASE x # s
    <3>1. \A d \in Calls : (At(d, "join")' /\ call'[d].secret = x) => JoinsWith(d, x)
      BY <1>4, <1>6, <2>4 DEF JoinsWith, At
    <3> QED BY <2>1, <2>4, <3>1, <1>3, <1>5 DEF UsedOnce, JoinsWith
  <2> QED BY <2>3, <2>4
<1>11. InvitesOnce'
  BY <1>10 DEF InvitesOnce
<1> QED BY <1>7, <1>8, <1>9, <1>11 DEF Inv, PendingKnown

LEMMA NextInv == Inv /\ [Next]_vars => Inv'
<1> SUFFICES ASSUME Inv, [Next]_vars PROVE Inv'
    OBVIOUS
<1>1. ASSUME NEW c \in Calls,
             Join(c) \/ RemoveWrite(c) \/ UpdateWrite(c) \/ AcceptDelete(c)
      PROVE  Inv'
  BY <1>1, JoinInv, ChangeInv, AcceptDeleteInv
<1>2. ASSUME NEW c \in Calls, DeleteProjectWrite(c) \/ DeleteTenantWrite(c) \/ UseWrite(c) \/ Fail(c) PROVE Inv'
  <2>1. Go(c, Idle) /\ UNCHANGED <<members, acceptable, listed, joined>> /\ mishap \subseteq mishap'
    BY <1>2 DEF DeleteProjectWrite, DeleteTenantWrite, UseWrite, Fail, Finish, Hap, invites, rows
  <2> QED BY <2>1, MoveInv DEF Idle
<1>3. ASSUME NEW c \in Calls, LoginCreate(c) \/ CreateProvider(c) \/ PatchProvider(c) PROVE Inv'
  <2>1. PICK rec : /\ rec = Idle \/ \E pc \in {"patch", "lookup"} : rec = [call[c] EXCEPT !.pc = pc]
                   /\ Go(c, rec) /\ UNCHANGED <<members, acceptable, listed, joined, mishap>>
    <3>1. CASE LoginCreate(c)
      <4>1. CASE call[c].group \in tenants
        BY <3>1, <4>1 DEF LoginCreate, Finish, invites
      <4>2. CASE call[c].group \notin tenants
        BY <3>1, <4>2 DEF LoginCreate, invites
      <4> QED BY <4>1, <4>2
    <3>2. CASE CreateProvider(c)
      BY <3>2 DEF CreateProvider, invites
    <3>3. CASE PatchProvider(c)
      BY <3>3 DEF PatchProvider, invites
    <3> QED BY <1>3, <3>1, <3>2, <3>3
  <2>2. call[c].pc \in {"new", "provider", "patch"}
    BY <1>3 DEF LoginCreate, CreateProvider, PatchProvider, At
  <2>3. CASE rec = Idle
    BY <2>1, <2>3, MoveInv DEF Idle
  <2>4. ASSUME NEW pc \in {"patch", "lookup"}, rec = [call[c] EXCEPT !.pc = pc] PROVE Inv'
    <3>1. rec.pc \in {"new", "provider", "patch", "lookup"}
      BY <2>2, <2>4
    <3>2. "row" \in DOMAIN rec => "row" \in DOMAIN call[c] /\ rec.row = call[c].row
      BY <2>4
    <3> QED BY <2>1, <3>1, <3>2, MoveInv
  <2> QED BY <2>1, <2>3, <2>4
<1>4. ASSUME NEW c \in Calls, LookupOwner(c) PROVE Inv'
  <2> DEFINE t == call[c].group
  <2>1. UNCHANGED <<members, acceptable, listed, joined>>
    BY <1>4 DEF LookupOwner, rows, invites
  <2>2. CASE RowsOf(t, t) # {}
    <3>1. Go(c, Idle) /\ mishap \subseteq mishap'
      BY <1>4, <2>2 DEF LookupOwner, Finish, Hap
    <3> QED BY <2>1, <3>1, MoveInv DEF Idle
  <2>3. CASE RowsOf(t, t) = {}
    <3> DEFINE rec == Joining(t, t, "owner", None)
    <3>1. rec.pc = "join" /\ rec.secret = None /\ "row" \notin DOMAIN rec
      BY DEF Joining
    <3>2. Go(c, rec) /\ mishap' = mishap
      BY <1>4, <2>3 DEF LookupOwner
    <3> HIDE DEF rec
    <3> QED BY <2>1, <3>1, <3>2, MoveInv
  <2> QED BY <2>2, <2>3
\* Calls that begin: some name a row, some join without an invite, the others neither.
<1>5. ASSUME NEW c \in Calls, NEW u \in Users, NEW g \in Groups, NEW m \in TenantIds, RemoveMember(c, u, g, m) PROVE Inv'
  <2>1. PICK row \in RowsOf(g, m) :
           /\ IF g \in ProjectIds THEN MayRemoveFromProject(row) ELSE MayRemove(row)
           /\ Go(c, [pc |-> "remove", row |-> row, owners |-> Owners(g)])
    BY <1>5 DEF RemoveMember
  <2>2. UNCHANGED <<members, acceptable, listed, joined, mishap>>
    BY <1>5 DEF RemoveMember, rows, invites
  <2>3. row \in members /\ row.group = g /\ row.member = m
    BY DEF RowsOf
  <2>4. \A x \in Users : ~(row.group = x /\ row.member = x)
    BY <2>1, <2>3, IdsAssumption DEF MayRemove, OwnTenant, TenantIds
  <2> QED BY <2>1, <2>2, <2>3, <2>4, KnowInv
<1>6. ASSUME NEW c \in Calls, NEW u \in Users, NEW g \in Groups, NEW m \in TenantIds, NEW role \in Requested,
             UpdateMember(c, u, g, m, role)
      PROVE  Inv'
  <2>1. PICK row \in RowsOf(g, m) :
           /\ IF g \in ProjectIds THEN MayDemoteInProject(row, role) ELSE MayDemote(row, role)
           /\ Go(c, [pc |-> "update", row |-> row, owners |-> Owners(g), role |-> role])
    BY <1>6 DEF UpdateMember
  <2>2. UNCHANGED <<members, acceptable, listed, joined, mishap>>
    BY <1>6 DEF UpdateMember, rows, invites
  <2>3. row \in members /\ row.group = g /\ row.member = m
    BY DEF RowsOf
  <2>4. \A x \in Users : row.group = x /\ row.member = x => role = "owner"
    BY <2>1, <2>3, IdsAssumption DEF MayDemote, OwnTenant, TenantIds
  <2> QED BY <2>1, <2>2, <2>3, <2>4, KnowInv
<1>7. ASSUME NEW c \in Calls, NEW rec, Go(c, rec), UNCHANGED <<members, acceptable, listed, joined, mishap>>,
             \/ \E g, m, role : rec = Joining(g, m, role, None)
             \/ \E g, us, ps : rec = [pc |-> "delete", group |-> g, used |-> us, projects |-> ps]
             \/ \E g : rec = [pc |-> "use", group |-> g]
             \/ \E g, pc : pc \in {"lookup", "new", "provider"} /\ rec = [pc |-> pc, group |-> g]
      PROVE  Inv'
  <2>1. /\ rec.pc \notin {"remove", "update", "accept"} /\ "row" \notin DOMAIN rec
        /\ rec.pc = "join" => rec.secret = None
    BY <1>7 DEF Joining
  <2> QED BY <1>7, <2>1, MoveInv
<1>8. ASSUME NEW c \in Calls, NEW u \in Users, NEW p \in ProjectIds, NEW m \in TenantIds, NEW role \in Requested,
             UpdateInherited(c, u, p, m, role)
      PROVE  Inv'
  BY <1>7, <1>8 DEF UpdateInherited, rows, invites
<1>9. ASSUME NEW c \in Calls, NEW u \in Users, NEW t \in TenantIds, NEW p \in ProjectIds, CreateProject(c, u, t, p) PROVE Inv'
  BY <1>7, <1>9 DEF CreateProject, invites
<1>10. ASSUME NEW c \in Calls, NEW u \in Users, NEW t \in OtherTenants, CreateTenant(c, u, t) PROVE Inv'
  BY <1>7, <1>10 DEF CreateTenant, invites
<1>11. ASSUME NEW c \in Calls, NEW t \in OtherTenants, AdminCreateTenant(c, t) PROVE Inv'
  BY <1>7, <1>11 DEF AdminCreateTenant, invites
<1>12. ASSUME NEW c \in Calls, NEW t \in TenantIds, NEW m \in TenantIds, NEW role \in Requested, AdminAddMember(c, t, m, role) PROVE Inv'
  BY <1>7, <1>12 DEF AdminAddMember, rows, invites
<1>13. ASSUME NEW c \in Calls, NEW u \in Users, NEW g \in Groups, DeleteGroup(c, u, g) PROVE Inv'
  BY <1>7, <1>13 DEF DeleteGroup, rows, invites
<1>14. ASSUME NEW c \in Calls, NEW u \in Users, NEW p \in ProjectIds, UseProject(c, u, p) PROVE Inv'
  BY <1>7, <1>14 DEF UseProject, rows, invites
<1>15. ASSUME NEW c \in Calls, NEW u \in Users, Login(c, u) PROVE Inv'
  <2>1. PICK g, pc : /\ pc \in {"lookup", "new", "provider"} /\ Go(c, [pc |-> pc, group |-> g])
                     /\ UNCHANGED <<members, acceptable, listed, joined, mishap>>
    BY <1>15 DEF Login, rows, invites
  <2> QED BY <1>7, <2>1
<1>16. ASSUME NEW c \in Calls, StartReplica(c) PROVE Inv'
  <2>1. PICK g, pc : /\ pc \in {"lookup", "new", "provider"} /\ Go(c, [pc |-> pc, group |-> g])
                     /\ UNCHANGED <<members, acceptable, listed, joined, mishap>>
    BY <1>16 DEF StartReplica, rows, invites
  <2> QED BY <1>7, <2>1
<1>17. CASE UNCHANGED vars
  <2>1. UNCHANGED <<members, acceptable, listed, call, joined, mishap>>
    BY <1>17 DEF vars
  <2>2. RowsTold' /\ Shaped' /\ InvitesListed'
    BY <2>1 DEF Inv, RowsTold, Shaped, InvitesListed, Unless
  <2>3. PendingKnown'
    BY <2>1 DEF Inv, PendingKnown, KnowsRow, HasRow, Allowed, Accepts, At
  <2>4. InvitesOnce'
    BY <2>1 DEF Inv, InvitesOnce, UsedOnce, JoinsWith, At
  <2> QED BY <2>2, <2>3, <2>4 DEF Inv
<1> QED
  BY <1>1, <1>2, <1>3, <1>4, <1>5, <1>6, <1>8, <1>9, <1>10, <1>11, <1>12, <1>13, <1>14, <1>15, <1>16, <1>17,
     InviteInv, ExpireInv, InviteDeleteInv, InviteAcceptInv DEF Next

LEMMA InvAgree == Inv => InvitesAgree
<1> SUFFICES ASSUME Inv, "overlap" \notin mishap, NEW s \in Secrets PROVE Cardinality(joined[s]) <= 1
    BY DEF InvitesAgree, InviteOnce, Unless, Inv
<1>1. PICK m : joined[s] \subseteq {m}
  BY DEF Inv, InvitesOnce, UsedOnce
<1>2. joined[s] = {} \/ joined[s] = {m}
  BY <1>1
<1>3. Cardinality({}) = 0 /\ Cardinality({m}) = 1
  BY FS_EmptySet, FS_Singleton
<1> QED BY <1>2, <1>3

\* Without two users accepting it at the same time an invite lets one user join, and without a deletion in the name of
\* another group the owners see exactly the invites that can be accepted (invite-store.go, project and tenant services).
THEOREM InvitesUsedOnce == Spec => []InvitesAgree
<1>1. Init => Inv
  BY InitInv
<1>2. Inv /\ [Next]_vars => Inv'
  BY NextInv
<1>3. Inv => InvitesAgree
  BY InvAgree
<1> QED BY <1>1, <1>2, <1>3, PTL DEF Spec

LEMMA OwnRowKept ==
    ASSUME Inv, [Next]_vars, NEW u \in Users, "owner" \in RolesOf(u, u)
    PROVE  "owner" \in RolesOf(u, u)'
<1>1. PICK r \in members : r.group = u /\ r.member = u /\ r.role = "owner"
  BY DEF RolesOf, RowsOf
<1>2. SUFFICES r \in members'
  BY <1>1 DEF RolesOf, RowsOf
<1>3. ASSUME NEW c \in Calls, Join(c) PROVE r \in members'
  BY <1>3 DEF Join, CreateRow
<1>4. ASSUME NEW c \in Calls, RemoveWrite(c) PROVE r \in members'
  <2>1. call[c].row.id # r.id
    BY <1>1, <1>4 DEF RemoveWrite, Inv, PendingKnown, KnowsRow, HasRow, Allowed
  <2> QED BY <1>4, <2>1 DEF RemoveWrite
<1>5. ASSUME NEW c \in Calls, UpdateWrite(c) PROVE r \in members'
  <2>1. CASE call[c].row.id # r.id
    BY <1>5, <2>1 DEF UpdateWrite
  <2>2. CASE call[c].row.id = r.id
    <3>1. call[c].role = "owner"
      BY <1>1, <1>5, <2>2 DEF UpdateWrite, Inv, PendingKnown, KnowsRow, HasRow, Allowed
    <3>2. r = Row(r.id, r.group, r.member, r.role)
      BY DEF Inv, RowsTold
    <3>3. [r EXCEPT !.role = "owner"] = r
      BY <1>1, <3>2 DEF Row
    <3> QED BY <1>5, <2>2, <3>1, <3>3 DEF UpdateWrite
  <2> QED BY <2>1, <2>2
\* Every other step leaves the rows alone.
<1>6. ASSUME NEW c \in Calls,
             \/ AcceptDelete(c) \/ DeleteProjectWrite(c) \/ DeleteTenantWrite(c) \/ UseWrite(c)
             \/ LoginCreate(c) \/ StartReplica(c) \/ CreateProvider(c) \/ PatchProvider(c) \/ LookupOwner(c) \/ Fail(c)
      PROVE  members' = members
  BY <1>6 DEF rows, AcceptDelete, DeleteProjectWrite, DeleteTenantWrite, UseWrite, LoginCreate, StartReplica,
         CreateProvider, PatchProvider, LookupOwner, Fail
<1>7. ASSUME NEW c \in Calls, NEW v, NEW g, NEW m, NEW role, NEW s,
             \/ RemoveMember(c, v, g, m) \/ UpdateMember(c, v, g, m, role) \/ UpdateInherited(c, v, g, m, role)
             \/ Invite(c, v, g, role, s) \/ InviteDelete(c, v, g, s) \/ InviteAccept(c, v, s)
             \/ CreateProject(c, v, m, g) \/ CreateTenant(c, v, m) \/ DeleteGroup(c, v, g) \/ UseProject(c, v, g)
             \/ Login(c, v) \/ AdminCreateTenant(c, m) \/ AdminAddMember(c, g, m, role) \/ Expire(s)
      PROVE  members' = members
  BY <1>7 DEF rows, RemoveMember, UpdateMember, UpdateInherited, Invite, InviteDelete, InviteAccept, CreateProject,
         CreateTenant, DeleteGroup, UseProject, Login, AdminCreateTenant, AdminAddMember, Expire
<1>8. CASE \E c \in Calls :
             \/ Join(c) \/ RemoveWrite(c) \/ UpdateWrite(c) \/ AcceptDelete(c)
             \/ DeleteProjectWrite(c) \/ DeleteTenantWrite(c) \/ UseWrite(c)
             \/ LoginCreate(c) \/ StartReplica(c) \/ CreateProvider(c) \/ PatchProvider(c) \/ LookupOwner(c)
             \/ Fail(c)
  BY <1>3, <1>4, <1>5, <1>6, <1>8
<1>9. ASSUME NEW s \in Secrets, Expire(s) PROVE r \in members'
  BY <1>9 DEF Expire, rows
<1>10. CASE UNCHANGED vars
  BY <1>10 DEF vars
<1> QED BY <1>7, <1>8, <1>9, <1>10 DEF Next

\* No removal or change of members, by whomever and in whatever order, takes the owner role in its own tenant from a
\* user (tenant-member-validation.go validateDelete and validateUpdate).
THEOREM UsersKeepTheirTenant == Spec => OwnTenantKept
<1>1. Init => Inv
  BY InitInv
<1>2. Inv /\ [Next]_vars => Inv'
  BY NextInv
<1>3. Inv /\ [Next]_vars => \A u \in Users : "owner" \in RolesOf(u, u) => "owner" \in RolesOf(u, u)'
  BY OwnRowKept
<1> QED BY <1>1, <1>2, <1>3, PTL DEF Spec, OwnTenantKept

-----------------------------------------------------------------------------
(* Who is in a group.  The rest of what a call read before it acts: the    *)
(* member it adds was none, the group it deletes was empty, the row it     *)
(* changes was not the last owner's.                                       *)

Asked == Roles \cup {"unspecified"}
RowSet == [id : 1..MaxRows, group : Groups, member : TenantIds, role : Roles]

\* What IsLastOwner saw of the owners of the group (checkIfMemberIsLastOwner).
Guarded(rec) ==
    /\ \A r \in rec.owners : r.id = rec.row.id => r = rec.row
    /\ rec.row.role = "owner" /\ (rec.pc = "update" => rec.role # "owner") => \E r \in rec.owners : r.id # rec.row.id

CallOK(rec) ==
    /\ rec.pc \in {"new", "lookup", "provider", "patch"} =>
         /\ DOMAIN rec = {"pc", "group"} /\ rec.group \in TenantIds
         /\ rec.pc \in {"provider", "patch"} => rec.group = Provider
    /\ rec.pc \in {"join", "accept"} =>
         /\ DOMAIN rec = {"pc", "group", "member", "role", "secret", "rows"}
         /\ rec.group \in Groups /\ rec.member \in TenantIds /\ rec.role \in Asked /\ rec.rows = {}
    /\ rec.pc \in {"remove", "update"} => rec.row \in RowSet /\ Guarded(rec)
    /\ rec.pc = "update" => rec.role \in Asked
    /\ rec.pc = "delete" =>
         /\ rec.group \in Groups /\ rec.group \notin rec.used
         /\ rec.group \in TenantIds => \A p \in ProjectIds : rec.projects[p] # rec.group
    /\ rec.pc = "use" => rec.group \in ProjectIds

CallsOK == \A c \in Calls : CallOK(call[c])
\* A project that was never created has no members, so its first one is no member twice.
RowsOfUsed == \A r \in members : r.group \in ProjectIds => projects[r.group] # Never

\* An owner is about to join, who will be let in.
Founding(c, g) ==
    /\ At(c, "join") /\ call[c].group = g /\ call[c].role = "owner"
    /\ \/ call[c].member \in Users \cap tenants
       \/ call[c].member = g
       \/ g \in ProjectIds /\ call[c].member = projects[g]
Looking(c, g) == At(c, "lookup") /\ call[c].group = g

Excuses == {"raced", "halfway", "stale", "evicted", "demoted"}
Calm == mishap \cap Excuses = {}
Comes(c, g) == Founding(c, g) \/ Looking(c, g)
Owned == Calm => \A g \in Groups : There(g) => Owners(g) # {} \/ \E c \in Calls : Comes(c, g)

RowsTyped ==
    /\ tenants \subseteq TenantIds /\ labelled \in BOOLEAN
    /\ projects \in [ProjectIds -> TenantIds \cup {None, Never}]
    /\ members \subseteq RowSet
    /\ used \subseteq ProjectIds
    /\ mishap \subseteq Mishaps
InvitesTyped ==
    /\ acceptable \in [Secrets -> [group : Groups, role : Roles] \cup {None, Never}]
    /\ listed \subseteq Groups \X Secrets
Settled == RowsTyped /\ CallsOK /\ RowsOfUsed /\ SingleMembership /\ NothingOrphaned /\ Owned

LEMMA InitSettled == Init => Settled /\ InvitesTyped
<1> SUFFICES ASSUME Init PROVE Settled /\ InvitesTyped
    OBVIOUS
<1>1. PICK s \in Scenarios : tenants = s.tenants /\ labelled = s.labelled /\ projects = s.projects /\ members = s.members
  BY DEF Init
<1>2. RowsTyped
  <2>1. ASSUME NEW r \in members PROVE r \in RowSet
    <3>1. /\ r.id \in 1..MaxRows /\ r.member \in TenantIds /\ r.role \in Roles /\ r.group \in Groups
          /\ r = Row(r.id, r.group, r.member, r.role)
      BY <1>1, ScenarioAssumption DEF Groups
    <3>2. Row(r.id, r.group, r.member, r.role) \in RowSet
      BY <3>1 DEF Row, RowSet
    <3> QED BY <3>1, <3>2
  <2>2. projects \in [ProjectIds -> TenantIds \cup {None, Never}]
    <3>1. projects \in [ProjectIds -> s.tenants \cup {None, Never}] /\ s.tenants \subseteq TenantIds
      BY <1>1, ScenarioAssumption
    <3> QED BY <3>1
  <2>3. tenants \subseteq TenantIds /\ labelled \in BOOLEAN
    BY <1>1, ScenarioAssumption
  <2> QED BY <2>1, <2>2, <2>3 DEF RowsTyped, Init
<1>3. CallsOK
  <2>1. ASSUME NEW c \in Calls PROVE call[c] = Idle
    BY DEF Init
  <2> QED BY <2>1 DEF CallsOK, CallOK, Idle
<1>4. RowsOfUsed
  <2>1. ASSUME NEW r \in members PROVE r.group \in TenantIds \/ (r.group \in ProjectIds /\ projects[r.group] # Never)
    BY <1>1, ScenarioAssumption
  <2> QED BY <2>1, IdsAssumption DEF RowsOfUsed
<1>5. SingleMembership
  BY <1>1, ScenarioAssumption DEF SingleMembership, Unless
<1>6. NothingOrphaned
  <2>1. ASSUME NEW p \in ProjectIds, projects[p] \in TenantIds PROVE projects[p] \in tenants
    <3>1. projects[p] \in s.tenants \cup {None, Never}
      BY <1>1, ScenarioAssumption
    <3> QED BY <1>1, <2>1, <3>1, IdsAssumption
  <2> QED BY <2>1 DEF Init, NothingOrphaned, Unless
<1>7. Owned
  <2>1. ASSUME NEW g \in Groups, There(g) PROVE Owners(g) # {}
    <3>1. g \in s.tenants \cup {p \in ProjectIds : s.projects[p] \in s.tenants}
      <4>1. CASE g \in tenants
        BY <1>1, <4>1
      <4>2. CASE g \in ProjectIds /\ projects[g] \in TenantIds
        <5>1. projects[g] \in s.tenants \cup {None, Never}
          BY <1>1, <4>2, ScenarioAssumption
        <5> QED BY <1>1, <4>2, <5>1, IdsAssumption
      <4> QED BY <2>1, <4>1, <4>2 DEF There
    <3>2. PICK r \in s.members : r.group = g /\ r.role = "owner"
      BY <3>1, ScenarioAssumption
    <3> QED BY <1>1, <3>2 DEF Owners
  <2> QED BY <2>1 DEF Owned
<1>8. InvitesTyped
  BY DEF Init, InvitesTyped
<1> QED BY <1>2, <1>3, <1>4, <1>5, <1>6, <1>7, <1>8 DEF Settled

LEMMA CallsOKKept ==
    ASSUME Shaped, CallsOK, NEW c \in Calls, NEW rec, Go(c, rec), CallOK(rec)
    PROVE  CallsOK'
<1>1. \A d \in Calls : call'[d] = IF d = c THEN rec ELSE call[d]
  BY DEF Go, Shaped
<1> HIDE DEF CallOK
<1>2. ASSUME NEW d \in Calls PROVE CallOK(call'[d])
  BY <1>1 DEF CallsOK
<1> QED BY <1>2 DEF CallsOK

\* A group keeps its owners or who makes it one.
LEMMA OwnedKept ==
    ASSUME Shaped, Owned, NEW c \in Calls, NEW rec, Go(c, rec), mishap \subseteq mishap',
           Calm' => \A g \in Groups : There(g)' =>
               /\ There(g) \/ Comes(c, g)'
               /\ Owners(g) # {} => Owners(g)' # {}
               /\ \A d \in Calls \ {c} : Comes(d, g) => Comes(d, g)'
               /\ Comes(c, g) => Owners(g)' # {} \/ Comes(c, g)'
    PROVE  Owned'
<1> SUFFICES ASSUME Calm', NEW g \in Groups, There(g)'
             PROVE  Owners(g)' # {} \/ \E d \in Calls : Comes(d, g)'
    BY DEF Owned
<1>1. Calm
  BY DEF Calm
<1>2. CASE Comes(c, g)'
  BY <1>2
<1>3. CASE There(g)
  <2>1. Owners(g) # {} \/ \E d \in Calls : Comes(d, g)
    BY <1>1, <1>3 DEF Owned
  <2> QED BY <2>1
<1> QED BY <1>2, <1>3

LEMMA OthersStay ==
    ASSUME Shaped, NEW c \in Calls, NEW rec, Go(c, rec), NEW d \in Calls \ {c}, NEW g \in Groups,
           Comes(d, g), projects' = projects, tenants \cap Users \subseteq tenants'
    PROVE  Comes(d, g)'
<1>1. call'[d] = call[d]
  BY DEF Go, Shaped
<1> QED BY <1>1 DEF Comes, Founding, Looking, At

\* A call that has not come to join or to look begins or goes on.
LEMMA MoveSettled ==
    ASSUME Shaped, Settled, NEW c \in Calls, NEW rec, Go(c, rec), CallOK(rec), call[c].pc \notin {"join", "lookup"},
           UNCHANGED rows, mishap \subseteq mishap', mishap' \subseteq Mishaps
    PROVE  Settled'
<1> USE DEF Settled
<1>1. UNCHANGED <<tenants, labelled, projects, members, used>>
  BY DEF rows
<1>2. CallsOK'
  BY CallsOKKept
<1>3. RowsTyped' /\ RowsOfUsed' /\ SingleMembership' /\ NothingOrphaned'
  BY <1>1 DEF RowsTyped, RowsOfUsed, SingleMembership, NothingOrphaned, Unless, There
<1>4. Owned'
  <2>1. ASSUME NEW g \in Groups
        PROVE  /\ There(g)' => There(g) 
               /\ Owners(g)' = Owners(g)
               /\ \A d \in Calls \ {c} : Comes(d, g) => Comes(d, g)'
               /\ ~Comes(c, g)
    BY <1>1, OthersStay DEF There, Owners, Comes, Founding, Looking, At
  <2> QED BY <2>1, OwnedKept
<1> QED BY <1>2, <1>3, <1>4

\* Tenants are created, each with a call that looks for its owner or adds it.
LEMMA GrowSettled ==
    ASSUME Shaped, Settled, NEW c \in Calls, NEW rec, Go(c, rec), CallOK(rec), call[c].pc \notin {"join", "lookup"},
           tenants \subseteq tenants', tenants' \subseteq TenantIds, labelled' \in BOOLEAN,
           UNCHANGED <<projects, members, used, mishap>>,
           \A t \in tenants' \ tenants : Comes(c, t)'
    PROVE  Settled'
<1> USE DEF Settled
<1>1. CallsOK'
  BY CallsOKKept
<1>2. RowsTyped' /\ RowsOfUsed' /\ SingleMembership' /\ NothingOrphaned'
  BY DEF RowsTyped, RowsOfUsed, SingleMembership, NothingOrphaned, Unless, There
<1>3. Owned'
  <2>1. ASSUME NEW g \in Groups
        PROVE  /\ There(g)' => There(g) \/ Comes(c, g)'
               /\ Owners(g)' = Owners(g)
               /\ \A d \in Calls \ {c} : Comes(d, g) => Comes(d, g)'
               /\ ~Comes(c, g)
    <3>1. There(g)' => There(g) \/ Comes(c, g)'
      BY DEF There
    <3>2. Owners(g)' = Owners(g)
      BY DEF Owners
    <3>3. \A d \in Calls \ {c} : Comes(d, g) => Comes(d, g)'
      BY OthersStay
    <3>4. ~Comes(c, g)
      BY DEF Comes, Founding, Looking, At
    <3> QED BY <3>1, <3>2, <3>3, <3>4
  <2> QED BY <2>1, OwnedKept
<1> QED BY <1>1, <1>2, <1>3

\* The call that joins is known, as is who is created to join.
LEMMA GoTo ==
    ASSUME Shaped, NEW c \in Calls, NEW rec, Go(c, rec)
    PROVE  call'[c] = rec
BY DEF Go, Shaped

LEMMA JoiningOK ==
    ASSUME NEW g \in Groups, NEW m \in TenantIds, NEW role \in Asked, NEW secret, RowsOf(g, m) = {}
    PROVE  CallOK(Joining(g, m, role, secret))
BY DEF Joining, CallOK

LEMMA IdleOK == CallOK(Idle)
BY DEF Idle, CallOK

LEMMA LoginsSettled ==
    ASSUME Shaped, Settled, NEW c \in Calls, LoginCreate(c) \/ CreateProvider(c) \/ PatchProvider(c)
    PROVE  Settled'
<1>1. CallOK(call[c]) /\ call[c].pc \in {"new", "provider", "patch"}
  BY DEF LoginCreate, CreateProvider, PatchProvider, At, Settled, CallsOK
<1> PICK t \in TenantIds : t = call[c].group
  BY <1>1 DEF CallOK
<1>2. DOMAIN call[c] = {"pc", "group"} /\ (call[c].pc # "new" => t = Provider)
  BY <1>1 DEF CallOK
<1>3. ASSUME NEW pc \in {"patch", "lookup"}, pc = "patch" => t = Provider
      PROVE  /\ CallOK([call[c] EXCEPT !.pc = pc])
             /\ [call[c] EXCEPT !.pc = pc].pc = pc /\ [call[c] EXCEPT !.pc = pc].group = t
  <2> DEFINE rec == [call[c] EXCEPT !.pc = pc]
  <2>1. DOMAIN rec = {"pc", "group"} /\ rec.pc = pc /\ rec.group = t
    BY <1>2
  <2> HIDE DEF rec
  <2>2. CallOK(rec)
    BY <1>2, <1>3, <2>1 DEF CallOK
  <2> QED BY <2>1, <2>2 DEF rec
<1>4. tenants \subseteq TenantIds /\ labelled \in BOOLEAN
  BY DEF Settled, RowsTyped
<1>5. ASSUME NEW rec, Go(c, rec), rec.pc = "lookup", rec.group = t PROVE Comes(c, t)'
  <2>1. call'[c] = rec
    BY <1>5, GoTo
  <2> QED BY <1>5, <2>1 DEF Comes, Looking, At
<1>6. CASE LoginCreate(c)
  <2>1. /\ tenants' = tenants \cup {t} /\ UNCHANGED <<labelled, projects, members, used, mishap>>
    BY <1>6 DEF LoginCreate
  <2>2. CASE t \in tenants
    <3>1. Go(c, Idle)
      BY <1>6, <2>2 DEF LoginCreate, Finish
    <3>2. tenants' = tenants
      BY <2>1, <2>2
    <3> QED BY <1>1, <1>4, <2>1, <3>1, <3>2, IdleOK, GrowSettled
  <2>3. CASE t \notin tenants
    <3> DEFINE rec == [call[c] EXCEPT !.pc = "lookup"]
    <3>1. Go(c, rec)
      BY <1>6, <2>3 DEF LoginCreate
    <3>2. CallOK(rec) /\ rec.pc = "lookup" /\ rec.group = t
      BY <1>3
    <3> HIDE DEF rec
    <3>3. Comes(c, t)'
      BY <1>5, <3>1, <3>2
    <3>4. \A x \in tenants' \ tenants : Comes(c, x)'
      BY <2>1, <3>3
    <3> QED BY <1>1, <1>2, <1>4, <2>1, <3>1, <3>2, <3>4, GrowSettled
  <2> QED BY <2>2, <2>3
<1>7. CASE CreateProvider(c)
  <2> DEFINE pc == IF Provider \in tenants THEN "patch" ELSE "lookup"
             rec == [call[c] EXCEPT !.pc = pc]
  <2>1. /\ tenants' = tenants \cup {Provider} /\ UNCHANGED <<projects, members, used, mishap>>
        /\ labelled' = (labelled \/ Provider \notin tenants)
        /\ Go(c, rec)
    BY <1>7 DEF CreateProvider
  <2>2. t = Provider
    BY <1>2, <1>7 DEF CreateProvider, At
  <2>3. CallOK(rec) /\ rec.pc = pc /\ rec.group = t
    BY <1>3, <2>2
  <2> HIDE DEF rec
  <2>4. \A x \in tenants' \ tenants : Comes(c, x)'
    <3> SUFFICES ASSUME Provider \notin tenants PROVE Comes(c, t)'
      BY <2>1, <2>2
    <3> QED BY <1>5, <2>1, <2>3
  <2>5. labelled' \in BOOLEAN
    BY <1>4, <2>1
  <2> QED BY <1>1, <1>2, <1>4, <2>1, <2>2, <2>3, <2>4, <2>5, GrowSettled
<1>8. CASE PatchProvider(c)
  <2> DEFINE rec == [call[c] EXCEPT !.pc = "lookup"]
  <2>1. UNCHANGED <<tenants, projects, members, used, mishap>> /\ labelled' = TRUE /\ Go(c, rec)
    BY <1>8 DEF PatchProvider
  <2>2. CallOK(rec)
    BY <1>3
  <2> HIDE DEF rec
  <2> QED BY <1>1, <1>4, <2>1, <2>2, GrowSettled
<1> QED BY <1>6, <1>7, <1>8

\* Who looked for the owner and found no membership adds it.
LEMMA LookupSettled ==
    ASSUME Shaped, Settled, NEW c \in Calls, LookupOwner(c)
    PROVE  Settled'
<1> DEFINE t == call[c].group
           rec == IF RowsOf(t, t) # {} THEN Idle ELSE Joining(t, t, "owner", None)
<1> USE DEF Settled
<1>1. t \in TenantIds
  BY DEF LookupOwner, At, CallsOK, CallOK
<1>2. /\ UNCHANGED <<tenants, labelled, projects, members, used>> /\ Go(c, rec)
      /\ mishap' = mishap \cup When(RowsOf(t, t) # {} /\ Owners(t) = {}, "demoted")
  BY DEF LookupOwner, rows, Finish, Hap, When
<1>3. CallOK(rec)
  BY <1>1, JoiningOK, IdleOK DEF Groups, Asked, Roles
<1>4. RowsOf(t, t) = {} => rec.pc = "join" /\ rec.group = t /\ rec.role = "owner" /\ rec.member = t
  BY DEF Joining
<1>5. \A g : Comes(c, g) => g = t
  BY DEF LookupOwner, At, Comes, Founding, Looking
<1> HIDE DEF rec, t
<1>6. CallsOK'
  BY <1>2, <1>3, CallsOKKept
<1>7. mishap \subseteq mishap' /\ mishap' \subseteq Mishaps
  BY <1>2 DEF When, RowsTyped, Mishaps
<1>8. RowsTyped' /\ RowsOfUsed' /\ SingleMembership' /\ NothingOrphaned'
  BY <1>2, <1>7 DEF RowsTyped, RowsOfUsed, SingleMembership, NothingOrphaned, Unless, There
<1>9. Owned'
  <2>1. ASSUME Calm', NEW g \in Groups
        PROVE  /\ There(g)' => There(g)
               /\ Owners(g)' = Owners(g)
               /\ \A d \in Calls \ {c} : Comes(d, g) => Comes(d, g)'
               /\ Comes(c, g) => Owners(g)' # {} \/ Comes(c, g)'
    <3>1. (There(g)' => There(g)) /\ Owners(g)' = Owners(g)
      BY <1>2 DEF There, Owners
    <3>2. \A d \in Calls \ {c} : Comes(d, g) => Comes(d, g)'
      BY <1>2, OthersStay
    <3>3. ASSUME Comes(c, g) PROVE Owners(g) # {} \/ Comes(c, g)'
      <4>1. g = t
        BY <1>5, <3>3
      <4>2. CASE RowsOf(t, t) # {}
        BY <1>2, <2>1, <4>1, <4>2 DEF When, Calm, Excuses
      <4>3. CASE RowsOf(t, t) = {}
        <5>1. call'[c] = rec
          BY <1>2, GoTo
        <5> QED BY <1>4, <4>1, <4>3, <5>1 DEF Comes, Founding, At
      <4> QED BY <4>2, <4>3
    <3> QED BY <3>1, <3>2, <3>3
  <2> QED BY <1>2, <1>7, <2>1, OwnedKept
<1> QED BY <1>6, <1>8, <1>9

LEMMA FailSettled ==
    ASSUME Shaped, Settled, NEW c \in Calls, Fail(c)
    PROVE  Settled'
<1> USE DEF Settled
<1>1. /\ UNCHANGED <<tenants, labelled, projects, members, used>> /\ Go(c, Idle)
      /\ mishap' = mishap \cup When(call[c].pc \in {"join", "lookup", "patch"}, "halfway")
  BY DEF Fail, rows, Finish, Hap
<1>2. CallsOK'
  BY <1>1, IdleOK, CallsOKKept
<1>3. mishap \subseteq mishap' /\ mishap' \subseteq Mishaps
  BY <1>1 DEF When, RowsTyped, Mishaps
<1>4. RowsTyped' /\ RowsOfUsed' /\ SingleMembership' /\ NothingOrphaned'
  BY <1>1, <1>3 DEF RowsTyped, RowsOfUsed, SingleMembership, NothingOrphaned, Unless, There
<1>5. ASSUME Calm', NEW g \in Groups
      PROVE  /\ There(g)' => There(g)
             /\ Owners(g)' = Owners(g)
             /\ \A d \in Calls \ {c} : Comes(d, g) => Comes(d, g)'
             /\ ~Comes(c, g)
  <2>1. (There(g)' => There(g)) /\ Owners(g)' = Owners(g)
    BY <1>1 DEF There, Owners
  <2>2. \A d \in Calls \ {c} : Comes(d, g) => Comes(d, g)'
    BY <1>1, OthersStay
  <2>3. call[c].pc \notin {"join", "lookup"}
    BY <1>1, <1>5 DEF When, Calm, Excuses
  <2>4. ~Comes(c, g)
    BY <2>3 DEF Comes, Founding, Looking, At
  <2> QED BY <2>1, <2>2, <2>4
<1>6. Owned'
  BY <1>1, <1>3, <1>5, OwnedKept
<1> QED BY <1>2, <1>4, <1>6

\* What a project got while it was deleted is orphaned, and nothing else.
LEMMA UseSettled ==
    ASSUME Shaped, Settled, NEW c \in Calls, UseWrite(c)
    PROVE  Settled'
<1> USE DEF Settled
<1>1. /\ UNCHANGED <<tenants, labelled, projects, members>> /\ Go(c, Idle)
      /\ used' = used \cup {call[c].group} /\ call[c].pc = "use"
      /\ mishap' = mishap \cup When(~There(call[c].group), "stale")
  BY DEF UseWrite, Finish, Hap, At
<1>2. CallsOK'
  BY <1>1, IdleOK, CallsOKKept
<1>3. mishap \subseteq mishap' /\ mishap' \subseteq Mishaps
  BY <1>1 DEF When, RowsTyped, Mishaps
<1>4. RowsTyped' /\ RowsOfUsed' /\ SingleMembership'
  BY <1>1, <1>3 DEF RowsTyped, RowsOfUsed, SingleMembership, Unless, CallsOK, CallOK
<1>5. NothingOrphaned'
  <2> SUFFICES ASSUME "stale" \notin mishap'
               PROVE  (\A p \in used' : There(p)) /\ (\A p \in ProjectIds : projects[p] \in TenantIds => projects[p] \in tenants)
      BY <1>1 DEF NothingOrphaned, Unless, There
  <2> QED BY <1>1 DEF NothingOrphaned, Unless, When
<1>6. ASSUME NEW g \in Groups
      PROVE  /\ There(g)' => There(g)
             /\ Owners(g)' = Owners(g)
             /\ \A d \in Calls \ {c} : Comes(d, g) => Comes(d, g)'
             /\ ~Comes(c, g)
  BY <1>1, OthersStay DEF There, Owners, Comes, Founding, Looking, At
<1>7. Owned'
  BY <1>1, <1>3, <1>6, OwnedKept
<1> QED BY <1>2, <1>4, <1>5, <1>7

\* A deleted project is in no use, and a deleted tenant has no project.
LEMMA DeleteProjectSettled ==
    ASSUME Shaped, Settled, NEW c \in Calls, DeleteProjectWrite(c)
    PROVE  Settled'
<1> USE DEF Settled
<1> PICK p \in ProjectIds : p = call[c].group
  BY DEF DeleteProjectWrite
<1>1. /\ UNCHANGED <<tenants, labelled, members, used>> /\ Go(c, Idle)
      /\ projects' = [projects EXCEPT ![p] = None] /\ call[c].pc = "delete"
      /\ mishap' = mishap \cup When(used # call[c].used, "stale")
  BY DEF DeleteProjectWrite, Finish, Hap, At
<1>2. CallsOK'
  BY <1>1, IdleOK, CallsOKKept
<1>3. mishap \subseteq mishap' /\ mishap' \subseteq Mishaps
  BY <1>1 DEF When, RowsTyped, Mishaps
<1>4. \A x \in ProjectIds : projects'[x] = IF x = p THEN None ELSE projects[x]
  BY <1>1 DEF RowsTyped
<1>5. RowsTyped'
  BY <1>1, <1>3 DEF RowsTyped
<1>6. RowsOfUsed' /\ SingleMembership'
  BY <1>1, <1>3, <1>4, IdsAssumption DEF RowsOfUsed, SingleMembership, Unless
<1>7. NothingOrphaned'
  <2> SUFFICES ASSUME "stale" \notin mishap'
               PROVE  /\ \A x \in used : There(x)'
                      /\ \A x \in ProjectIds : projects'[x] \in TenantIds => projects'[x] \in tenants
      BY <1>1 DEF NothingOrphaned, Unless
  <2>1. p \notin used
    BY <1>1 DEF When, CallsOK, CallOK
  <2>2. (\A x \in used : There(x)) /\ (\A x \in ProjectIds : projects[x] \in TenantIds => projects[x] \in tenants)
    BY <1>1 DEF NothingOrphaned, Unless
  <2>3. ASSUME NEW x \in used PROVE There(x)'
    BY <1>1, <1>4, <2>1, <2>2 DEF There
  <2> QED BY <1>4, <2>2, <2>3, IdsAssumption
<1>8. ASSUME NEW g \in Groups, There(g)'
      PROVE  /\ There(g)
             /\ Owners(g)' = Owners(g)
             /\ \A d \in Calls \ {c} : Comes(d, g) => Comes(d, g)'
             /\ ~Comes(c, g)
  <2>1. There(g) /\ (g \in ProjectIds => projects'[g] = projects[g])
    BY <1>1, <1>4, <1>8, IdsAssumption DEF There, RowsTyped
  <2>2. Owners(g)' = Owners(g) /\ ~Comes(c, g)
    BY <1>1 DEF Owners, Comes, Founding, Looking, At
  <2>3. ASSUME NEW d \in Calls \ {c}, Comes(d, g) PROVE Comes(d, g)'
    <3>1. call'[d] = call[d]
      BY <1>1 DEF Go, Shaped
    <3> QED BY <1>1, <2>1, <2>3, <3>1 DEF Comes, Founding, Looking, At
  <2> QED BY <2>1, <2>2, <2>3
<1>9. Owned'
  BY <1>1, <1>3, <1>8, OwnedKept
<1> QED BY <1>2, <1>5, <1>6, <1>7, <1>9

LEMMA DeleteTenantSettled ==
    ASSUME Shaped, Settled, NEW c \in Calls, DeleteTenantWrite(c)
    PROVE  Settled'
<1> USE DEF Settled
<1> PICK t \in TenantIds : t = call[c].group
  BY DEF DeleteTenantWrite
<1>1. /\ UNCHANGED <<labelled, projects, members, used>> /\ Go(c, Idle)
      /\ tenants' = tenants \ {t} /\ call[c].pc = "delete"
      /\ mishap' = mishap \cup (When(projects # call[c].projects, "stale") \cup When(t \in Users, "evicted"))
  BY DEF DeleteTenantWrite, Finish, Hap, At
<1>2. CallsOK'
  BY <1>1, IdleOK, CallsOKKept
<1>3. mishap \subseteq mishap' /\ mishap' \subseteq Mishaps
  BY <1>1 DEF When, RowsTyped, Mishaps
<1>4. RowsTyped' /\ RowsOfUsed' /\ SingleMembership'
  BY <1>1, <1>3 DEF RowsTyped, RowsOfUsed, SingleMembership, Unless
<1>5. NothingOrphaned'
  <2> SUFFICES ASSUME "stale" \notin mishap'
               PROVE  /\ \A x \in used : There(x)'
                      /\ \A x \in ProjectIds : projects[x] \in TenantIds => projects[x] \in tenants'
      BY <1>1 DEF NothingOrphaned, Unless
  <2>1. \A x \in ProjectIds : projects[x] # t
    BY <1>1 DEF When, CallsOK, CallOK
  <2>2. (\A x \in used : There(x)) /\ (\A x \in ProjectIds : projects[x] \in TenantIds => projects[x] \in tenants)
    BY <1>1 DEF NothingOrphaned, Unless
  <2>3. ASSUME NEW x \in used PROVE There(x)'
    BY <1>1, <2>2, IdsAssumption DEF There, RowsTyped
  <2> QED BY <1>1, <2>1, <2>2, <2>3
<1>6. ASSUME Calm', NEW g \in Groups
      PROVE  /\ There(g)' => There(g)
             /\ Owners(g)' = Owners(g)
             /\ \A d \in Calls \ {c} : Comes(d, g) => Comes(d, g)'
             /\ ~Comes(c, g)
  <2>1. (There(g)' => There(g)) /\ Owners(g)' = Owners(g) /\ ~Comes(c, g)
    BY <1>1 DEF There, Owners, Comes, Founding, Looking, At
  <2>2. t \notin Users
    BY <1>1, <1>6 DEF When, Calm, Excuses
  <2>3. tenants \cap Users \subseteq tenants'
    BY <1>1, <2>2
  <2>4. \A d \in Calls \ {c} : Comes(d, g) => Comes(d, g)'
    BY <1>1, <2>3, OthersStay
  <2> QED BY <2>1, <2>4
<1>7. Owned'
  BY <1>1, <1>3, <1>6, OwnedKept
<1> QED BY <1>2, <1>4, <1>5, <1>7

LEMMA StartsIdle ==
    ASSUME NEW c \in Calls, NEW op, NEW u, NEW g, Starts(c, op, u, g)
    PROVE  call[c] = Idle /\ call[c].pc \notin {"join", "lookup"}
BY DEF Starts, Idle

LEMMA CreateTenantSettled ==
    ASSUME Shaped, Settled, NEW c \in Calls, NEW t \in OtherTenants,
           (\E u \in Users : CreateTenant(c, u, t)) \/ AdminCreateTenant(c, t)
    PROVE  Settled'
<1>1. PICK m \in TenantIds :
        /\ m = t \/ m \in Users \cap tenants
        /\ Go(c, Joining(t, m, "owner", None))
  BY DEF CreateTenant, AdminCreateTenant, Known, TenantIds
<1> DEFINE rec == Joining(t, m, "owner", None)
<1>2. /\ call[c].pc \notin {"join", "lookup"} /\ NewTenant(t)
      /\ tenants' = tenants \cup {t} /\ UNCHANGED <<labelled, projects, members, used, mishap>>
  BY StartsIdle DEF CreateTenant, AdminCreateTenant
<1>3. RowsOf(t, m) = {}
  BY <1>2 DEF NewTenant, RowsOf
<1>4. CallOK(rec)
  BY <1>3, JoiningOK DEF Asked, Roles, Groups, TenantIds
<1>5. call'[c] = rec
  BY <1>1, GoTo
<1>6. Comes(c, t)'
  BY <1>1, <1>2, <1>5 DEF Comes, Founding, At, Joining
<1> HIDE DEF rec
<1>7. \A x \in tenants' \ tenants : Comes(c, x)'
  BY <1>2, <1>6
<1>8. tenants \subseteq tenants' /\ tenants' \subseteq TenantIds /\ labelled' \in BOOLEAN
  BY <1>2 DEF Settled, RowsTyped, TenantIds
<1> QED BY <1>1, <1>2, <1>4, <1>7, <1>8, GrowSettled DEF rec

LEMMA CreateProjectSettled ==
    ASSUME Shaped, Settled, NEW c \in Calls, NEW u \in Users, NEW t \in TenantIds, NEW p \in ProjectIds,
           CreateProject(c, u, t, p)
    PROVE  Settled'
<1> USE DEF Settled
<1> DEFINE rec == Joining(p, t, "owner", None)
<1>1. /\ UNCHANGED <<tenants, labelled, members, used, mishap>> /\ Go(c, rec)
      /\ projects' = [projects EXCEPT ![p] = t] /\ projects[p] = Never
      /\ call[c].pc \notin {"join", "lookup"} /\ t \in tenants
  BY StartsIdle, IdsAssumption DEF CreateProject, May, There
<1>2. RowsOf(p, t) = {}
  BY <1>1 DEF RowsOfUsed, RowsOf
<1>3. CallOK(rec)
  BY <1>2, JoiningOK DEF Asked, Roles, Groups
<1>4. rec.pc = "join" /\ rec.group = p /\ rec.member = t /\ rec.role = "owner"
  BY DEF Joining
<1> HIDE DEF rec
<1>5. CallsOK'
  BY <1>1, <1>3, CallsOKKept
<1>6. \A x \in ProjectIds : projects'[x] = IF x = p THEN t ELSE projects[x]
  BY <1>1 DEF RowsTyped
<1>7. RowsTyped'
  BY <1>1 DEF RowsTyped
<1>8. RowsOfUsed' /\ SingleMembership'
  BY <1>1, <1>6, IdsAssumption DEF RowsOfUsed, SingleMembership, Unless
<1>9. NothingOrphaned'
  BY <1>1, <1>6 DEF NothingOrphaned, Unless, There
<1>10. Comes(c, p)'
  <2>1. call'[c] = rec /\ projects'[p] = t
    BY <1>1, <1>6, GoTo
  <2> QED BY <1>4, <2>1 DEF Comes, Founding, At
<1>11. ASSUME NEW g \in Groups
       PROVE  /\ There(g)' => There(g) \/ Comes(c, g)'
              /\ Owners(g)' = Owners(g)
              /\ \A d \in Calls \ {c} : There(g)' /\ Comes(d, g) => Comes(d, g)' \/ Comes(c, g)'
              /\ ~Comes(c, g)
  <2>1. There(g)' => There(g) \/ Comes(c, g)'
    BY <1>1, <1>6, <1>10 DEF There
  <2>2. Owners(g)' = Owners(g) /\ ~Comes(c, g)
    BY <1>1 DEF Owners, Comes, Founding, Looking, At
  <2>3. ASSUME NEW d \in Calls \ {c}, Comes(d, g) PROVE Comes(d, g)' \/ Comes(c, g)'
    <3>1. CASE g = p
      BY <1>10, <3>1
    <3>2. CASE g # p
      <4>1. call'[d] = call[d] /\ (g \in ProjectIds => projects'[g] = projects[g])
        BY <1>1, <1>6, <3>2 DEF Go, Shaped
      <4> QED BY <1>1, <2>3, <4>1 DEF Comes, Founding, Looking, At
    <3> QED BY <3>1, <3>2
  <2> QED BY <2>1, <2>2, <2>3
<1>12. Owned'
  <2> SUFFICES ASSUME Calm', NEW g \in Groups, There(g)'
               PROVE  Owners(g)' # {} \/ \E d \in Calls : Comes(d, g)'
      BY DEF Owned
  <2>1. There(g) => Owners(g) # {} \/ \E d \in Calls : Comes(d, g)
    BY <1>1 DEF Owned, Calm
  <2> QED BY <1>11, <2>1
<1> QED BY <1>5, <1>7, <1>8, <1>9, <1>12

\* Calls that begin know of what they read that it allows them to go on.
LEMMA LastOwner ==
    ASSUME NEW S, NEW r \in S, ~(Cardinality(S) < 2)
    PROVE  \E q \in S : q # r
<1>1. Cardinality({r}) = 1
  BY FS_Singleton
<1>2. S # {r}
  BY <1>1
<1> QED BY <1>2

LEMMA ChangesGuarded ==
    ASSUME Inv, Settled, NEW g \in Groups, NEW m \in TenantIds, NEW row \in RowsOf(g, m), NEW rec,
           rec.pc \in {"remove", "update"}, rec.row = row, rec.owners = Owners(g), rec.pc = "update" => rec.role \in Asked,
           IsLastOwner(row) => rec.pc = "update" /\ rec.role = "owner"
    PROVE  CallOK(rec)
<1>1. row \in members /\ row.group = g /\ row \in RowSet
  BY DEF RowsOf, Settled, RowsTyped
<1>2. \A r \in Owners(g) : r.id = row.id => r = row
  BY <1>1 DEF Owners, Inv, RowsTold
<1>3. ASSUME row.role = "owner", rec.pc = "update" => rec.role # "owner"
      PROVE  \E r \in Owners(g) : r.id # row.id
  <2>1. row \in Owners(g) /\ ~(Cardinality(Owners(g)) < 2)
    BY <1>1, <1>3 DEF Owners, IsLastOwner
  <2>2. PICK r \in Owners(g) : r # row
    BY <2>1, LastOwner
  <2> QED BY <1>2, <2>2
<1>4. Guarded(rec)
  BY <1>2, <1>3 DEF Guarded
<1> QED BY <1>1, <1>4 DEF CallOK

LEMMA BeginSettled ==
    ASSUME Shaped, Settled, NEW c \in Calls, NEW op, NEW v, NEW h, Starts(c, op, v, h),
           NEW rec, Go(c, rec), CallOK(rec), UNCHANGED <<rows, mishap>>
    PROVE  Settled'
<1>1. call[c].pc \notin {"join", "lookup"}
  BY StartsIdle
<1>2. UNCHANGED rows /\ mishap \subseteq mishap' /\ mishap' \subseteq Mishaps
  BY DEF Settled, RowsTyped
<1> QED BY <1>1, <1>2, MoveSettled

LEMMA ChangesBegin ==
    ASSUME Inv, Settled, NEW c \in Calls, NEW u \in Users, NEW g \in Groups, NEW m \in TenantIds,
           RemoveMember(c, u, g, m) \/ \E role \in Requested : UpdateMember(c, u, g, m, role)
    PROVE  Settled'
<1>1. CASE RemoveMember(c, u, g, m)
  <2>1. PICK row \in RowsOf(g, m) :
           /\ IF g \in ProjectIds THEN MayRemoveFromProject(row) ELSE MayRemove(row)
           /\ Go(c, [pc |-> "remove", row |-> row, owners |-> Owners(g)])
    BY <1>1 DEF RemoveMember
  <2> DEFINE rec == [pc |-> "remove", row |-> row, owners |-> Owners(g)]
  <2>2. ~IsLastOwner(row)
    BY <2>1 DEF MayRemoveFromProject, MayRemove
  <2>3. rec.pc = "remove" /\ rec.row = row /\ rec.owners = Owners(g)
    OBVIOUS
  <2>4. Go(c, rec)
    BY <2>1
  <2> HIDE DEF rec
  <2>5. CallOK(rec)
    BY <2>2, <2>3, ChangesGuarded
  <2>6. Starts(c, "remove", u, g) /\ UNCHANGED <<rows, mishap>>
    BY <1>1 DEF RemoveMember
  <2> QED BY <2>4, <2>5, <2>6, BeginSettled DEF Inv
<1>2. ASSUME NEW role \in Requested, UpdateMember(c, u, g, m, role) PROVE Settled'
  <2>1. PICK row \in RowsOf(g, m) :
           /\ IF g \in ProjectIds THEN MayDemoteInProject(row, role) ELSE MayDemote(row, role)
           /\ Go(c, [pc |-> "update", row |-> row, owners |-> Owners(g), role |-> role])
    BY <1>2 DEF UpdateMember
  <2> DEFINE rec == [pc |-> "update", row |-> row, owners |-> Owners(g), role |-> role]
  <2>2. IsLastOwner(row) => role = "owner"
    BY <2>1 DEF MayDemoteInProject, MayDemote
  <2>3. rec.pc = "update" /\ rec.row = row /\ rec.owners = Owners(g) /\ rec.role = role /\ role \in Asked
    BY RolesAssumption DEF Asked
  <2>4. Go(c, rec)
    BY <2>1
  <2> HIDE DEF rec
  <2>5. CallOK(rec)
    BY <2>2, <2>3, ChangesGuarded
  <2>6. Starts(c, "update", u, g) /\ UNCHANGED <<rows, mishap>>
    BY <1>2 DEF UpdateMember
  <2> QED BY <2>4, <2>5, <2>6, BeginSettled DEF Inv
<1> QED BY <1>1, <1>2

LEMMA JoinsBegin ==
    ASSUME Shaped, Settled, InvitesTyped, NEW c \in Calls,
           \/ \E u \in Users, p \in ProjectIds, m \in TenantIds, role \in Requested : UpdateInherited(c, u, p, m, role)
           \/ \E t \in TenantIds, m \in TenantIds, role \in Requested : AdminAddMember(c, t, m, role)
           \/ \E u \in Users, s \in Secrets : InviteAccept(c, u, s)
    PROVE  Settled'
<1>1. ASSUME NEW u \in Users, NEW p \in ProjectIds, NEW m \in TenantIds, NEW role \in Requested,
             UpdateInherited(c, u, p, m, role)
      PROVE  Settled'
  <2> DEFINE rec == Joining(p, m, role, None)
  <2>1. CallOK(rec)
    BY <1>1, JoiningOK, RolesAssumption DEF UpdateInherited, Asked, Groups
  <2>2. Go(c, rec) /\ Starts(c, "update", u, p) /\ UNCHANGED <<rows, mishap>>
    BY <1>1 DEF UpdateInherited
  <2> HIDE DEF rec
  <2> QED BY <2>1, <2>2, BeginSettled
<1>2. ASSUME NEW t \in TenantIds, NEW m \in TenantIds, NEW role \in Requested, AdminAddMember(c, t, m, role)
      PROVE  Settled'
  <2> DEFINE rec == Joining(t, m, role, None)
  <2>1. CallOK(rec)
    BY <1>2, JoiningOK, RolesAssumption DEF AdminAddMember, Asked, Groups
  <2>2. Go(c, rec) /\ Starts(c, "admin", Provider, t) /\ UNCHANGED <<rows, mishap>>
    BY <1>2 DEF AdminAddMember
  <2> HIDE DEF rec
  <2> QED BY <2>1, <2>2, BeginSettled
<1>3. ASSUME NEW u \in Users, NEW s \in Secrets, InviteAccept(c, u, s) PROVE Settled'
  <2> DEFINE g == acceptable[s].group
             old == Joining(g, u, acceptable[s].role, s)
             rec == [old EXCEPT !.pc = "accept"]
  <2>1. g \in Groups /\ acceptable[s].role \in Asked
    BY <1>3 DEF InviteAccept, InvitesTyped, Asked
  <2>2. RowsOf(g, u) = {} /\ Go(c, rec) /\ Starts(c, "accept", u, g) /\ UNCHANGED <<rows, mishap>>
    BY <1>3 DEF InviteAccept, IsNew
  <2>3. /\ DOMAIN rec = {"pc", "group", "member", "role", "secret", "rows"} /\ rec.pc = "accept"
        /\ rec.group = g /\ rec.member = u /\ rec.role = acceptable[s].role /\ rec.rows = RowsOf(g, u)
    BY DEF Joining
  <2> HIDE DEF rec, g
  <2>4. CallOK(rec)
    BY <2>1, <2>2, <2>3 DEF CallOK, TenantIds
  <2> QED BY <2>2, <2>4, BeginSettled
<1> QED BY <1>1, <1>2, <1>3

LEMMA OthersBegin ==
    ASSUME Shaped, Settled, NEW c \in Calls,
           \/ \E u \in Users, g \in Groups : DeleteGroup(c, u, g)
           \/ \E u \in Users, p \in ProjectIds : UseProject(c, u, p)
           \/ \E u \in Users : Login(c, u)
           \/ StartReplica(c)
    PROVE  Settled'
<1>1. ASSUME NEW u \in Users, NEW g \in Groups, DeleteGroup(c, u, g) PROVE Settled'
  <2> DEFINE rec == [pc |-> "delete", group |-> g, used |-> used, projects |-> projects]
  <2>1. /\ Go(c, rec) /\ Starts(c, "delete", u, g) /\ UNCHANGED <<rows, mishap>>
        /\ IF g \in ProjectIds THEN ProjectUnused(g) ELSE TenantUnused(u, g)
    BY <1>1 DEF DeleteGroup
  <2>2. g \notin used /\ (g \in TenantIds => \A p \in ProjectIds : projects[p] # g)
    BY <2>1, IdsAssumption DEF ProjectUnused, TenantUnused, ProjectsOf, Settled, RowsTyped, Groups
  <2>3. CallOK(rec)
    BY <2>2 DEF CallOK
  <2> HIDE DEF rec
  <2> QED BY <2>1, <2>3, BeginSettled
<1>2. ASSUME NEW u \in Users, NEW p \in ProjectIds, UseProject(c, u, p) PROVE Settled'
  <2> DEFINE rec == [pc |-> "use", group |-> p]
  <2>1. Go(c, rec) /\ Starts(c, "use", u, p) /\ UNCHANGED <<rows, mishap>>
    BY <1>2 DEF UseProject
  <2>2. CallOK(rec)
    BY DEF CallOK
  <2> HIDE DEF rec
  <2> QED BY <2>1, <2>2, BeginSettled
<1>3. ASSUME NEW u \in Users, Login(c, u) PROVE Settled'
  <2> DEFINE rec == [pc |-> IF u \in tenants THEN "lookup" ELSE "new", group |-> u]
  <2>1. Go(c, rec) /\ Starts(c, "login", u, u) /\ UNCHANGED <<rows, mishap>>
    BY <1>3 DEF Login
  <2>2. CallOK(rec)
    BY DEF CallOK, TenantIds
  <2> HIDE DEF rec
  <2> QED BY <2>1, <2>2, BeginSettled
<1>4. ASSUME StartReplica(c) PROVE Settled'
  <2> DEFINE rec == [pc |-> IF Provider \in tenants /\ labelled THEN "lookup" ELSE "provider", group |-> Provider]
  <2>1. Go(c, rec) /\ Starts(c, "start", Provider, Provider) /\ UNCHANGED <<rows, mishap>>
    BY <1>4 DEF StartReplica
  <2>2. CallOK(rec)
    BY DEF CallOK, TenantIds
  <2> HIDE DEF rec
  <2> QED BY <2>1, <2>2, BeginSettled
<1> QED BY <1>1, <1>2, <1>3, <1>4

LEMMA AcceptDeleteSettled ==
    ASSUME Shaped, Settled, NEW c \in Calls, AcceptDelete(c)
    PROVE  Settled'
<1> DEFINE rec == [call[c] EXCEPT !.pc = "join"]
<1>1. /\ UNCHANGED rows /\ Go(c, rec) /\ call[c].pc = "accept"
      /\ mishap' = mishap \cup When(acceptable[call[c].secret] = None, "overlap")
  BY DEF AcceptDelete, At, Hap
<1>2. CallOK(call[c])
  BY DEF Settled, CallsOK
<1>3. /\ DOMAIN rec = {"pc", "group", "member", "role", "secret", "rows"} /\ rec.pc = "join"
      /\ rec.group = call[c].group /\ rec.member = call[c].member /\ rec.role = call[c].role /\ rec.rows = call[c].rows
  BY <1>1, <1>2 DEF CallOK
<1> HIDE DEF rec
<1>4. CallOK(rec)
  BY <1>1, <1>2, <1>3 DEF CallOK
<1>5. mishap \subseteq mishap' /\ mishap' \subseteq Mishaps
  BY <1>1 DEF When, Settled, RowsTyped, Mishaps
<1> QED BY <1>1, <1>4, <1>5, MoveSettled

\* Invites are made, deleted and expire without the groups.
LEMMA RestSettled ==
    ASSUME Settled, UNCHANGED <<rows, call>>, mishap \subseteq mishap', mishap' \subseteq Mishaps
    PROVE  Settled'
<1> USE DEF Settled
<1>1. UNCHANGED <<tenants, labelled, projects, members, used>>
  BY DEF rows
<1>2. RowsTyped' /\ CallsOK'
  BY <1>1 DEF RowsTyped, CallsOK, CallOK
<1>3. RowsOfUsed' /\ SingleMembership' /\ NothingOrphaned'
  BY <1>1 DEF RowsOfUsed, SingleMembership, NothingOrphaned, Unless, There
<1>4. Owned'
  BY <1>1 DEF Owned, Calm, There, Owners, Comes, Founding, Looking, At
<1> QED BY <1>2, <1>3, <1>4

LEMMA InvitesSettled ==
    ASSUME Settled,
           \/ \E c \in Calls, u \in Users, g \in Groups, role \in Requested, s \in Secrets : Invite(c, u, g, role, s)
           \/ \E c \in Calls, u \in Users, g \in Groups, s \in Secrets : InviteDelete(c, u, g, s)
           \/ \E s \in Secrets : Expire(s)
    PROVE  Settled'
<1>1. UNCHANGED <<rows, call>> /\ mishap \subseteq mishap' /\ mishap' \subseteq mishap \cup {"strayed"}
  BY DEF Invite, InviteDelete, Expire, Hap, When
<1>2. mishap' \subseteq Mishaps
  BY <1>1 DEF Settled, RowsTyped, Mishaps
<1> QED BY <1>1, <1>2, RestSettled

LEMMA CreatedRow ==
    ASSUME Settled, NEW g, NEW m, NEW role \in Roles, CreateRow(g, m, role)
    PROVE  \/ members' = members /\ ~(There(g) /\ m \in tenants)
           \/ \E r \in RowSet : /\ members' = members \cup {r} /\ There(g)
                                /\ r.group = g /\ r.member = m /\ r.role = role
<1>1. CASE ~(There(g) /\ m \in tenants)
  BY <1>1 DEF CreateRow
<1>2. CASE There(g) /\ m \in tenants
  <2>1. FreeIds # {} /\ members' = members \cup {Row(NewId, g, m, role)}
    BY <1>2 DEF CreateRow
  <2>2. NewId \in 1..MaxRows
    BY <2>1 DEF NewId, FreeIds
  <2>3. g \in Groups /\ m \in TenantIds
    BY <1>2 DEF There, Groups, Settled, RowsTyped
  <2> DEFINE r == Row(NewId, g, m, role)
  <2>4. r \in RowSet /\ r.group = g /\ r.member = m /\ r.role = role
    BY <2>2, <2>3 DEF Row, RowSet
  <2> QED BY <1>2, <2>1, <2>4
<1> QED BY <1>1, <1>2

\* Who joins is no member yet, and who is to own the group gets in.
LEMMA JoinSettled ==
    ASSUME Shaped, Settled, NEW c \in Calls, Join(c)
    PROVE  Settled'
<1> USE DEF Settled
<1> DEFINE g == call[c].group
           m == call[c].member
           role == RoleOrViewer(call[c].role)
<1>1. /\ UNCHANGED <<tenants, labelled, projects, used>> /\ Go(c, Idle) /\ call[c].pc = "join"
      /\ CreateRow(g, m, role)
      /\ mishap' = mishap \cup When(RowsOf(g, m) # call[c].rows, "overlap")
  BY DEF Join, Finish, Hap, At
<1>2. g \in Groups /\ m \in TenantIds /\ role \in Roles /\ call[c].rows = {}
  BY <1>1 DEF CallsOK, CallOK, Asked, RoleOrViewer, Roles
<1>3. /\ \A h : Comes(c, h) => h = g /\ role = "owner"
      /\ \A h : Comes(c, h) => m \in Users \cap tenants \/ m = g \/ (g \in ProjectIds /\ m = projects[g])
  BY <1>1 DEF Comes, Founding, Looking, At, RoleOrViewer
<1> HIDE DEF g, m, role
<1>4. \/ members' = members /\ ~(There(g) /\ m \in tenants)
      \/ \E r \in RowSet : /\ members' = members \cup {r} /\ There(g)
                           /\ r.group = g /\ r.member = m /\ r.role = role
  BY <1>1, <1>2, CreatedRow
<1>5. CallsOK'
  BY <1>1, IdleOK, CallsOKKept
<1>6. mishap \subseteq mishap' /\ mishap' \subseteq Mishaps
  BY <1>1 DEF When, RowsTyped, Mishaps
<1>7. RowsTyped' /\ NothingOrphaned'
  BY <1>1, <1>4, <1>6 DEF RowsTyped, NothingOrphaned, Unless, There
<1>8. RowsOfUsed'
  <2>1. There(g) /\ g \in ProjectIds => projects[g] # Never
    BY IdsAssumption DEF There, RowsTyped
  <2> QED BY <1>1, <1>4, <2>1 DEF RowsOfUsed
<1>9. SingleMembership'
  <2> SUFFICES ASSUME "overlap" \notin mishap', NEW r \in members', NEW q \in members',
                      r.group = q.group, r.member = q.member
               PROVE  r = q
      BY DEF SingleMembership, Unless
  <2>1. RowsOf(g, m) = {}
    BY <1>1, <1>2 DEF When
  <2>2. \A x, y \in members : x.group = y.group /\ x.member = y.member => x = y
    BY <1>6 DEF SingleMembership, Unless
  <2>3. \A x \in members : ~(x.group = g /\ x.member = m)
    BY <2>1 DEF RowsOf
  <2> QED BY <1>4, <2>2, <2>3
<1>10. ASSUME Calm', NEW h \in Groups
       PROVE  /\ There(h)' => There(h)
              /\ Owners(h) # {} => Owners(h)' # {}
              /\ \A d \in Calls \ {c} : Comes(d, h) => Comes(d, h)'
              /\ There(h) /\ Comes(c, h) => Owners(h)' # {}
  <2>1. There(h)' => There(h)
    BY <1>1 DEF There
  <2>2. Owners(h) # {} => Owners(h)' # {}
    BY <1>4 DEF Owners
  <2>3. \A d \in Calls \ {c} : Comes(d, h) => Comes(d, h)'
    BY <1>1, OthersStay
  <2>4. ASSUME There(h), Comes(c, h) PROVE Owners(h)' # {}
    <3>1. h = g /\ role = "owner" /\ (m \in Users \cap tenants \/ m = g \/ (g \in ProjectIds /\ m = projects[g]))
      BY <1>3, <2>4
    <3>2. "stale" \notin mishap
      BY <1>6, <1>10 DEF Calm, Excuses
    <3>3. m \in tenants
      <4>1. CASE m = g
        BY <1>2, <2>4, <3>1, <4>1, IdsAssumption DEF There
      <4>2. CASE g \in ProjectIds /\ m = projects[g]
        BY <1>2, <3>2, <4>2 DEF NothingOrphaned, Unless
      <4> QED BY <3>1, <4>1, <4>2
    <3>4. PICK r \in RowSet : members' = members \cup {r} /\ r.group = g /\ r.role = role
      BY <1>4, <2>4, <3>1, <3>3
    <3> QED BY <3>1, <3>4 DEF Owners
  <2> QED BY <2>1, <2>2, <2>3, <2>4
<1>11. Owned'
  BY <1>1, <1>6, <1>10, OwnedKept
<1> QED BY <1>5, <1>7, <1>8, <1>9, <1>11

\* Rows are removed and changed: those of other ids stay, and the group keeps an owner.
LEMMA ChangeSettled ==
    ASSUME Inv, Settled, NEW c \in Calls, RemoveWrite(c) \/ UpdateWrite(c)
    PROVE  Settled'
<1> USE DEF Settled
<1> DEFINE row == call[c].row
           role == IF call[c].role = "unspecified" THEN row.role ELSE call[c].role
           Changed(r) == IF r.id # row.id THEN r ELSE [r EXCEPT !.role = role]
<1>1. /\ UNCHANGED <<tenants, labelled, projects, used>> /\ Go(c, Idle) /\ call[c].pc \in {"remove", "update"}
      /\ mishap' = mishap \cup When(Owners(row.group) # call[c].owners, "raced")
      /\ \/ call[c].pc = "remove" /\ members' = {r \in members : r.id # row.id}
         \/ call[c].pc = "update" /\ members' = {Changed(r) : r \in members}
  BY DEF RemoveWrite, UpdateWrite, Finish, Hap, At, LostOwner
<1>2. row \in RowSet /\ Guarded(call[c]) /\ (call[c].pc = "update" => role \in Roles)
  BY <1>1 DEF CallsOK, CallOK, Asked, RowSet
<1>3. ASSUME NEW r \in members, r.id = row.id PROVE r.group = row.group /\ r.member = row.member
  BY <1>1, <1>3 DEF Inv, PendingKnown, KnowsRow, HasRow, At
<1>4. ASSUME NEW r \in members, call[c].pc = "update"
      PROVE  /\ Changed(r) \in RowSet /\ Changed(r).id = r.id /\ Changed(r).group = r.group /\ Changed(r).member = r.member
             /\ r.id # row.id => Changed(r) = r
             /\ r.id = row.id => Changed(r).role = role
  <2>1. r \in RowSet
    BY DEF RowsTyped
  <2> QED BY <1>2, <1>4, <2>1 DEF RowSet
<1>5. role = row.role \/ role = call[c].role
  OBVIOUS
<1>6. call[c].role = "unspecified" => role = row.role
  OBVIOUS
<1>7. call[c].role # "unspecified" => role = call[c].role
  OBVIOUS
<1> HIDE DEF row, role, Changed
<1>8. Shaped /\ CallsOK'
  BY <1>1, IdleOK, CallsOKKept DEF Inv
<1>9. mishap \subseteq mishap' /\ mishap' \subseteq Mishaps
  BY <1>1 DEF When, RowsTyped, Mishaps
<1>10. RowsTyped' /\ NothingOrphaned'
  BY <1>1, <1>4, <1>9 DEF RowsTyped, NothingOrphaned, Unless, There
<1>11. RowsOfUsed'
  BY <1>1, <1>4 DEF RowsOfUsed
<1>12. SingleMembership'
  <2> SUFFICES ASSUME "overlap" \notin mishap', NEW r \in members', NEW q \in members',
                      r.group = q.group, r.member = q.member
               PROVE  r = q
      BY DEF SingleMembership, Unless
  <2>1. \A x, y \in members : x.group = y.group /\ x.member = y.member => x = y
    BY <1>9 DEF SingleMembership, Unless
  <2> QED BY <1>1, <1>4, <2>1
<1>13. ASSUME Calm', NEW h \in Groups, Owners(h) # {} PROVE Owners(h)' # {}
  <2>1. Owners(row.group) = call[c].owners
    BY <1>1, <1>13 DEF When, Calm, Excuses
  <2>2. PICK o \in members : o.group = h /\ o.role = "owner"
    BY <1>13 DEF Owners
  <2>3. CASE o.id # row.id
    <3>1. o \in members'
      BY <1>1, <1>4, <2>3
    <3> QED BY <2>2, <3>1 DEF Owners
  <2>4. CASE o.id = row.id
    <3>1. o \in call[c].owners
      BY <1>3, <2>1, <2>2, <2>4 DEF Owners
    <3>2. o = row
      BY <1>2, <2>4, <3>1 DEF Guarded, row
    <3>3. CASE call[c].pc = "update" /\ role = "owner"
      <4>1. Changed(o) \in members' /\ Changed(o).group = h /\ Changed(o).role = "owner"
        BY <1>1, <1>4, <2>2, <2>4, <3>3
      <4> QED BY <4>1 DEF Owners
    <3>4. CASE ~(call[c].pc = "update" /\ role = "owner")
      <4>1. call[c].pc = "update" => call[c].role # "owner"
        BY <1>7, <3>4
      <4>2. PICK q \in call[c].owners : q.id # row.id
        BY <1>2, <2>2, <3>2, <4>1 DEF Guarded, row
      <4>3. q \in members /\ q.group = h /\ q.role = "owner"
        BY <2>1, <2>2, <3>2, <4>2 DEF Owners
      <4>4. q \in members'
        BY <1>1, <1>4, <4>2, <4>3
      <4> QED BY <4>3, <4>4 DEF Owners
    <3> QED BY <3>3, <3>4
  <2> QED BY <2>3, <2>4
<1>14. ASSUME Calm', NEW h \in Groups
       PROVE  /\ There(h)' => There(h)
              /\ Owners(h) # {} => Owners(h)' # {}
              /\ \A d \in Calls \ {c} : Comes(d, h) => Comes(d, h)'
              /\ ~Comes(c, h)
  BY <1>1, <1>8, <1>13, <1>14, OthersStay DEF There, Comes, Founding, Looking, At
<1>15. Owned'
  BY <1>1, <1>8, <1>9, <1>14, OwnedKept
<1> QED BY <1>8, <1>10, <1>11, <1>12, <1>15

LEMMA InvitesTypedKept ==
    ASSUME Inv, InvitesTyped, [Next]_vars
    PROVE  InvitesTyped'
<1>1. ASSUME NEW c \in Calls,
             \/ Join(c) \/ RemoveWrite(c) \/ UpdateWrite(c) \/ DeleteProjectWrite(c) \/ DeleteTenantWrite(c) \/ UseWrite(c)
             \/ LoginCreate(c) \/ StartReplica(c) \/ CreateProvider(c) \/ PatchProvider(c) \/ LookupOwner(c) \/ Fail(c)
      PROVE  UNCHANGED <<acceptable, listed>>
  BY <1>1 DEF invites, Join, RemoveWrite, UpdateWrite, DeleteProjectWrite, DeleteTenantWrite, UseWrite, LoginCreate,
         StartReplica, CreateProvider, PatchProvider, LookupOwner, Fail
<1>2. ASSUME NEW c \in Calls, NEW v, NEW g, NEW m, NEW role, NEW s,
             \/ RemoveMember(c, v, g, m) \/ UpdateMember(c, v, g, m, role) \/ UpdateInherited(c, v, g, m, role)
             \/ InviteAccept(c, v, s) \/ CreateProject(c, v, m, g) \/ CreateTenant(c, v, m) \/ DeleteGroup(c, v, g)
             \/ UseProject(c, v, g) \/ Login(c, v) \/ AdminCreateTenant(c, m) \/ AdminAddMember(c, g, m, role)
      PROVE  UNCHANGED <<acceptable, listed>>
  BY <1>2 DEF invites, RemoveMember, UpdateMember, UpdateInherited, InviteAccept, CreateProject,
         CreateTenant, DeleteGroup, UseProject, Login, AdminCreateTenant, AdminAddMember
<1>3. ASSUME UNCHANGED <<acceptable, listed>> PROVE InvitesTyped'
  BY <1>3 DEF InvitesTyped
<1>4. ASSUME NEW c \in Calls, AcceptDelete(c) PROVE InvitesTyped'
  <2> PICK s \in Secrets : s = call[c].secret
    BY <1>4 DEF AcceptDelete, Inv, PendingKnown, Accepts
  <2> DEFINE v == IF acceptable[s] = Never THEN Never ELSE None
  <2>1. acceptable' = [acceptable EXCEPT ![s] = v] /\ listed' \subseteq listed
    BY <1>4 DEF AcceptDelete, DeleteInvite
  <2>2. v \in {None, Never}
    OBVIOUS
  <2> HIDE DEF v
  <2> QED BY <2>1, <2>2 DEF InvitesTyped
<1>5. ASSUME NEW c \in Calls, NEW u \in Users, NEW g \in Groups, NEW role \in Requested, NEW s \in Secrets,
             Invite(c, u, g, role, s)
      PROVE  InvitesTyped'
  <2>1. role \in Roles
    BY <1>5, RolesAssumption DEF Invite
  <2> QED BY <1>5, <2>1 DEF Invite, InvitesTyped
<1>6. ASSUME NEW c \in Calls, NEW u \in Users, NEW g \in Groups, NEW s \in Secrets, InviteDelete(c, u, g, s)
      PROVE  InvitesTyped'
  BY <1>6 DEF InviteDelete, DeleteInvite, InvitesTyped
<1>7. ASSUME NEW s \in Secrets, Expire(s) PROVE InvitesTyped'
  BY <1>7 DEF Expire, InvitesTyped
<1>8. CASE UNCHANGED vars
  BY <1>3, <1>8 DEF vars
<1>9. ASSUME NEW c \in Calls,
             \/ Join(c) \/ RemoveWrite(c) \/ UpdateWrite(c) \/ AcceptDelete(c)
             \/ DeleteProjectWrite(c) \/ DeleteTenantWrite(c) \/ UseWrite(c)
             \/ LoginCreate(c) \/ StartReplica(c) \/ CreateProvider(c) \/ PatchProvider(c) \/ LookupOwner(c)
             \/ Fail(c)
      PROVE  InvitesTyped'
  BY <1>1, <1>3, <1>4, <1>9
<1> QED BY <1>2, <1>3, <1>5, <1>6, <1>7, <1>8, <1>9 DEF Next

LEMMA NextSettled ==
    ASSUME Inv, InvitesTyped, Settled, [Next]_vars
    PROVE  Settled'
<1>1. Shaped
  BY DEF Inv
<1>2. ASSUME NEW c \in Calls,
             \/ Join(c) \/ RemoveWrite(c) \/ UpdateWrite(c) \/ AcceptDelete(c)
             \/ DeleteProjectWrite(c) \/ DeleteTenantWrite(c) \/ UseWrite(c)
             \/ LoginCreate(c) \/ StartReplica(c) \/ CreateProvider(c) \/ PatchProvider(c) \/ LookupOwner(c)
             \/ Fail(c)
      PROVE  Settled'
  BY <1>1, <1>2, JoinSettled, ChangeSettled, AcceptDeleteSettled, DeleteProjectSettled, DeleteTenantSettled, UseSettled,
     LoginsSettled, OthersBegin, LookupSettled, FailSettled
<1>3. CASE UNCHANGED vars
  <2>1. UNCHANGED <<rows, call>> /\ UNCHANGED mishap
    BY <1>3 DEF vars, rows
  <2>2. mishap \subseteq mishap' /\ mishap' \subseteq Mishaps
    BY <2>1 DEF Settled, RowsTyped
  <2> QED BY <2>1, <2>2, RestSettled
<1>4. ASSUME NEW c \in Calls, NEW u \in Users, NEW g \in Groups, NEW m \in TenantIds, RemoveMember(c, u, g, m)
      PROVE  Settled'
  BY <1>4, ChangesBegin
<1>5. ASSUME NEW c \in Calls, NEW u \in Users, NEW g \in Groups, NEW m \in TenantIds, NEW role \in Requested,
             UpdateMember(c, u, g, m, role)
      PROVE  Settled'
  BY <1>5, ChangesBegin
<1>6. ASSUME NEW c \in Calls, NEW u \in Users, NEW p \in ProjectIds, NEW m \in TenantIds, NEW role \in Requested,
             UpdateInherited(c, u, p, m, role)
      PROVE  Settled'
  BY <1>1, <1>6, JoinsBegin
<1>7. ASSUME NEW c \in Calls, NEW u \in Users, NEW g \in Groups, NEW role \in Requested, NEW s \in Secrets,
             Invite(c, u, g, role, s)
      PROVE  Settled'
  BY <1>7, InvitesSettled
<1>8. ASSUME NEW c \in Calls, NEW u \in Users, NEW g \in Groups, NEW s \in Secrets, InviteDelete(c, u, g, s)
      PROVE  Settled'
  BY <1>8, InvitesSettled
<1>9. ASSUME NEW c \in Calls, NEW u \in Users, NEW s \in Secrets, InviteAccept(c, u, s) PROVE Settled'
  BY <1>1, <1>9, JoinsBegin
<1>10. ASSUME NEW c \in Calls, NEW u \in Users, NEW t \in TenantIds, NEW p \in ProjectIds, CreateProject(c, u, t, p)
       PROVE  Settled'
  BY <1>1, <1>10, CreateProjectSettled
<1>11. ASSUME NEW c \in Calls, NEW u \in Users, NEW t \in OtherTenants, CreateTenant(c, u, t) PROVE Settled'
  BY <1>1, <1>11, CreateTenantSettled
<1>12. ASSUME NEW c \in Calls, NEW u \in Users, NEW g \in Groups, DeleteGroup(c, u, g) PROVE Settled'
  BY <1>1, <1>12, OthersBegin
<1>13. ASSUME NEW c \in Calls, NEW u \in Users, NEW p \in ProjectIds, UseProject(c, u, p) PROVE Settled'
  BY <1>1, <1>13, OthersBegin
<1>14. ASSUME NEW c \in Calls, NEW u \in Users, Login(c, u) PROVE Settled'
  BY <1>1, <1>14, OthersBegin
<1>15. ASSUME NEW c \in Calls, NEW t \in OtherTenants, AdminCreateTenant(c, t) PROVE Settled'
  BY <1>1, <1>15, CreateTenantSettled
<1>16. ASSUME NEW c \in Calls, NEW t \in TenantIds, NEW m \in TenantIds, NEW role \in Requested, AdminAddMember(c, t, m, role)
       PROVE  Settled'
  BY <1>1, <1>16, JoinsBegin
<1>17. ASSUME NEW s \in Secrets, Expire(s) PROVE Settled'
  BY <1>17, InvitesSettled
<1> QED BY <1>2, <1>3, <1>4, <1>5, <1>6, <1>7, <1>8, <1>9, <1>10, <1>11, <1>12, <1>13, <1>14, <1>15, <1>16, <1>17 DEF Next

\* Both ways to compute the role of a member take the stronger one of at most two.
LEMMA RanksDiffer == \A x, y \in Roles : Rank[x] \in Nat /\ (Rank[x] = Rank[y] => x = y)
BY DEF Roles, Rank

LEMMA StrongestIs ==
    ASSUME NEW S \in SUBSET Roles, NEW x \in S, \A y \in S : Rank[x] <= Rank[y]
    PROVE  Strongest(S) = x
<1> DEFINE z == CHOOSE w \in S : \A y \in S : Rank[w] <= Rank[y]
<1>1. z \in S /\ \A y \in S : Rank[z] <= Rank[y]
  OBVIOUS
<1>2. Strongest(S) = z
  BY DEF Strongest
<1> HIDE DEF z
<1>3. Rank[z] = Rank[x]
  BY <1>1, RanksDiffer
<1> QED BY <1>1, <1>2, <1>3, RanksDiffer

LEMMA RolesOfOne ==
    ASSUME RowsTyped, SingleMembership, "overlap" \notin mishap, NEW g, NEW u
    PROVE  RolesOf(g, u) = {} \/ \E x \in Roles : RolesOf(g, u) = {x}
<1>1. CASE RowsOf(g, u) = {}
  BY <1>1 DEF RolesOf
<1>2. CASE RowsOf(g, u) # {}
  <2>1. PICK r \in RowsOf(g, u) : TRUE
    BY <1>2
  <2>2. \A q \in RowsOf(g, u) : q = r
    BY <2>1 DEF SingleMembership, Unless, RowsOf
  <2>3. r.role \in Roles
    BY <2>1 DEF RowsOf, RowsTyped, RowSet
  <2> QED BY <2>1, <2>2, <2>3 DEF RolesOf
<1> QED BY <1>1, <1>2

LEMMA RolesAgreeing ==
    ASSUME RowsTyped, SingleMembership
    PROVE  RolesAgree
<1> SUFFICES ASSUME "overlap" \notin mishap, NEW p \in ProjectIds, NEW u \in Users, "guest" \notin RolesOf(p, u)
             PROVE  RoleShown(p, u) = ProjectRole(u, p)
    BY DEF RolesAgree, Unless
<1> DEFINE D == RolesOf(p, u)
           I == RolesOf(projects[p], u) \ {"guest"}
           weaker == WeakerThan(Strongest(D), Strongest(I))
<1>1. D = {} \/ \E x \in Roles : D = {x}
  BY RolesOfOne
<1>2. I = {} \/ \E x \in Roles : I = {x}
  BY RolesOfOne
<1>3. ProjectRole(u, p) = Strongest(D \cup I)
  <2>1. (RolesOf(p, u) \cup RolesOf(projects[p], u)) \ {"guest"} = D \cup I
    OBVIOUS
  <2> QED BY <2>1 DEF ProjectRole
<1>4. RoleShown(p, u) = IF Strongest(I) # None /\ (Strongest(D) = None \/ weaker) THEN Strongest(I) ELSE Strongest(D)
  BY DEF RoleShown
<1>5. weaker = (Rank[Strongest(D)] > Rank[Strongest(I)])
  BY DEF WeakerThan
<1> HIDE DEF D, I, weaker
<1>6. Strongest({}) = None
  BY DEF Strongest
<1>7. \A x \in Roles : Strongest({x}) = x /\ x # None
  BY StrongestIs, RanksDiffer, RolesAssumption
<1>8. CASE D = {}
  BY <1>2, <1>3, <1>4, <1>6, <1>7, <1>8
<1>9. CASE I = {}
  BY <1>1, <1>3, <1>4, <1>6, <1>7, <1>9
<1>10. ASSUME NEW x \in Roles, NEW y \in Roles, D = {x}, I = {y} PROVE RoleShown(p, u) = ProjectRole(u, p)
  <2>1. Strongest(D) = x /\ Strongest(I) = y /\ x # None /\ y # None
    BY <1>7, <1>10
  <2>2. Rank[x] \in Nat /\ Rank[y] \in Nat
    BY RanksDiffer
  <2>3. CASE Rank[x] > Rank[y]
    <3>1. Strongest(D \cup I) = y
      BY <1>10, <2>2, <2>3, StrongestIs
    <3> QED BY <1>3, <1>4, <1>5, <2>1, <2>3, <3>1
  <2>4. CASE ~(Rank[x] > Rank[y])
    <3>1. Strongest(D \cup I) = x
      BY <1>10, <2>2, <2>4, StrongestIs
    <3> QED BY <1>3, <1>4, <1>5, <2>1, <2>4, <3>1
  <2> QED BY <2>3, <2>4
<1> QED BY <1>1, <1>2, <1>8, <1>9, <1>10

LEMMA MembershipInvariant == Spec => [](Inv /\ InvitesTyped /\ Settled)
<1>1. Init => Inv /\ InvitesTyped /\ Settled
  BY InitInv, InitSettled
<1>2. Inv /\ InvitesTyped /\ Settled /\ [Next]_vars => (Inv /\ InvitesTyped /\ Settled)'
  BY NextInv, InvitesTypedKept, NextSettled
<1> QED BY <1>1, <1>2, PTL DEF Spec

\* Every tenant and every project has an owner, or one who is about to become it, unless the last two owners went at the
\* same time, a creation stopped halfway or met a deletion, or a login found its user a lesser member of its own tenant
\* (checkIfMemberIsLastOwner, createProjectMembership, ensureTenant, EnsureProviderTenant).
THEOREM EveryGroupOwned == Spec => []HasOwner
<1>1. Inv /\ InvitesTyped /\ Settled => HasOwner
  <2>1. \A c, g : Comes(c, g) => Joins(c, g) \/ (At(c, "lookup") /\ call[c].group = g)
    BY DEF Comes, Founding, Looking, Joins
  <2> QED BY <2>1 DEF Settled, Owned, Calm, Excuses, HasOwner, Unless
<1> QED BY <1>1, MembershipInvariant, PTL

\* Rows and invites are of their types; nobody is a member of a group twice unless two calls added it at the same time;
\* nothing outlives its project or tenant unless it came up during the deletion; and the role that a project shows is the
\* one that requests have (project.go Get, token permissions).
THEOREM MembersSound == Spec => []MembersAgree
<1>1. Inv /\ InvitesTyped /\ Settled => MembersAgree
  <2>1. RowsTyped /\ InvitesTyped => TypeOK
    BY DEF RowsTyped, InvitesTyped, TypeOK, RowSet
  <2> QED BY <2>1, RolesAgreeing DEF Settled, MembersAgree
<1> QED BY <1>1, MembershipInvariant, PTL

=============================================================================
