---------------------------- MODULE TokensProofs ----------------------------
(***************************************************************************)
(* For any number of tokens and calls, any requests and any lifetimes:     *)
(* what was revoked or has expired is gone, what is stored permits nothing *)
(* beyond the memberships of its user and can be verified while it lives,  *)
(* and no request is given more than its session and its user have.        *)
(*                                                                         *)
(* The store has no versions: a call that read a row writes it back, or    *)
(* makes it again.  The invariant Inv says which pending writes can do so: *)
(* those of new tokens, whose ids nobody knows, and those of updates whose *)
(* token is still there, or was taken away meanwhile and is then in raced. *)
(* Sound relates rows and pending writes to the keys that sign them.       *)
(***************************************************************************)
EXTENDS Tokens, TLAPS

Lasting(tok) == {"life", "issued", "kept"} \subseteq DOMAIN tok /\ tok.life \in Nat \ {0}

RequestsLasting ==
    /\ "requests" \in DOMAIN script
    /\ \A q \in script.requests : q.life \in Nat \ {0}
IdsUsed == DOMAIN store \cup revoked \cup raced \subseteq used
RowsKept ==
    \A i \in DOMAIN store :
      /\ Lasting(store[i]) /\ store[i].issued \in Nat
      /\ i \notin raced => now < Expires(store[i]) /\ store[i].kept = Expires(store[i])

\* Pending writes: a new token has an id of its own, and is in raced when it has expired; an update keeps the lifetime.
ToSign(c) == call[c].pc \in {"sign", "renew", "jwt"} => {"pc", "tok"} \subseteq DOMAIN call[c] /\ Lasting(call[c].tok)
ToStore(c) ==
    At(c, "store") =>
      /\ Lasting(call[c].tok) /\ call[c].tok.issued \in Nat
      /\ call[c].id \in used \ (DOMAIN store \cup revoked)
      /\ call[c].id \notin raced => now < Expires(call[c].tok)
ToSet(c) ==
    At(c, "set") =>
      /\ Lasting(call[c].tok) /\ call[c].tok.issued \in Nat
      /\ call[c].id \in used
      /\ \/ call[c].id \in raced
         \/ /\ call[c].id \in DOMAIN store
            /\ call[c].tok.issued = store[call[c].id].issued /\ call[c].tok.life = store[call[c].id].life
OfItsOwn(c, d) == At(c, "store") /\ call[d].pc \in {"store", "set"} /\ call[c].id = call[d].id => c = d
Pending ==
    /\ DOMAIN call = Calls
    /\ \A c \in Calls : ToSign(c) /\ ToStore(c) /\ ToSet(c)
    /\ \A c, d \in Calls : OfItsOwn(c, d)

Inv == now \in Nat /\ RequestsLasting /\ IdsUsed /\ RowsKept /\ Pending /\ RevokedIsGone

LEMMA InitInv == Init => Inv
<1> SUFFICES ASSUME Init PROVE Inv
    OBVIOUS
<1>1. PICK s \in Scenarios : store = s.tokens /\ used = DOMAIN s.tokens /\ script = s.script
  BY DEF Init
<1>2. now = 0 /\ call = [c \in Calls |-> Idle] /\ revoked = {} /\ raced = {}
  BY DEF Init
<1>3. RequestsLasting
  BY <1>1, ScenarioAssumption DEF RequestsLasting, Asked, Held
<1>4. IdsUsed
  BY <1>1, <1>2 DEF IdsUsed
<1>5. RowsKept
  BY <1>1, <1>2, ScenarioAssumption DEF RowsKept, Lasting, Expires, Row, Held
<1>6. Pending
  BY <1>2 DEF Pending, ToSign, ToStore, ToSet, OfItsOwn, At, Idle
<1> QED BY <1>2, <1>3, <1>4, <1>5, <1>6 DEF Inv, RevokedIsGone

\* A call that begins may sign a token, or update one that is stored.
LEMMA BeginInv ==
    ASSUME Inv, NEW c \in Calls, NEW q, NEW rec, Starts(c, q), Go(c, rec), UNCHANGED <<tokenVars, now>>,
           \/ rec.pc = "sign" /\ {"pc", "tok"} \subseteq DOMAIN rec /\ Lasting(rec.tok)
           \/ /\ rec.pc = "set" /\ Lasting(rec.tok) /\ rec.id \in DOMAIN store
              /\ rec.tok.issued = store[rec.id].issued /\ rec.tok.life = store[rec.id].life
    PROVE  Inv'
<1>1. UNCHANGED <<store, used, revoked, raced, now>>
  BY DEF tokenVars
<1>2. RequestsLasting'
  BY DEF Inv, RequestsLasting, Starts
<1>3. IdsUsed' /\ RowsKept' /\ RevokedIsGone' /\ now' \in Nat
  BY <1>1 DEF Inv, IdsUsed, RowsKept, RevokedIsGone, Expires
<1>4. DOMAIN call' = Calls /\ \A d \in Calls : call'[d] = IF d = c THEN rec ELSE call[d]
  BY DEF Go, Inv, Pending
<1>5. ToSign(c)' /\ ToStore(c)' /\ ToSet(c)'
  BY <1>1, <1>4 DEF Inv, IdsUsed, RowsKept, ToSign, ToStore, ToSet, At
<1>6. ASSUME NEW d \in Calls, d # c PROVE ToSign(d)' /\ ToStore(d)' /\ ToSet(d)'
  <2>1. ToSign(d) /\ ToStore(d) /\ ToSet(d) /\ call'[d] = call[d]
    BY <1>4, <1>6 DEF Inv, Pending
  <2> QED BY <1>1, <2>1 DEF ToSign, ToStore, ToSet, At
<1>7. ASSUME NEW d \in Calls, NEW e \in Calls PROVE OfItsOwn(d, e)'
  <2>1. OfItsOwn(d, e) /\ ToStore(d)
    BY DEF Inv, Pending
  <2> QED BY <1>4, <2>1 DEF OfItsOwn, ToStore, At
<1> QED BY <1>2, <1>3, <1>4, <1>5, <1>6, <1>7 DEF Inv, Pending

\* A call that signs a token goes on.
LEMMA GoesOn ==
    ASSUME Inv, NEW c \in Calls, call[c].pc \in {"sign", "renew"}, NEW rec, Go(c, rec), rec.pc \in {"renew", "jwt"},
           {"pc", "tok"} \subseteq DOMAIN rec, Lasting(rec.tok), UNCHANGED <<tokenVars, now, script>>
    PROVE  Inv'
<1>1. UNCHANGED <<store, used, revoked, raced, now, script>>
  BY DEF tokenVars
<1>2. DOMAIN call' = Calls /\ \A d \in Calls : call'[d] = IF d = c THEN rec ELSE call[d]
  BY DEF Go, Inv, Pending
<1>3. ToSign(c)' /\ ToStore(c)' /\ ToSet(c)'
  BY <1>2 DEF ToSign, ToStore, ToSet, At, Lasting
<1>4. ASSUME NEW d \in Calls, d # c PROVE ToSign(d)' /\ ToStore(d)' /\ ToSet(d)'
  <2>1. ToSign(d) /\ ToStore(d) /\ ToSet(d) /\ call'[d] = call[d]
    BY <1>2, <1>4 DEF Inv, Pending
  <2> QED BY <1>1, <2>1 DEF ToSign, ToStore, ToSet, At
<1>5. ASSUME NEW d \in Calls, NEW e \in Calls PROVE OfItsOwn(d, e)'
  <2>1. OfItsOwn(d, e)
    BY DEF Inv, Pending
  <2> QED BY <1>2, <2>1 DEF OfItsOwn, At
<1>6. RequestsLasting' /\ IdsUsed' /\ RowsKept' /\ RevokedIsGone' /\ now' \in Nat
  BY <1>1 DEF Inv, RequestsLasting, IdsUsed, RowsKept, RevokedIsGone, Expires
<1> QED BY <1>2, <1>3, <1>4, <1>5, <1>6 DEF Inv, Pending

LEMMA ChosenInv ==
    ASSUME Inv, NEW c \in Calls, call[c].pc \in {"sign", "renew"}, NEW k, Chosen(c, k), UNCHANGED <<tokenVars, now, script>>
    PROVE  Inv'
<1> DEFINE tok == [call[c].tok EXCEPT !.key = k, !.chosen = now]
           rec == [call[c] EXCEPT !.pc = "jwt", !.tok = tok]
<1>1. {"pc", "tok"} \subseteq DOMAIN call[c] /\ Lasting(call[c].tok)
  BY DEF Inv, Pending, ToSign
<1>2. Go(c, rec)
  BY DEF Chosen
<1>3. Lasting(tok)
  BY <1>1 DEF Lasting
<1> HIDE DEF tok
<1>4. rec.pc = "jwt" /\ rec.tok = tok /\ DOMAIN rec = DOMAIN call[c]
  BY <1>1
<1> HIDE DEF rec
<1> QED BY <1>1, <1>2, <1>3, <1>4, GoesOn

\* A token gets an id that nobody has used.
LEMMA IssueInv == ASSUME Inv, NEW c \in Calls, Jwt(c) PROVE Inv'
<1> DEFINE tok == [call[c].tok EXCEPT !.issued = now]
           rec == [pc |-> "store", id |-> FreshId, tok |-> tok]
<1>0. Go(c, rec) /\ At(c, "jwt") /\ UNCHANGED <<store, revoked, raced, now, script>>
  BY DEF Jwt
<1>1. FreshId \in Ids \ used /\ used' = used \cup {FreshId}
  BY DEF Jwt, FreshId
<1>2. DOMAIN call' = Calls /\ \A d \in Calls : call'[d] = IF d = c THEN rec ELSE call[d]
  BY <1>0 DEF Go, Inv, Pending
<1>3. Lasting(tok) /\ tok.issued = now /\ now < Expires(tok) /\ now \in Nat
  <2>1. Lasting(call[c].tok) /\ now \in Nat
    BY <1>0 DEF Inv, Pending, ToSign, At
  <2>2. DOMAIN tok = DOMAIN call[c].tok /\ tok.issued = now /\ tok.life = call[c].tok.life
    BY <2>1 DEF Lasting
  <2> HIDE DEF tok
  <2> QED BY <2>1, <2>2 DEF Lasting, Expires
<1>4. IdsUsed' /\ RowsKept' /\ RequestsLasting' /\ RevokedIsGone' /\ now' \in Nat
  BY <1>0, <1>1 DEF Inv, IdsUsed, RowsKept, RequestsLasting, RevokedIsGone, Expires
<1> HIDE DEF tok
<1>5. ToSign(c)' /\ ToStore(c)' /\ ToSet(c)'
  BY <1>0, <1>1, <1>2, <1>3 DEF Inv, IdsUsed, ToSign, ToStore, ToSet, At
<1>6. ASSUME NEW d \in Calls, d # c PROVE ToSign(d)' /\ ToStore(d)' /\ ToSet(d)'
  <2>1. ToSign(d) /\ ToStore(d) /\ ToSet(d) /\ call'[d] = call[d]
    BY <1>2, <1>6 DEF Inv, Pending
  <2> QED BY <1>0, <1>1, <2>1 DEF ToSign, ToStore, ToSet, At
<1>7. ASSUME NEW d \in Calls, NEW e \in Calls PROVE OfItsOwn(d, e)'
  <2>1. OfItsOwn(d, e) /\ ToStore(d) /\ ToStore(e) /\ ToSet(e)
    BY DEF Inv, Pending
  <2> QED BY <1>1, <1>2, <2>1 DEF OfItsOwn, ToStore, ToSet, At
<1> QED BY <1>2, <1>4, <1>5, <1>6, <1>7 DEF Inv, Pending

\* Nothing that is written brings back what is gone, or lives longer than what it replaces.
LEMMA WriteInv ==
    ASSUME Inv, NEW c \in Calls, At(c, "set") \/ At(c, "store"), Write(c), Go(c, Idle),
           UNCHANGED <<used, revoked, raced, now, script>>
    PROVE  Inv'
<1> DEFINE id == call[c].id
           tok == call[c].tok
           row == [tok EXCEPT !.kept = KeptUntil(tok)]
<1>1. DOMAIN store' = DOMAIN store \cup {id} /\ \A i \in DOMAIN store' : store'[i] = IF i = id THEN row ELSE store[i]
  BY DEF Write
<1>2. DOMAIN call' = Calls /\ call'[c] = Idle /\ \A d \in Calls \ {c} : call'[d] = call[d]
  BY DEF Go, Inv, Pending
<1>3. ToStore(c) /\ ToSet(c)
  BY DEF Inv, Pending
<1>4. Lasting(tok) /\ tok.issued \in Nat /\ id \in used
  BY <1>3 DEF ToStore, ToSet, Inv
<1>5. Lasting(row) /\ row.issued = tok.issued /\ row.life = tok.life /\ row.kept = KeptUntil(tok)
  BY <1>4 DEF Lasting
<1>6. id \notin raced => now < Expires(tok) /\ id \notin revoked
  <2>1. CASE At(c, "store")
    BY <2>1, <1>3 DEF ToStore
  <2>2. CASE At(c, "set")
    <3> SUFFICES ASSUME id \notin raced PROVE now < Expires(tok) /\ id \notin revoked
        OBVIOUS
    <3>1. id \in DOMAIN store /\ tok.issued = store[id].issued /\ tok.life = store[id].life
      BY <2>2, <1>3 DEF ToSet
    <3> QED BY <3>1 DEF Inv, RowsKept, RevokedIsGone, Expires
  <2> QED BY <2>1, <2>2
<1> HIDE DEF row, tok, id
<1>7. IdsUsed' /\ RequestsLasting' /\ RevokedIsGone' /\ now' \in Nat
  BY <1>1, <1>4, <1>6 DEF Inv, IdsUsed, RequestsLasting, RevokedIsGone
<1>8. RowsKept'
  <2> SUFFICES ASSUME NEW i \in DOMAIN store'
               PROVE  /\ Lasting(store'[i]) /\ store'[i].issued \in Nat
                      /\ i \notin raced => now < Expires(store'[i]) /\ store'[i].kept = Expires(store'[i])
      BY DEF RowsKept, Expires, Lasting
  <2>1. CASE i = id
    <3>1. store'[i] = row
      BY <2>1, <1>1
    <3>2. Expires(row) = Expires(tok)
      BY <1>5 DEF Expires
    <3> QED BY <3>1, <3>2, <1>4, <1>5, <1>6, <2>1 DEF KeptUntil
  <2>2. CASE i # id
    BY <2>2, <1>1 DEF Inv, RowsKept
  <2> QED BY <2>1, <2>2
<1>9. ToSign(c)' /\ ToStore(c)' /\ ToSet(c)'
  BY <1>2 DEF ToSign, ToStore, ToSet, At, Idle
<1>10. ASSUME NEW d \in Calls, d # c PROVE ToSign(d)' /\ ToStore(d)' /\ ToSet(d)'
  <2>1. ToSign(d) /\ ToStore(d) /\ ToSet(d) /\ OfItsOwn(c, d) /\ OfItsOwn(d, c) /\ call'[d] = call[d]
    BY <1>2, <1>10 DEF Inv, Pending
  <2>2. ToSign(d)'
    BY <2>1 DEF ToSign
  <2>3. ToStore(d)'
    <3> SUFFICES ASSUME At(d, "store") PROVE call[d].id # id
        BY <2>1, <1>1 DEF ToStore, At, Expires
    <3> QED BY <2>1, <1>10 DEF OfItsOwn, At, id
  <2>4. ToSet(d)'
    <3> SUFFICES ASSUME At(d, "set"), call[d].id = id, id \notin raced
                 PROVE  row.issued = call[d].tok.issued /\ row.life = call[d].tok.life
        BY <2>1, <1>1 DEF ToSet, At
    <3>1. id \in DOMAIN store /\ call[d].tok.issued = store[id].issued /\ call[d].tok.life = store[id].life
      BY <2>1 DEF ToSet
    <3>2. At(c, "set")
      BY <3>1, <1>3 DEF ToStore, id
    <3>3. tok.issued = store[id].issued /\ tok.life = store[id].life
      BY <3>2, <1>3 DEF ToSet, id, tok
    <3> QED BY <3>1, <3>3, <1>5
  <2> QED BY <2>2, <2>3, <2>4
<1>11. ASSUME NEW d \in Calls, NEW e \in Calls PROVE OfItsOwn(d, e)'
  <2>1. OfItsOwn(d, e)
    BY DEF Inv, Pending
  <2> QED BY <1>2, <2>1 DEF OfItsOwn, At, Idle
<1> QED BY <1>2, <1>7, <1>8, <1>9, <1>10, <1>11 DEF Inv, Pending

\* What is taken from the store while it is updated, or expires before it is stored, is remembered in raced.
LEMMA RemoveInv ==
    ASSUME Inv, NEW gone \in SUBSET DOMAIN store, Remove(gone), NEW late \in SUBSET used,
           raced' = raced \cup {i \in gone : Updating(i)} \cup late,
           revoked \subseteq revoked', revoked' \subseteq revoked \cup gone,
           UNCHANGED <<call, used>>,
           now' = now \/ now' = now + 1,
           now' # now => /\ \A d \in Calls : At(d, "store") /\ Expires(call[d].tok) <= now' => call[d].id \in late
                         /\ \A i \in DOMAIN store : store[i].kept = now' => i \in gone,
           RequestsLasting'
    PROVE  Inv'
<1>1. DOMAIN store' = DOMAIN store \ gone /\ \A i \in DOMAIN store' : store'[i] = store[i]
  BY DEF Remove
<1>2. IdsUsed' /\ RevokedIsGone' /\ now' \in Nat
  BY <1>1 DEF Inv, IdsUsed, RevokedIsGone
<1>3. RowsKept'
  <2> SUFFICES ASSUME NEW i \in DOMAIN store'
               PROVE  /\ Lasting(store[i]) /\ store[i].issued \in Nat
                      /\ i \notin raced => now' < Expires(store[i]) /\ store[i].kept = Expires(store[i])
      BY <1>1 DEF RowsKept, Expires, Lasting
  <2>1. /\ Lasting(store[i]) /\ store[i].issued \in Nat
        /\ i \notin raced => now < Expires(store[i]) /\ store[i].kept = Expires(store[i])
    BY <1>1 DEF Inv, RowsKept
  <2>2. Expires(store[i]) \in Nat /\ now \in Nat
    BY <2>1 DEF Lasting, Expires, Inv
  <2>3. now' # now => store[i].kept # now'
    BY <1>1
  <2> QED BY <2>1, <2>2, <2>3
<1>4. ASSUME NEW d \in Calls PROVE ToSign(d)' /\ ToStore(d)' /\ ToSet(d)'
  <2>1. ToSign(d) /\ ToStore(d) /\ ToSet(d)
    BY DEF Inv, Pending
  <2>2. ToSign(d)'
    BY <2>1 DEF ToSign
  <2>3. ToStore(d)'
    <3> SUFFICES ASSUME At(d, "store")
                 PROVE  /\ Lasting(call[d].tok) /\ call[d].tok.issued \in Nat
                        /\ call[d].id \in used \ (DOMAIN store' \cup revoked')
                        /\ call[d].id \notin raced' => now' < Expires(call[d].tok)
        BY DEF ToStore, At, Lasting, Expires
    <3>1. /\ Lasting(call[d].tok) /\ call[d].tok.issued \in Nat
          /\ call[d].id \in used \ (DOMAIN store \cup revoked)
          /\ call[d].id \notin raced => now < Expires(call[d].tok)
      BY <2>1 DEF ToStore
    <3>2. Expires(call[d].tok) \in Nat /\ now \in Nat
      BY <3>1 DEF Lasting, Expires, Inv
    <3> QED BY <3>1, <3>2, <1>1
  <2>4. ToSet(d)'
    <3> SUFFICES ASSUME At(d, "set"), call[d].id \notin raced', call[d].id \notin DOMAIN store'
                 PROVE  FALSE
        BY <2>1, <1>1 DEF ToSet, At
    <3>1. call[d].id \in gone
      BY <2>1, <1>1 DEF ToSet
    <3>2. Updating(call[d].id)
      BY DEF Updating
    <3> QED BY <3>1, <3>2
  <2> QED BY <2>2, <2>3, <2>4
<1>5. ASSUME NEW d \in Calls, NEW e \in Calls PROVE OfItsOwn(d, e)'
  <2>1. OfItsOwn(d, e)
    BY DEF Inv, Pending
  <2> QED BY <2>1 DEF OfItsOwn, At
<1> QED BY <1>2, <1>3, <1>4, <1>5 DEF Inv, Pending

\* Steps that leave the tokens and the calls alone.
LEMMA AsideInv ==
    ASSUME Inv, UNCHANGED <<tokenVars, call, now>>, script' = script \/ script' = [script EXCEPT !.left = @ - 1]
    PROVE  Inv'
<1>1. UNCHANGED <<store, used, revoked, raced, call, now>>
  BY DEF tokenVars
<1>2. RequestsLasting'
  BY DEF Inv, RequestsLasting
<1>3. IdsUsed' /\ RowsKept' /\ RevokedIsGone' /\ now' \in Nat
  BY <1>1 DEF Inv, IdsUsed, RowsKept, RevokedIsGone, Expires
<1>4. Pending'
  BY <1>1 DEF Inv, Pending, ToSign, ToStore, ToSet, OfItsOwn, At
<1> QED BY <1>2, <1>3, <1>4 DEF Inv

LEMMA NextInv == Inv /\ [Next]_vars => Inv'
<1> SUFFICES ASSUME Inv, [Next]_vars PROVE Inv'
    OBVIOUS
<1>1. ASSUME NEW c \in Calls, Set(c) \/ Store(c) PROVE Inv'
  BY <1>1, WriteInv DEF Set, Store
<1>2. ASSUME NEW c \in Calls, Sign(c) PROVE Inv'
  <2>1. UNCHANGED <<tokenVars, now, script>> /\ At(c, "sign")
    BY <1>2 DEF Sign
  <2>2. CASE Due(private)
    <3> DEFINE rec == [call[c] EXCEPT !.pc = "renew"]
    <3>1. Go(c, rec)
      BY <1>2, <2>2 DEF Sign
    <3>2. {"pc", "tok"} \subseteq DOMAIN call[c] /\ Lasting(call[c].tok)
      BY <2>1 DEF Inv, Pending, ToSign, At
    <3>3. rec.pc = "renew" /\ rec.tok = call[c].tok /\ DOMAIN rec = DOMAIN call[c]
      BY <3>2
    <3> HIDE DEF rec
    <3> QED BY <2>1, <3>1, <3>2, <3>3, GoesOn DEF At
  <2>3. CASE ~Due(private)
    BY <1>2, <2>1, <2>3, ChosenInv DEF Sign, At
  <2> QED BY <2>2, <2>3
<1>3. ASSUME NEW c \in Calls, Renew(c) \/ Jwt(c) PROVE Inv'
  <2>1. CASE Renew(c)
    <3>1. PICK k : Chosen(c, k)
      BY <2>1 DEF Renew
    <3> QED BY <2>1, <3>1, ChosenInv DEF Renew, At
  <2>2. CASE Jwt(c)
    BY <2>2, IssueInv
  <2> QED BY <1>3, <2>1, <2>2
<1>4. ASSUME NEW q \in script.requests, NEW u, NEW type PROVE Lasting(Token(u, type, q))
  BY DEF Inv, RequestsLasting, Lasting, Token
<1>5. ASSUME NEW c \in Calls, NEW q \in script.requests, NEW u \in Users, Login(c, u, q) \/ Issue(c, u, q) PROVE Inv'
  <2>1. PICK type : Starts(c, q) /\ Go(c, Signing(Token(u, type, q))) /\ UNCHANGED <<tokenVars, now>>
    BY <1>5 DEF Login, Issue
  <2> QED BY <2>1, <1>4, BeginInv DEF Signing
<1>6. ASSUME NEW c \in Calls, NEW q \in script.requests, NEW i \in Ids, Create(c, i, q) PROVE Inv'
  <2>1. PICK u, session : /\ Starts(c, q) /\ UNCHANGED <<tokenVars, now>>
                          /\ Go(c, Requested([Token(store[i].user, "api", q) EXCEPT !.user = u], session))
    BY <1>6 DEF Create
  <2>2. Lasting([Token(store[i].user, "api", q) EXCEPT !.user = u])
    BY DEF Inv, RequestsLasting, Lasting, Token
  <2> QED BY <2>1, <2>2, BeginInv DEF Requested
<1>7. ASSUME NEW c \in Calls, NEW q \in script.requests, NEW i \in Ids, Refresh(c, i, q) PROVE Inv'
  <2>1. /\ Starts(c, q) /\ UNCHANGED <<tokenVars, now>> /\ i \in DOMAIN store
        /\ Go(c, Refreshed(store[i]))
    BY <1>7 DEF Refresh, May, Valid
  <2>2. Lasting([store[i] EXCEPT !.type = "api"])
    BY <2>1 DEF Inv, RowsKept, Lasting
  <2> QED BY <2>1, <2>2, BeginInv DEF Refreshed
<1>8. ASSUME NEW c \in Calls, NEW q \in script.requests, NEW i \in Ids, NEW j \in Ids, Update(c, i, j, q) PROVE Inv'
  <2>1. /\ Starts(c, q) /\ UNCHANGED <<tokenVars, now>> /\ j \in DOMAIN store
        /\ Go(c, [pc |-> "set", id |-> j, tok |-> Merge(store[j], q), by |-> store[i], old |-> store[j]])
    BY <1>8 DEF Update
  <2>2. Lasting(store[j])
    BY <2>1 DEF Inv, RowsKept
  <2>3. DOMAIN Merge(store[j], q) = DOMAIN store[j]
    BY DEF Merge
  <2>4. Merge(store[j], q).life = store[j].life /\ Merge(store[j], q).issued = store[j].issued
    BY <2>2 DEF Merge, Lasting
  <2>5. Lasting(Merge(store[j], q))
    BY <2>2, <2>3, <2>4 DEF Lasting
  <2> QED BY <2>1, <2>4, <2>5, BeginInv
<1>9. ASSUME NEW c \in Calls, NEW q \in script.requests, NEW i \in Ids, Revoke(c, i, q) PROVE Inv'
  <2>1. /\ i \in DOMAIN store /\ Remove({i}) /\ revoked' = revoked \cup {i}
        /\ UNCHANGED <<call, used, now>>
    BY <1>9 DEF Revoke
  <2>2. RequestsLasting'
    BY <1>9 DEF Revoke, Starts, Inv, RequestsLasting
  <2> DEFINE gone == {i}
             late == {}
  <2>3. raced' = raced \cup {j \in gone : Updating(j)} \cup late
    BY <1>9 DEF Revoke
  <2>4. gone \in SUBSET DOMAIN store /\ late \in SUBSET used /\ revoked \subseteq revoked' /\ revoked' \subseteq revoked \cup gone
    BY <2>1
  <2>5. Remove(gone)
    BY <2>1
  <2> HIDE DEF gone, late
  <2> QED BY <2>1, <2>2, <2>3, <2>4, <2>5, RemoveInv
<1>10. CASE Tick
  <2> DEFINE gone == {i \in DOMAIN store : store[i].kept = now'}
  <2>1. /\ Remove(gone) /\ raced' = raced \cup {i \in gone : Updating(i)} \cup Overdue(now')
        /\ now' = now + 1 /\ UNCHANGED <<call, used, revoked, script>>
    BY <1>10 DEF Tick
  <2>4. \A d \in Calls : At(d, "store") => call[d].id \in used
    BY DEF Inv, Pending, ToStore
  <2>6. /\ Overdue(now') \subseteq used
        /\ \A d \in Calls : At(d, "store") /\ Expires(call[d].tok) <= now' => call[d].id \in Overdue(now')
    BY <2>4 DEF Overdue
  <2>2. RequestsLasting'
    BY <2>1 DEF Inv, RequestsLasting
  <2>3. gone \in SUBSET DOMAIN store /\ \A i \in DOMAIN store : store[i].kept = now' => i \in gone
    OBVIOUS
  <2> HIDE DEF gone
  <2> QED BY <2>1, <2>2, <2>3, <2>6, RemoveInv
<1>11. ASSUME NEW r \in Replicas, Authenticate(r) PROVE Inv'
  BY <1>11, AsideInv DEF Authenticate
<1>12. ASSUME NEW u \in Users, NEW pat \in script.roles, ChangeRoles(u, pat) PROVE Inv'
  BY <1>12, AsideInv DEF ChangeRoles
<1>13. CASE UNCHANGED vars
  BY <1>13, AsideInv DEF vars, tokenVars
<1> QED BY <1>1, <1>2, <1>3, <1>5, <1>6, <1>7, <1>8, <1>9, <1>10, <1>11, <1>12, <1>13 DEF Next

\* A token that was revoked, or has expired, is not in the store, unless an update of it was under way at that moment
\* or it had expired before it was stored (token-store.go: rows have no version, and a time to live that every write computes again).
THEOREM TokensForgotten == Spec => []Forgotten
<1>1. Init => Inv
  BY InitInv
<1>2. Inv /\ [Next]_vars => Inv'
  BY NextInv
<1>3. Inv => Forgotten
  BY DEF Inv, RowsKept, Forgotten, StoreForgets
<1> QED BY <1>1, <1>2, <1>3, PTL DEF Spec

-----------------------------------------------------------------------------
(* Tokens have the fields and roles of tokens, and were signed by a key    *)
(* that lives longer than they may.                                        *)

\* The key of a token was made before it was chosen, and expires no sooner than it would be renewed then.
ChosenBy(tok, expires, at) ==
    /\ tok.key \in Keys /\ expires[tok.key] \in Nat
    /\ tok.chosen \in 0..at
    /\ tok.chosen + RenewBefore <= expires[tok.key] /\ expires[tok.key] <= tok.chosen + CertLife
SignedBy(tok, expires, at) == ChosenBy(tok, expires, at) /\ tok.issued \in tok.chosen..at
Signed(tok) == SignedBy(tok, until, now)

MembersTyped ==
    /\ DOMAIN pats = Users /\ \A u \in Users : Member(pats[u])
    /\ {"requests", "roles", "clock", "left"} \subseteq DOMAIN script
    /\ \A q \in script.requests : Asked(q)
    /\ \A pat \in script.roles : Member(pat)
KeysMade ==
    /\ until \in [Keys -> Nat \cup {Never}] /\ private \in Keys /\ until[private] \in Nat
    /\ \A k \in Keys : until[k] \in Nat => until[k] <= now + CertLife
\* A replica knows every key that was made before it looked and had not expired then.
Cached ==
    /\ DOMAIN cache = Replicas
    /\ \A r \in Replicas :
         /\ cache[r].keys \subseteq Keys /\ cache[r].at \in 0..now
         /\ \A k \in Keys :
              until[k] \in Nat /\ until[k] - CertLife < cache[r].at /\ cache[r].at < until[k] => k \in cache[r].keys
RowsSigned == used \subseteq Ids /\ \A i \in DOMAIN store : i \in used /\ Row(store[i]) /\ Signed(store[i])
CallTyped(c) ==
    /\ call[c].pc \in {"idle", "sign", "renew", "jwt", "store", "set"}
    /\ call[c].pc # "idle" => {"pc", "tok"} \subseteq DOMAIN call[c] /\ Row(call[c].tok)
    /\ call[c].pc = "jwt" => ChosenBy(call[c].tok, until, now)
    /\ call[c].pc \in {"store", "set"} => call[c].id \in used /\ Signed(call[c].tok)
CallsTyped == DOMAIN call = Calls /\ \A c \in Calls : CallTyped(c)

Sound == now \in Nat /\ MembersTyped /\ KeysMade /\ Cached /\ RowsSigned /\ CallsTyped

LEMMA InitSound == Init => Sound
<1> SUFFICES ASSUME Init PROVE Sound
    OBVIOUS
<1>1. PICK s \in Scenarios : pats = s.pats /\ store = s.tokens /\ used = DOMAIN s.tokens /\ script = s.script
  BY DEF Init
<1>2. /\ private = 1 /\ until = [k \in Keys |-> IF k = 1 THEN CertLife ELSE Never]
      /\ cache = [r \in Replicas |-> [keys |-> {}, at |-> 0]]
      /\ now = 0 /\ call = [c \in Calls |-> Idle]
  BY DEF Init
<1>3. MembersTyped
  BY <1>1, ScenarioAssumption DEF MembersTyped
<1>4. KeysMade
  BY <1>2, KeyAssumption DEF KeysMade, Keys
<1>5. Cached
  BY <1>2, KeyAssumption DEF Cached, Keys
<1>6. 1 \in Keys /\ until[1] = CertLife
  BY <1>2, KeyAssumption DEF Keys
<1>7. RowsSigned
  BY <1>1, <1>2, <1>6, ScenarioAssumption, KeyAssumption DEF RowsSigned, Signed, SignedBy, ChosenBy
<1>8. CallsTyped
  BY <1>2 DEF CallsTyped, CallTyped, Idle
<1> QED BY <1>2, <1>3, <1>4, <1>5, <1>7, <1>8 DEF Sound

\* Only a few actions change the clock, the keys, the caches, the members and the requests.
Framed ==
    /\ now' = now \/ (now' = now + 1 /\ UNCHANGED <<until, private, cache, call, pats>>)
    /\ (\E c \in Calls : Renew(c)) \/ UNCHANGED <<until, private>>
    /\ (\E r \in Replicas : Authenticate(r)) \/ cache' = cache
    /\ (\E u \in Users : \E pat \in script.roles : ChangeRoles(u, pat)) \/ pats' = pats
    /\ script' = script \/ script' = [script EXCEPT !.left = @ - 1]

LEMMA Frames == [Next]_vars => Framed
<1> SUFFICES ASSUME [Next]_vars PROVE Framed
    OBVIOUS
<1>1. ASSUME NEW c \in Calls, Set(c) \/ Sign(c) \/ Jwt(c) \/ Store(c) PROVE Framed
  BY <1>1 DEF Set, Sign, Jwt, Store, keyVars, Framed
<1>2. ASSUME NEW c \in Calls, Renew(c) PROVE Framed
  BY <1>2 DEF Renew, Framed
<1>3. ASSUME NEW c \in Calls, NEW q \in script.requests, NEW u \in Users, Login(c, u, q) \/ Issue(c, u, q) PROVE Framed
  BY <1>3 DEF Login, Issue, Starts, keyVars, Framed
<1>4. ASSUME NEW c \in Calls, NEW q \in script.requests, NEW i \in Ids, NEW j \in Ids,
             Create(c, i, q) \/ Refresh(c, i, q) \/ Revoke(c, i, q) \/ Update(c, i, j, q)
      PROVE  Framed
  BY <1>4 DEF Create, Refresh, Revoke, Update, Starts, keyVars, Framed
<1>5. ASSUME NEW r \in Replicas, Authenticate(r) PROVE Framed
  BY <1>5 DEF Authenticate, keyVars, Framed
<1>6. ASSUME NEW u \in Users, NEW pat \in script.roles, ChangeRoles(u, pat) PROVE Framed
  <2>1. script' = [script EXCEPT !.left = @ - 1] /\ UNCHANGED <<until, private, cache, now>>
    BY <1>6 DEF ChangeRoles, keyVars
  <2> QED BY <1>6, <2>1 DEF Framed
<1>7. CASE Tick
  BY <1>7 DEF Tick, keyVars, Framed
<1>8. CASE UNCHANGED vars
  BY <1>8 DEF vars, keyVars, Framed
<1> QED BY <1>1, <1>2, <1>3, <1>4, <1>5, <1>6, <1>7, <1>8 DEF Next

LEMMA KeyChange ==
    [Next]_vars =>
      \/ UNCHANGED <<until, private>>
      \/ /\ NewKey \in Keys /\ until[NewKey] = Never
         /\ until' = [until EXCEPT ![NewKey] = now + CertLife] /\ private' = NewKey
         /\ UNCHANGED <<now, cache>>
<1>1. ASSUME NEW c \in Calls, Renew(c) PROVE NewKey \in Keys /\ until[NewKey] = Never
  BY <1>1 DEF Renew, NewKey, FreeKeys
<1> QED BY <1>1, Frames DEF Framed, Renew

LEMMA MembersTypedStep == Sound /\ [Next]_vars => MembersTyped'
BY Frames DEF Framed, ChangeRoles, Sound, MembersTyped

LEMMA KeysMadeStep == Sound /\ [Next]_vars => KeysMade' /\ now' \in Nat
BY Frames, KeyChange, KeyAssumption DEF Framed, Sound, KeysMade

LEMMA CachedStep == Sound /\ [Next]_vars => Cached'
<1> SUFFICES ASSUME Sound, [Next]_vars PROVE Cached'
    OBVIOUS
<1>1. CASE \E r \in Replicas : Authenticate(r)
  BY <1>1, KeyAssumption DEF Authenticate, keyVars, Living, Sound, Cached, KeysMade
<1>2. CASE cache' = cache
  BY <1>2, Frames, KeyChange, KeyAssumption DEF Framed, Sound, Cached, KeysMade
<1> QED BY <1>1, <1>2, Frames DEF Framed

\* A token stays signed: its key keeps its certificate.
LEMMA ChosenStep == ASSUME Sound, [Next]_vars, NEW tok, ChosenBy(tok, until, now) PROVE ChosenBy(tok, until', now')
BY Frames, KeyChange, KeyAssumption DEF Framed, Sound, KeysMade, ChosenBy

LEMMA SignedStep == ASSUME Sound, [Next]_vars, NEW tok, Signed(tok) PROVE SignedBy(tok, until', now')
<1>1. ChosenBy(tok, until', now')
  BY ChosenStep DEF Signed, SignedBy
<1>2. now' \in Nat /\ now \in Nat /\ now' >= now
  BY Frames DEF Framed, Sound
<1> QED BY <1>1, <1>2 DEF Signed, SignedBy, ChosenBy

\* What a request for a token asks for is a token.
LEMMA TokenRow ==
    ASSUME NEW u \in Users, NEW type \in {"user", "api"}, NEW q, Asked(q), q.op # "update"
    PROVE  Row(Token(u, type, q))
<1>1. ASSUME NEW g \in Flatten(Compact(q.perms)) PROVE g[1] \in Methods
  BY <1>1 DEF Flatten, Compact, Asked
<1> QED BY <1>1 DEF Token, Row, Asked, Held

LEMMA MergeRow ==
    ASSUME NEW tok, Row(tok), NEW q, Asked(q)
    PROVE  Row(Merge(tok, q)) /\ Merge(tok, q).key = tok.key /\ Merge(tok, q).chosen = tok.chosen /\ Merge(tok, q).issued = tok.issued
<1>1. ASSUME NEW g \in Flatten(Compact(q.perms)) PROVE g[1] \in Methods
  BY <1>1 DEF Flatten, Compact, Asked
<1>2. DOMAIN Merge(tok, q) = DOMAIN tok
  BY DEF Merge
<1>3. \A f \in {"user", "type", "life", "key", "chosen", "issued", "kept"} : Merge(tok, q)[f] = tok[f]
  BY DEF Merge, Row, Held
<1>4. /\ Merge(tok, q).admin = IF q.admin = None THEN tok.admin ELSE IF q.admin = "unspecified" THEN None ELSE q.admin
      /\ Merge(tok, q).infra = IF q.infra = None THEN tok.infra ELSE q.infra
      /\ Merge(tok, q).projects = IF q.projects = <<>> THEN tok.projects ELSE q.projects
      /\ Merge(tok, q).tenants = IF q.tenants = <<>> THEN tok.tenants ELSE q.tenants
      /\ Merge(tok, q).machines = IF q.machines = <<>> THEN tok.machines ELSE q.machines
      /\ Merge(tok, q).perms = IF q.perms = {} THEN tok.perms ELSE Flatten(Compact(q.perms))
  BY DEF Merge, Row, Held
<1>5. Held(Merge(tok, q)) /\ Merge(tok, q).admin # "unspecified"
  BY <1>2, <1>3, <1>4, MethodAssumption DEF Row, Held, Asked
<1> QED BY <1>1, <1>2, <1>3, <1>4, <1>5 DEF Row

\* One call goes on, the others wait; tokens that were signed stay so.
LEMMA OneCall ==
    ASSUME Sound, [Next]_vars, used \subseteq used', NEW c \in Calls, NEW rec, Go(c, rec),
           rec.pc \in {"idle", "sign", "renew", "jwt", "store", "set"},
           rec.pc # "idle" => {"pc", "tok"} \subseteq DOMAIN rec /\ Row(rec.tok),
           rec.pc = "jwt" => ChosenBy(rec.tok, until', now'),
           rec.pc \in {"store", "set"} => rec.id \in used' /\ SignedBy(rec.tok, until', now')
    PROVE  CallsTyped'
<1>1. DOMAIN call' = Calls /\ \A d \in Calls : call'[d] = IF d = c THEN rec ELSE call[d]
  BY DEF Go, Sound, CallsTyped
<1>2. CallTyped(c)'
  BY <1>1 DEF CallTyped, Signed
<1>3. ASSUME NEW d \in Calls, d # c PROVE CallTyped(d)'
  <2>1. CallTyped(d) /\ call'[d] = call[d]
    BY <1>1, <1>3 DEF Sound, CallsTyped
  <2>2. CASE call[d].pc \in {"store", "set"}
    BY <2>1, <2>2, SignedStep DEF CallTyped, Signed
  <2>3. CASE call[d].pc \notin {"store", "set"}
    BY <2>1, <2>3, ChosenStep DEF CallTyped
  <2> QED BY <2>2, <2>3
<1> QED BY <1>1, <1>2, <1>3 DEF CallsTyped

LEMMA NoCall == ASSUME Sound, [Next]_vars, call' = call, used \subseteq used' PROVE CallsTyped'
<1> SUFFICES ASSUME NEW d \in Calls PROVE CallTyped(d)'
    BY DEF CallsTyped, Sound
<1>1. CallTyped(d)
  BY DEF Sound, CallsTyped
<1>2. CASE call[d].pc \in {"store", "set"}
  BY <1>1, <1>2, SignedStep DEF CallTyped, Signed
<1>3. CASE call[d].pc \notin {"store", "set"}
  BY <1>1, <1>3, ChosenStep DEF CallTyped
<1> QED BY <1>2, <1>3

\* A token is signed with a key that lasts as long as it may.
LEMMA ChosenSigned ==
    ASSUME Sound, [Next]_vars, NEW c \in Calls, NEW k \in Keys, Chosen(c, k), call[c].pc \in {"sign", "renew"}, now' = now,
           used' = used, until'[k] \in Nat, now + RenewBefore <= until'[k], until'[k] <= now + CertLife
    PROVE  CallsTyped'
<1> DEFINE tok == [call[c].tok EXCEPT !.key = k, !.chosen = now]
           rec == [call[c] EXCEPT !.pc = "jwt", !.tok = tok]
<1>1. {"pc", "tok"} \subseteq DOMAIN call[c] /\ Row(call[c].tok)
  BY DEF Sound, CallsTyped, CallTyped
<1>2. Go(c, rec)
  BY DEF Chosen
<1>3. /\ DOMAIN tok = DOMAIN call[c].tok /\ tok.key = k /\ tok.chosen = now
      /\ \A f \in {"user", "type", "admin", "infra", "projects", "tenants", "machines", "perms", "life"} : tok[f] = call[c].tok[f]
  BY <1>1 DEF Row, Held
<1> HIDE DEF tok
<1>4. Row(tok)
  BY <1>1, <1>3 DEF Row, Held
<1>5. ChosenBy(tok, until', now')
  BY <1>3 DEF ChosenBy, Sound
<1>6. rec.pc = "jwt" /\ rec.tok = tok /\ {"pc", "tok"} \subseteq DOMAIN rec
  BY <1>1
<1> HIDE DEF rec
<1> QED BY <1>2, <1>4, <1>5, <1>6, OneCall

LEMMA IssuedSigned ==
    ASSUME Sound, [Next]_vars, NEW c \in Calls, Jwt(c)
    PROVE  CallsTyped' /\ used \subseteq used' /\ used' \subseteq Ids
<1> DEFINE tok == [call[c].tok EXCEPT !.issued = now]
           rec == [pc |-> "store", id |-> FreshId, tok |-> tok]
<1>0. Go(c, rec) /\ At(c, "jwt") /\ UNCHANGED <<now, until>>
  BY DEF Jwt, keyVars
<1>1. FreshId \in Ids \ used /\ used' = used \cup {FreshId}
  BY DEF Jwt, FreshId
<1>2. Row(call[c].tok) /\ ChosenBy(call[c].tok, until, now)
  BY <1>0 DEF Sound, CallsTyped, CallTyped, At
<1>3. /\ DOMAIN tok = DOMAIN call[c].tok /\ tok.issued = now
      /\ \A f \in {"user", "type", "admin", "infra", "projects", "tenants", "machines", "perms", "life", "key", "chosen"} : tok[f] = call[c].tok[f]
  BY <1>2 DEF Row, Held
<1> HIDE DEF tok
<1>4. Row(tok)
  BY <1>2, <1>3 DEF Row, Held
<1>5. SignedBy(tok, until', now')
  BY <1>0, <1>2, <1>3 DEF SignedBy, ChosenBy, Sound
<1>6. rec.pc = "store" /\ rec.tok = tok /\ rec.id = FreshId /\ {"pc", "tok"} \subseteq DOMAIN rec
  OBVIOUS
<1> HIDE DEF rec
<1>7. CallsTyped'
  BY <1>0, <1>1, <1>4, <1>5, <1>6, OneCall
<1> QED BY <1>1, <1>7 DEF Sound, RowsSigned

\* Calls begin with tokens of their types, and updates with tokens that are signed.
LEMMA CallsTypedStep == Sound /\ [Next]_vars => CallsTyped' /\ used \subseteq used' /\ used' \subseteq Ids
<1> SUFFICES ASSUME Sound, [Next]_vars PROVE CallsTyped' /\ used \subseteq used' /\ used' \subseteq Ids
    OBVIOUS
<1>0. used \subseteq Ids
  BY DEF Sound, RowsSigned
<1>1. ASSUME NEW c \in Calls, Set(c) \/ Store(c) PROVE CallsTyped' /\ used \subseteq used' /\ used' \subseteq Ids
  <2>1. Go(c, Idle) /\ used' = used
    BY <1>1 DEF Set, Store
  <2> QED BY <1>0, <2>1, OneCall DEF Idle
<1>2. ASSUME NEW c \in Calls, Sign(c) PROVE CallsTyped' /\ used \subseteq used' /\ used' \subseteq Ids
  <2>1. At(c, "sign") /\ CallTyped(c) /\ UNCHANGED <<now, until, used>>
    BY <1>2 DEF Sign, keyVars, tokenVars, Sound, CallsTyped
  <2>2. CASE Due(private)
    <3> DEFINE rec == [call[c] EXCEPT !.pc = "renew"]
    <3>1. Go(c, rec) /\ used' = used
      BY <1>2, <2>1, <2>2 DEF Sign
    <3>2. rec.pc = "renew" /\ rec.tok = call[c].tok /\ DOMAIN rec = DOMAIN call[c]
      BY <2>1 DEF CallTyped, At
    <3>3. {"pc", "tok"} \subseteq DOMAIN rec /\ Row(rec.tok)
      BY <2>1, <3>2 DEF CallTyped, At
    <3> HIDE DEF rec
    <3> QED BY <1>0, <3>1, <3>2, <3>3, OneCall
  <2>3. CASE ~Due(private)
    <3>1. /\ private \in Keys /\ until[private] \in Nat /\ until[private] <= now + CertLife
          /\ now + RenewBefore <= until[private]
      BY <2>3, KeyAssumption DEF Due, Living, Sound, KeysMade
    <3>2. Chosen(c, private)
      BY <1>2, <2>3 DEF Sign
    <3> QED BY <1>0, <2>1, <3>1, <3>2, ChosenSigned DEF At
  <2> QED BY <2>2, <2>3
<1>3. ASSUME NEW c \in Calls, Renew(c) PROVE CallsTyped' /\ used \subseteq used' /\ used' \subseteq Ids
  <2>1. /\ NewKey \in Keys /\ until' = [until EXCEPT ![NewKey] = now + CertLife] /\ now' = now
        /\ Chosen(c, NewKey) /\ At(c, "renew") /\ used' = used
    BY <1>3 DEF Renew, NewKey, FreeKeys, tokenVars
  <2>2. until'[NewKey] = now + CertLife
    BY <2>1 DEF Sound, KeysMade
  <2>3. until'[NewKey] \in Nat /\ now + RenewBefore <= until'[NewKey] /\ until'[NewKey] <= now + CertLife
    BY <2>2, KeyAssumption DEF Sound
  <2> QED BY <1>0, <2>1, <2>3, ChosenSigned DEF At
<1>10. ASSUME NEW c \in Calls, Jwt(c) PROVE CallsTyped' /\ used \subseteq used' /\ used' \subseteq Ids
  BY <1>10, IssuedSigned
<1>4. ASSUME NEW c \in Calls, NEW q \in script.requests, NEW u \in Users, Login(c, u, q) \/ Issue(c, u, q)
      PROVE  CallsTyped' /\ used \subseteq used' /\ used' \subseteq Ids
  <2>1. PICK type \in {"user", "api"} : Go(c, Signing(Token(u, type, q))) /\ used' = used
    BY <1>4 DEF Login, Issue, tokenVars
  <2>2. Row(Token(u, type, q))
    BY <1>4, TokenRow DEF Login, Issue, Sound, MembersTyped
  <2> QED BY <1>0, <2>1, <2>2, OneCall DEF Signing
<1>5. ASSUME NEW c \in Calls, NEW q \in script.requests, NEW i \in Ids, Create(c, i, q)
      PROVE  CallsTyped' /\ used \subseteq used' /\ used' \subseteq Ids
  <2>1. PICK session : /\ used' = used
                       /\ Go(c, Requested([Token(store[i].user, "api", q) EXCEPT !.user = IF q.user = None THEN store[i].user ELSE q.user], session))
    BY <1>5 DEF Create, tokenVars
  <2>2. Asked(q) /\ q.op # "update" /\ store[i].user \in Users
    BY <1>5 DEF Create, May, Valid, Sound, MembersTyped, RowsSigned, Row
  <2> DEFINE u == IF q.user = None THEN store[i].user ELSE q.user
  <2>3. u \in Users
    BY <2>2 DEF Asked
  <2>4. [Token(store[i].user, "api", q) EXCEPT !.user = u] = Token(u, "api", q)
    BY DEF Token
  <2>5. Row(Token(u, "api", q))
    BY <2>2, <2>3, TokenRow
  <2> QED BY <1>0, <2>1, <2>4, <2>5, OneCall DEF Requested
<1>6. ASSUME NEW c \in Calls, NEW q \in script.requests, NEW i \in Ids, Refresh(c, i, q)
      PROVE  CallsTyped' /\ used \subseteq used' /\ used' \subseteq Ids
  <2>1. used' = used /\ Go(c, Refreshed(store[i])) /\ Row(store[i])
    BY <1>6 DEF Refresh, May, Valid, tokenVars, Sound, RowsSigned
  <2> DEFINE tok == [store[i] EXCEPT !.type = "api"]
  <2>2. Row(tok)
    <3>1. /\ DOMAIN tok = DOMAIN store[i] /\ tok.type = "api"
          /\ \A f \in {"user", "admin", "infra", "projects", "tenants", "machines", "perms", "life"} : tok[f] = store[i][f]
      BY <2>1 DEF Row, Held
    <3> HIDE DEF tok
    <3> QED BY <2>1, <3>1 DEF Row, Held
  <2>3. Refreshed(store[i]) = [pc |-> "sign", tok |-> tok, by |-> store[i], old |-> store[i]]
    BY DEF Refreshed
  <2> HIDE DEF tok
  <2> QED BY <1>0, <2>1, <2>2, <2>3, OneCall
<1>7. ASSUME NEW c \in Calls, NEW q \in script.requests, NEW i \in Ids, NEW j \in Ids, Update(c, i, j, q)
      PROVE  CallsTyped' /\ used \subseteq used' /\ used' \subseteq Ids
  <2> DEFINE rec == [pc |-> "set", id |-> j, tok |-> Merge(store[j], q), by |-> store[i], old |-> store[j]]
  <2>1. j \in DOMAIN store /\ Go(c, rec) /\ used' = used /\ Asked(q)
    BY <1>7 DEF Update, tokenVars, Sound, MembersTyped
  <2>2. Row(store[j]) /\ Signed(store[j]) /\ j \in used
    BY <2>1 DEF Sound, RowsSigned
  <2>3. /\ Row(Merge(store[j], q)) /\ Merge(store[j], q).key = store[j].key /\ Merge(store[j], q).chosen = store[j].chosen /\ Merge(store[j], q).issued = store[j].issued
    BY <2>1, <2>2, MergeRow
  <2>5. UNCHANGED <<store, until, now>>
    BY <1>7 DEF Update, tokenVars, keyVars
  <2>6. rec.pc = "set" /\ {"pc", "tok"} \subseteq DOMAIN rec /\ rec.id = j /\ rec.tok = Merge(store[j], q)
    OBVIOUS
  <2> HIDE DEF rec
  <2>7. SignedBy(rec.tok, until', now')
    BY <2>2, <2>3, <2>5, <2>6 DEF Signed, SignedBy, ChosenBy
  <2> QED BY <1>0, <2>1, <2>2, <2>3, <2>6, <2>7, OneCall
<1>8. ASSUME NEW c \in Calls, NEW q \in script.requests, NEW i \in Ids, Revoke(c, i, q)
      PROVE  CallsTyped' /\ used \subseteq used' /\ used' \subseteq Ids
  BY <1>0, <1>8, NoCall DEF Revoke
<1>9. CASE (\E r \in Replicas : Authenticate(r)) \/ (\E u \in Users, pat \in script.roles : ChangeRoles(u, pat)) \/ Tick \/ UNCHANGED vars
  <2>1. UNCHANGED <<call, used>>
    BY <1>9 DEF Authenticate, ChangeRoles, Tick, vars, tokenVars
  <2> QED BY <1>0, <2>1, NoCall
<1> QED BY <1>1, <1>2, <1>3, <1>4, <1>5, <1>6, <1>7, <1>8, <1>9, <1>10 DEF Next

\* A row changes only when a call that was to set or store it does so.
LEMMA RowChange ==
    ASSUME [Next]_vars, NEW i \in DOMAIN store'
    PROVE  \/ i \in DOMAIN store /\ store'[i] = store[i]
           \/ \E c \in Calls : /\ call[c].pc \in {"set", "store"} /\ call[c].id = i
                               /\ store'[i] = [call[c].tok EXCEPT !.kept = KeptUntil(call[c].tok)]
<1>1. ASSUME NEW c \in Calls, Set(c) \/ Store(c)
      PROVE  \/ i \in DOMAIN store /\ store'[i] = store[i]
             \/ /\ call[c].pc \in {"set", "store"} /\ call[c].id = i
                /\ store'[i] = [call[c].tok EXCEPT !.kept = KeptUntil(call[c].tok)]
  BY <1>1 DEF Set, Store, Write, At
<1>2. CASE \E gone : Remove(gone)
  BY <1>2 DEF Remove
<1>3. (\E c \in Calls : Set(c) \/ Store(c)) \/ (\E gone : Remove(gone)) \/ store' = store
  <2>1. ASSUME NEW c \in Calls, Sign(c) \/ Renew(c) \/ Jwt(c) PROVE store' = store
    BY <2>1 DEF Sign, Renew, Jwt, tokenVars
  <2>2. ASSUME NEW c \in Calls, NEW q \in script.requests, NEW u \in Users, Login(c, u, q) \/ Issue(c, u, q) PROVE store' = store
    BY <2>2 DEF Login, Issue, tokenVars
  <2>3. ASSUME NEW c \in Calls, NEW q \in script.requests, NEW k \in Ids, NEW j \in Ids,
               Create(c, k, q) \/ Refresh(c, k, q) \/ Update(c, k, j, q)
        PROVE  store' = store
    BY <2>3 DEF Create, Refresh, Update, tokenVars
  <2>4. ASSUME NEW c \in Calls, NEW q \in script.requests, NEW k \in Ids, Revoke(c, k, q) PROVE \E gone : Remove(gone)
    BY <2>4 DEF Revoke
  <2>5. Tick => \E gone : Remove(gone)
    BY DEF Tick
  <2>6. (\E r \in Replicas : Authenticate(r)) \/ (\E u \in Users, pat \in script.roles : ChangeRoles(u, pat)) \/ UNCHANGED vars => store' = store
    BY DEF Authenticate, ChangeRoles, vars, tokenVars
  <2> QED BY <2>1, <2>2, <2>3, <2>4, <2>5, <2>6 DEF Next
<1> QED BY <1>1, <1>2, <1>3

LEMMA RowsSignedStep == Sound /\ [Next]_vars => RowsSigned'
<1> SUFFICES ASSUME Sound, [Next]_vars, NEW i \in DOMAIN store'
             PROVE  i \in used' /\ Row(store'[i]) /\ SignedBy(store'[i], until', now')
    BY CallsTypedStep DEF RowsSigned, Signed, Row, Held
<1>1. CASE i \in DOMAIN store /\ store'[i] = store[i]
  BY <1>1, SignedStep, CallsTypedStep DEF Sound, RowsSigned
<1>2. CASE \E c \in Calls : /\ call[c].pc \in {"set", "store"} /\ call[c].id = i
                            /\ store'[i] = [call[c].tok EXCEPT !.kept = KeptUntil(call[c].tok)]
  <2>1. PICK c \in Calls : /\ call[c].pc \in {"set", "store"} /\ call[c].id = i
                           /\ store'[i] = [call[c].tok EXCEPT !.kept = KeptUntil(call[c].tok)]
    BY <1>2
  <2> DEFINE tok == call[c].tok
             row == [tok EXCEPT !.kept = KeptUntil(tok)]
  <2>2. Row(tok) /\ Signed(tok) /\ i \in used'
    BY <2>1, CallsTypedStep DEF Sound, CallsTyped, CallTyped
  <2>3. /\ DOMAIN row = DOMAIN tok
        /\ \A f \in {"user", "type", "admin", "infra", "projects", "tenants", "machines", "perms", "life", "key", "chosen", "issued"} : row[f] = tok[f]
    BY <2>2 DEF Row, Held
  <2>4. SignedBy(tok, until', now')
    BY <2>2, SignedStep
  <2>5. store'[i] = row
    BY <2>1
  <2> HIDE DEF row, tok
  <2>6. Row(row)
    BY <2>2, <2>3 DEF Row, Held
  <2> QED BY <2>2, <2>3, <2>4, <2>5, <2>6 DEF SignedBy, ChosenBy
<1> QED BY <1>1, <1>2, RowChange

LEMMA NextSound == Sound /\ [Next]_vars => Sound'
BY MembersTypedStep, KeysMadeStep, CachedStep, RowsSignedStep, CallsTypedStep DEF Sound

LEMMA SoundTyped == Sound => TypeOK
<1> SUFFICES ASSUME Sound PROVE TypeOK
    OBVIOUS
<1>1. ASSUME NEW i \in DOMAIN store PROVE i \in used /\ Row(store[i]) /\ store[i].issued \in 0..now /\ until[store[i].key] \in Nat
  BY DEF Sound, RowsSigned, Signed, SignedBy, ChosenBy
<1>2. until[private] # Never
  BY KeyAssumption DEF Sound, KeysMade
<1>3. \A c \in Calls : call[c].pc \in {"idle", "sign", "renew", "jwt", "store", "set"}
  BY DEF Sound, CallsTyped, CallTyped
<1> QED BY <1>1, <1>2, <1>3 DEF TypeOK, Sound, RowsSigned, MembersTyped, KeysMade, Cached

\* A key that a token was signed with lives as long as a token whose span is no longer than keys are renewed in advance,
\* and was made before a replica looked, if that was after the token was issued.
LEMMA SoundVerifiable == Sound => Verifiable
<1> SUFFICES ASSUME Sound PROVE Verifiable
    OBVIOUS
<1>1. ASSUME NEW i \in Ids, Valid(i), Span(store[i]) <= RenewBefore PROVE store[i].key \in Living /\ i \in DOMAIN store
  <2>1. i \in DOMAIN store /\ now < store[i].issued + store[i].life
    BY <1>1 DEF Valid, Expires
  <2>2. Row(store[i]) /\ SignedBy(store[i], until, now)
    BY <2>1 DEF Sound, RowsSigned, Signed
  <2> QED BY <1>1, <2>1, <2>2, KeyAssumption DEF Living, SignedBy, ChosenBy, Span, Row, Held, Sound
<1>2. ASSUME NEW i \in Ids, NEW r \in Replicas, Valid(i), Span(store[i]) <= RenewBefore, now - store[i].issued >= CacheLife
      PROVE  store[i].key \in KnownKeys(r)
  <2>1. store[i].key \in Living /\ i \in DOMAIN store
    BY <1>1, <1>2
  <2>2. SignedBy(store[i], until, now)
    BY <2>1 DEF Sound, RowsSigned, Signed
  <2>3. ASSUME Fresh(r) PROVE store[i].key \in cache[r].keys
    <3>1. cache[r].at \in 0..now /\ now - cache[r].at < CacheLife
      BY <2>3 DEF Fresh, Sound, Cached
    <3>2. until[store[i].key] - CertLife < cache[r].at /\ cache[r].at < until[store[i].key]
      BY <1>2, <2>1, <2>2, <3>1, KeyAssumption DEF SignedBy, ChosenBy, Living, Sound
    <3> QED BY <2>2, <3>2 DEF Sound, Cached, SignedBy, ChosenBy
  <2> QED BY <2>1, <2>3 DEF KnownKeys
<1> QED BY <1>1, <1>2 DEF Verifiable, VerifiedUntilExpiry, AcceptedOnceCached

-----------------------------------------------------------------------------
(* What a token permits follows from its admin role, the pairs of methods  *)
(* and subjects it claims, and the memberships of its user.                *)

Granted(admin, claimed, pat) == CurrentSubjects(IF admin = None THEN Reduced(claimed, pat) ELSE claimed, pat)
Rights(admin, claimed, pat) ==
    IF admin = "editor" THEN [m \in Methods |-> {AnySubject}]
    ELSE [m \in {g[1] : g \in claimed} |-> {g[2] : g \in {x \in Granted(admin, claimed, pat) : x[1] = m}}]

LEMMA ApiRights ==
    ASSUME NEW tok, NEW pat, tok.type # "user"
    PROVE  Permissions(tok, pat) = Rights(tok.admin, Claimed(tok), pat)
<1>1. Resolve(tok, pat) = tok
  BY DEF Resolve
<1>2. CASE tok.admin = "editor"
  BY <1>1, <1>2 DEF Permissions, Rights
<1>3. CASE tok.admin # "editor"
  <2> DEFINE claimed == Claimed(tok)
             granted == Granted(tok.admin, claimed, pat)
  <2>1. Permissions(tok, pat) = [m \in {g[1] : g \in claimed} \cup {} |-> {g[2] : g \in {x \in granted : x[1] = m}} \cup (IF m \in {} THEN {AnySubject} ELSE {})]
    BY <1>1, <1>3 DEF Permissions, Granted
  <2>2. Rights(tok.admin, claimed, pat) = [m \in {g[1] : g \in claimed} |-> {g[2] : g \in {x \in granted : x[1] = m}}]
    BY <1>3 DEF Rights
  <2> HIDE DEF claimed, granted
  <2>3. {g[1] : g \in claimed} \cup {} = {g[1] : g \in claimed}
    OBVIOUS
  <2>4. \A m : {g[2] : g \in {x \in granted : x[1] = m}} \cup (IF m \in {} THEN {AnySubject} ELSE {}) = {g[2] : g \in {x \in granted : x[1] = m}}
    OBVIOUS
  <2>5. Permissions(tok, pat) = Rights(tok.admin, claimed, pat)
    BY <2>1, <2>2, <2>3, <2>4
  <2> QED BY <2>5 DEF claimed
<1> QED BY <1>2, <1>3

\* What a token claims depends on its roles and permissions only.
SameClaims(t, w) ==
    /\ t.admin = w.admin /\ t.infra = w.infra /\ t.perms = w.perms
    /\ t.projects = w.projects /\ t.tenants = w.tenants /\ t.machines = w.machines

LEMMA SameRights ==
    ASSUME NEW t, NEW w, NEW pat, t.type # "user", w.type # "user", SameClaims(t, w)
    PROVE  Permissions(t, pat) = Permissions(w, pat)
<1>1. Claimed(t) = Claimed(w)
  BY DEF SameClaims, Claimed
<1> QED BY <1>1, ApiRights DEF SameClaims

\* Without an admin role, subjects are projects and tenants the user is a member of.
LEMMA GrantedWithin ==
    ASSUME NEW claimed, NEW pat, NEW g \in Granted(None, claimed, pat), g[1] \in Scoped, g[2] # NoSubject
    PROVE  g[2] \in IF Visibility[g[1]] = "project" THEN DOMAIN pat.projects ELSE DOMAIN pat.tenants
<1>1. ASSUME g \in ByRole(pat.projects, ProjectMethods) PROVE g[2] \in DOMAIN pat.projects
  BY <1>1 DEF ByRole
<1>2. ASSUME g \in ByRole(pat.tenants, TenantMethods) PROVE g[2] \in DOMAIN pat.tenants
  BY <1>2 DEF ByRole
<1>3. CASE g[2] = AnySubject
  BY <1>1, <1>2, <1>3 DEF Granted, CurrentSubjects, Reduced, Scoped
<1>4. CASE g[2] # AnySubject
  BY <1>4 DEF Granted, CurrentSubjects, Scoped
<1> QED BY <1>3, <1>4

LEMMA PermittedWithin ==
    ASSUME NEW tok, Row(tok), tok.admin = None, NEW pat, NEW m \in DOMAIN Permissions(tok, pat) \cap Scoped,
           NEW s \in Permissions(tok, pat)[m], s # NoSubject
    PROVE  s \in IF Visibility[m] = "project" THEN DOMAIN pat.projects ELSE DOMAIN pat.tenants
<1> DEFINE held == Resolve(tok, pat)
           claimed == Claimed(held)
           always == IF held.type = "user" THEN Visible("public") \cup Visible("self") ELSE {}
<1>1. held.admin = None
  BY DEF Resolve, Row, Held
<1>2. None # "editor"
  BY MethodAssumption
<1>3. Permissions(tok, pat) = [n \in {g[1] : g \in claimed} \cup always |->
                {g[2] : g \in {x \in Granted(None, claimed, pat) : x[1] = n}} \cup (IF n \in always THEN {AnySubject} ELSE {})]
  BY <1>1, <1>2 DEF Permissions, Granted
<1>4. m \notin always
  BY DEF Scoped, Visible
<1> HIDE DEF held, claimed, always
<1>5. s \in {g[2] : g \in {x \in Granted(None, claimed, pat) : x[1] = m}}
  BY <1>3, <1>4
<1>6. PICK g \in Granted(None, claimed, pat) : g[1] = m /\ g[2] = s
  BY <1>5
<1> QED BY <1>6, GrantedWithin

LEMMA SoundWithin == Sound => WithinMembership
<1> SUFFICES ASSUME Sound, NEW i \in DOMAIN store, store[i].admin = None,
                    NEW m \in DOMAIN Permissions(store[i], pats[store[i].user]) \cap Scoped,
                    NEW s \in Permissions(store[i], pats[store[i].user])[m] \ {NoSubject}
             PROVE  s \in IF Visibility[m] = "project" THEN DOMAIN pats[store[i].user].projects ELSE DOMAIN pats[store[i].user].tenants
    BY DEF WithinMembership
<1>1. Row(store[i])
  BY DEF Sound, RowsSigned
<1> QED BY <1>1, PermittedWithin

\* Whatever tokens are stored and however memberships change, tokens are of their types and permit nothing beyond the
\* memberships of their user (tokenpermissions.go getTokenPermissions).
THEOREM TokensAreSound == Spec => []TokensSound
<1>1. Init => Sound
  BY InitSound
<1>2. Sound /\ [Next]_vars => Sound'
  BY NextSound
<1>3. Sound => TokensSound
  BY SoundTyped, SoundWithin DEF TokensSound
<1> QED BY <1>1, <1>2, <1>3, PTL DEF Spec

\* Tokens whose life, with the time since their key was chosen, is no longer than keys are renewed in advance are verified
\* by every replica until they expire
\* (certs-store.go LatestPrivate, authenticator-interceptor.go certCache).
THEOREM TokensVerifiable == Spec => []Verifiable
<1>1. Init => Sound
  BY InitSound
<1>2. Sound /\ [Next]_vars => Sound'
  BY NextSound
<1>3. Sound => Verifiable
  BY SoundVerifiable
<1> QED BY <1>1, <1>2, <1>3, PTL DEF Spec

-----------------------------------------------------------------------------
(* What the validation of a request for a token lets through.              *)

\* A row of the store, or what a request asks for.
Asking(t) == Row(t) \/ (Held(t) /\ "type" \in DOMAIN t /\ t.admin # "unspecified" /\ \A p \in t.perms : p[1] \in Methods)

LEMMA ClaimedMethods ==
    ASSUME NEW t, Asking(t), NEW g \in Claimed(t)
    PROVE  /\ g[1] \in Methods
           /\ g[1] \in Visible("admin") => g[1] \in {p[1] : p \in t.perms} \/ (t.admin = "viewer" /\ g[1] \in AdminViewerMethods)
<1>1. Held(t) /\ \A p \in t.perms : p[1] \in Methods
  BY DEF Asking, Row
<1>2. CASE g \in ByRole(t.projects, ProjectMethods)
  BY <1>1, <1>2, MethodAssumption DEF ByRole, Held, Visible
<1>3. CASE g \in ByRole(t.tenants, TenantMethods)
  BY <1>1, <1>3, MethodAssumption DEF ByRole, Held, Visible
<1>4. CASE g \in ByRole(t.machines, MachineMethods)
  BY <1>1, <1>4, MethodAssumption DEF ByRole, Held, Visible
<1>5. CASE g \in t.perms
  BY <1>1, <1>5
<1>6. CASE t.admin = "viewer" /\ g \in AdminViewerMethods \X {AnySubject}
  BY <1>6, MethodAssumption
<1>7. CASE t.infra # None /\ g \in InfraMethods[t.infra] \X {AnySubject}
  BY <1>1, <1>7, MethodAssumption DEF Held, Visible
<1> QED BY <1>2, <1>3, <1>4, <1>5, <1>6, <1>7 DEF Claimed

LEMMA RightsDomain ==
    ASSUME NEW t, t.type # "user", NEW pat
    PROVE  DOMAIN Permissions(t, pat) = IF t.admin = "editor" THEN Methods ELSE {g[1] : g \in Claimed(t)}
BY ApiRights DEF Rights

\* A subject of a method that a token permits comes from something it claims.
LEMMA RightsSubject ==
    ASSUME NEW t, t.type # "user", t.admin # "editor", NEW pat, NEW m, NEW s
    PROVE  m \in DOMAIN Permissions(t, pat) /\ s \in Permissions(t, pat)[m]
           <=> \E g \in Granted(t.admin, Claimed(t), pat) : g[1] = m /\ g[2] = s /\ m \in {x[1] : x \in Claimed(t)}
<1> DEFINE claimed == Claimed(t)
           granted == Granted(t.admin, claimed, pat)
<1>1. Permissions(t, pat) = [n \in {g[1] : g \in claimed} |-> {g[2] : g \in {x \in granted : x[1] = n}}]
  <2>1. Permissions(t, pat) = Rights(t.admin, claimed, pat)
    BY ApiRights
  <2> QED BY <2>1 DEF Rights
<1> HIDE DEF claimed, granted
<1>2. m \in DOMAIN Permissions(t, pat) /\ s \in Permissions(t, pat)[m]
      <=> \E g \in granted : g[1] = m /\ g[2] = s /\ m \in {x[1] : x \in claimed}
  BY <1>1
<1> QED BY <1>2 DEF claimed, granted

\* Everything that is granted has a method that is claimed.
LEMMA GrantedClaimed ==
    ASSUME NEW admin, NEW claimed, NEW pat, NEW g \in Granted(admin, claimed, pat)
    PROVE  g[1] \in {x[1] : x \in claimed}
<1>1. g \in claimed \/ <<g[1], AnySubject>> \in claimed
  BY DEF Granted, CurrentSubjects, Reduced
<1> QED BY <1>1

\* validateTokenRequest lets no method through that the current token does not have, and no subject of a project or tenant.
LEMMA NotRefused ==
    ASSUME NEW current, NEW requested, NEW pat, ~Refused(current, requested, pat), Asking(requested),
           NEW m \in DOMAIN Permissions([requested EXCEPT !.type = "none"], pat)
    PROVE  m \in DOMAIN Permissions(current, pat)
BY DEF Refused, Exceeds

LEMMA NotElevated ==
    ASSUME NEW current, NEW requested, NEW pat, ~Refused(current, requested, pat), Asking(requested), Member(pat),
           requested.admin = None,
           NEW m \in Scoped, m \in DOMAIN Permissions([requested EXCEPT !.type = "none"], pat),
           NEW s \in Permissions([requested EXCEPT !.type = "none"], pat)[m]
    PROVE  m \in DOMAIN Permissions(current, pat) /\ (s \in Permissions(current, pat)[m] \/ AnySubject \in Permissions(current, pat)[m])
<1> DEFINE w == [requested EXCEPT !.type = "none"]
           have == Permissions(current, pat)
           want == Permissions(w, pat)
<1>1. ~Exceeds(have, want, m)
  BY DEF Refused
<1>2. w.type = "none" /\ w.admin = None
  BY DEF Asking, Row, Held
<1> HIDE DEF w
<1>3. AnySubject \notin want[m]
  <2> SUFFICES ASSUME AnySubject \in want[m] PROVE FALSE
      OBVIOUS
  <2>1. w.type # "user" /\ w.admin # "editor"
    BY <1>2, MethodAssumption
  <2>2. m \in DOMAIN Permissions(w, pat) /\ AnySubject \in Permissions(w, pat)[m]
    BY DEF w
  <2>3. PICK g \in Granted(None, Claimed(w), pat) : g[1] = m /\ g[2] = AnySubject
    BY <1>2, <2>1, <2>2, RightsSubject
  <2>4. AnySubject # NoSubject
    BY DEF AnySubject, NoSubject
  <2>5. AnySubject \in DOMAIN pat.projects \cup DOMAIN pat.tenants
    BY <2>3, <2>4, GrantedWithin
  <2> QED BY <2>5 DEF Member
<1> HIDE DEF have, want
<1>4. s \in want[m]
  BY DEF want, w
<1>5. m \in DOMAIN have /\ (s \in have[m] \/ AnySubject \in have[m])
  BY <1>1, <1>3, <1>4 DEF Exceeds
<1> QED BY <1>5 DEF have

\* What an update asks for.
Asks(u, q) == [Token(u, "api", q) EXCEPT !.admin = IF @ = "unspecified" THEN None ELSE @]

\* What an update makes of a token claims what the request or the token before it does.
LEMMA MergedClaims ==
    ASSUME NEW old, Row(old), NEW q, Asked(q), NEW u,
           NEW requested, requested = Asks(u, q),
           NEW merged, merged = Merge(old, q)
    PROVE  /\ Claimed(merged) \subseteq Claimed(requested) \cup Claimed(old)
           /\ merged.type = old.type /\ merged.admin \in {requested.admin, old.admin}
           /\ merged.admin = None => requested.admin = None
<1>1. /\ merged.admin = IF q.admin = None THEN old.admin ELSE IF q.admin = "unspecified" THEN None ELSE q.admin
      /\ merged.infra = IF q.infra = None THEN old.infra ELSE q.infra
      /\ merged.projects = IF q.projects = <<>> THEN old.projects ELSE q.projects
      /\ merged.tenants = IF q.tenants = <<>> THEN old.tenants ELSE q.tenants
      /\ merged.machines = IF q.machines = <<>> THEN old.machines ELSE q.machines
      /\ merged.perms = IF q.perms = {} THEN old.perms ELSE Flatten(Compact(q.perms))
      /\ merged.type = old.type
  BY DEF Merge, Row, Held
<1>2. /\ requested.admin = IF q.admin = "unspecified" THEN None ELSE q.admin
      /\ requested.infra = q.infra /\ requested.projects = q.projects /\ requested.tenants = q.tenants
      /\ requested.machines = q.machines /\ requested.perms = Flatten(Compact(q.perms))
  BY DEF Token, Asks
<1>3. merged.admin \in {requested.admin, old.admin} /\ (merged.admin = None => requested.admin = None)
  BY <1>1, <1>2
<1>4. /\ merged.infra \in {requested.infra, old.infra} /\ merged.projects \in {requested.projects, old.projects}
      /\ merged.tenants \in {requested.tenants, old.tenants} /\ merged.machines \in {requested.machines, old.machines}
      /\ merged.perms \in {requested.perms, old.perms}
  BY <1>1, <1>2
<1>5. Claimed(merged) \subseteq Claimed(requested) \cup Claimed(old)
  BY <1>3, <1>4 DEF Claimed
<1> QED BY <1>1, <1>3, <1>5

\* What of a union is granted without an admin role is granted to one of the parts, or to all subjects by an admin role.
LEMMA GrantedUnion ==
    ASSUME NEW claimed, NEW a, NEW b, claimed \subseteq a \cup b, NEW pat, NEW g \in Granted(None, claimed, pat)
    PROVE  g \in Granted(None, a, pat) \/ g \in Granted(None, b, pat)
<1>1. g \in Reduced(claimed, pat) /\ g \in CurrentSubjects(Reduced(claimed, pat), pat)
  BY DEF Granted, CurrentSubjects
<1>2. g \in Reduced(a, pat) \/ g \in Reduced(b, pat)
  BY <1>1 DEF Reduced
<1> QED BY <1>1, <1>2 DEF Granted, CurrentSubjects

LEMMA GrantedAdmin ==
    ASSUME NEW claimed, NEW pat, NEW g \in Granted(None, claimed, pat), NEW admin, admin # None
    PROVE  \E x \in Granted(admin, claimed, pat) : x[1] = g[1] /\ x[2] \in {g[2], AnySubject}
<1>1. CASE g \in claimed
  BY <1>1 DEF Granted, CurrentSubjects
<1>2. CASE <<g[1], AnySubject>> \in claimed
  BY <1>2 DEF Granted, CurrentSubjects
<1> QED BY <1>1, <1>2 DEF Granted, CurrentSubjects, Reduced

\* A call is validated when it creates, refreshes or updates a token.
LEMMA ValidatedBy ==
    ASSUME Sound, [Next]_vars, NEW c \in Calls, Validated(c)
    PROVE  \E q \in script.requests : \E i \in Ids : Create(c, i, q) \/ Refresh(c, i, q) \/ \E j \in Ids : Update(c, i, j, q)
<1> SUFFICES ASSUME ~(\E q \in script.requests : \E i \in Ids : Create(c, i, q) \/ Refresh(c, i, q) \/ \E j \in Ids : Update(c, i, j, q))
             PROVE  FALSE
    OBVIOUS
<1>1. call[c] = Idle /\ "by" \in DOMAIN call'[c] /\ call'[c] # call[c] /\ DOMAIN call = Calls
  BY DEF Validated, Idle, Sound, CallsTyped
<1>3. ASSUME NEW d \in Calls, NEW rec, Go(d, rec), d # c \/ "by" \notin DOMAIN rec PROVE FALSE
  BY <1>1, <1>3 DEF Go
<1>4. ASSUME NEW d \in Calls, Set(d) \/ Store(d) PROVE FALSE
  BY <1>4, <1>3 DEF Set, Store, Idle
<1>5. ASSUME NEW d \in Calls, Sign(d) \/ Renew(d) \/ Jwt(d) PROVE FALSE
  <2>1. d # c
    BY <1>1, <1>5 DEF Sign, Renew, Jwt, At, Idle
  <2> QED BY <1>3, <1>5, <2>1 DEF Sign, Renew, Jwt, Chosen
<1>6. ASSUME NEW d \in Calls, NEW q \in script.requests, NEW u \in Users, Login(d, u, q) \/ Issue(d, u, q) PROVE FALSE
  BY <1>3, <1>6 DEF Login, Issue, Signing
<1>7. ASSUME NEW d \in Calls, NEW q \in script.requests, NEW i \in Ids, NEW j \in Ids, Create(d, i, q) \/ Refresh(d, i, q) \/ Update(d, i, j, q)
      PROVE  FALSE
  <2>1. d # c
    BY <1>7
  <2> QED BY <1>3, <1>7, <2>1 DEF Create, Refresh, Update
<1>8. ASSUME NEW d \in Calls, NEW q \in script.requests, NEW i \in Ids, Revoke(d, i, q) PROVE FALSE
  BY <1>1, <1>8 DEF Revoke
<1>9. CASE (\E r \in Replicas : Authenticate(r)) \/ (\E u \in Users, pat \in script.roles : ChangeRoles(u, pat)) \/ Tick \/ UNCHANGED vars
  BY <1>1, <1>9 DEF Authenticate, ChangeRoles, Tick, vars
<1> QED BY <1>4, <1>5, <1>6, <1>7, <1>8, <1>9 DEF Next

\* What a request asks for.
LEMMA TokenAsks ==
    ASSUME NEW u, NEW q, Asked(q), NEW admin \in {None, "viewer", "editor"}
    PROVE  Asking([Token(u, "api", q) EXCEPT !.admin = admin]) /\ [Token(u, "api", q) EXCEPT !.admin = admin].type = "api"
<1>1. ASSUME NEW g \in Flatten(Compact(q.perms)) PROVE g[1] \in Methods
  BY <1>1 DEF Flatten, Compact, Asked
<1>2. admin # "unspecified"
  BY MethodAssumption
<1> QED BY <1>1, <1>2 DEF Token, Asked, Held, Asking

\* The tokens of a request that was validated: what is validated, what is made of it, and by whom.
LEMMA CreatedBy ==
    ASSUME Sound, NEW c \in Calls, NEW i \in Ids, NEW q \in script.requests, Create(c, i, q)
    PROVE  \E requested, session : LET pat == pats[store[i].user] IN
             /\ Asking(requested) /\ requested.type = "api" /\ Member(pat) /\ session.user = store[i].user
             /\ ~Refused(session, requested, pat) /\ ~Refused(FullToken(session, pat), requested, pat)
             /\ Asking(session)
             /\ call'[c].tok.type = "api" /\ SameClaims(call'[c].tok, requested)
             /\ DOMAIN call'[c] = {"pc", "tok", "by"} /\ call'[c].by = session
<1> DEFINE user == store[i].user
           pat == pats[user]
           requested == Token(user, "api", q)
           session == Elevated(store[i], requested, pat)
           tok == [requested EXCEPT !.user = IF q.user = None THEN user ELSE q.user]
<1>1. /\ ~Refused(session, requested, pat) /\ ~Refused(FullToken(session, pat), requested, pat)
      /\ Go(c, Requested(tok, session)) /\ i \in DOMAIN store /\ Asked(q) /\ q.op = "create"
  BY DEF Create, May, Valid, Sound, MembersTyped
<1>2. Row(store[i]) /\ user \in Users /\ Member(pat)
  BY <1>1 DEF Sound, RowsSigned, Row, MembersTyped
<1>3. q.admin \in {None, "viewer", "editor"}
  BY <1>1 DEF Asked, Held
<1>4. requested = [Token(user, "api", q) EXCEPT !.admin = q.admin]
  BY DEF Token
<1>5. Asking(requested) /\ requested.type = "api"
  <2>1. Asking([Token(user, "api", q) EXCEPT !.admin = q.admin]) /\ [Token(user, "api", q) EXCEPT !.admin = q.admin].type = "api"
    BY <1>1, <1>3, TokenAsks
  <2> QED BY <2>1, <1>4
<1>6. session.user = user /\ Asking(session)
  <2>1. requested.admin = q.admin
    BY DEF Token
  <2>2. CASE session = store[i]
    BY <1>2, <2>2 DEF Asking
  <2>3. CASE session = [Resolve(store[i], pat) EXCEPT !.admin = requested.admin, !.type = "api"]
    <3> DEFINE res == Resolve(store[i], pat)
    <3>1. Row(res) /\ res.user = user
      <4>1. CASE store[i].type # "user"
        BY <1>2, <4>1 DEF Resolve
      <4>2. CASE store[i].type = "user"
        <5>1. res = [store[i] EXCEPT !.projects = pat.projects, !.tenants = pat.tenants, !.admin = None, !.perms = {}]
          BY <4>2 DEF Resolve
        <5>2. /\ DOMAIN res = DOMAIN store[i] /\ res.projects = pat.projects /\ res.tenants = pat.tenants /\ res.admin = None /\ res.perms = {}
              /\ \A f \in {"user", "type", "infra", "machines", "life", "key", "issued", "kept"} : res[f] = store[i][f]
          BY <5>1, <1>2 DEF Row, Held
        <5> HIDE DEF res, pat
        <5> QED BY <1>2, <5>2, MethodAssumption DEF Row, Held, Member
      <4> QED BY <4>1, <4>2
    <3> HIDE DEF res
    <3>2. session = [res EXCEPT !.admin = q.admin, !.type = "api"]
      BY <2>1, <2>3 DEF res
    <3>3. /\ DOMAIN session = DOMAIN res /\ session.admin = q.admin /\ session.type = "api"
          /\ \A f \in {"user", "infra", "projects", "tenants", "machines", "perms", "life", "key", "issued", "kept"} : session[f] = res[f]
      BY <3>1, <3>2 DEF Row, Held
    <3> HIDE DEF session
    <3>4. Row(session)
      BY <1>3, <3>1, <3>3, MethodAssumption DEF Row, Held
    <3> QED BY <3>1, <3>3, <3>4 DEF Asking
  <2> QED BY <2>2, <2>3 DEF Elevated
<1>7. call'[c] = [pc |-> "sign", tok |-> tok, by |-> session]
  BY <1>1 DEF Go, Requested, Sound, CallsTyped
<1>8. tok.type = "api" /\ SameClaims(tok, requested)
  BY DEF Token, SameClaims
<1> HIDE DEF tok, session, requested
<1>9. call'[c].tok = tok /\ call'[c].by = session /\ DOMAIN call'[c] = {"pc", "tok", "by"}
  BY <1>7
<1> QED BY <1>1, <1>2, <1>5, <1>6, <1>8, <1>9

LEMMA RefreshedBy ==
    ASSUME Sound, NEW c \in Calls, NEW i \in Ids, NEW q \in script.requests, Refresh(c, i, q)
    PROVE  LET old == store[i]
               pat == pats[old.user]
           IN  /\ Row(old) /\ Member(pat)
               /\ ~Refused(old, old, pat) /\ ~Refused([FullToken(old, pat) EXCEPT !.perms = Resolve(old, pat).perms], old, pat)
               /\ call'[c].tok.type = "api" /\ SameClaims(call'[c].tok, old)
               /\ DOMAIN call'[c] = {"pc", "tok", "by", "old"} /\ call'[c].by = old /\ call'[c].old = old /\ call'[c].pc = "sign"
<1> DEFINE old == store[i]
           tok == [old EXCEPT !.type = "api"]
<1>1. /\ ~Refused(old, old, pats[old.user])
      /\ ~Refused([FullToken(old, pats[old.user]) EXCEPT !.perms = Resolve(old, pats[old.user]).perms], old, pats[old.user])
      /\ Go(c, Refreshed(old)) /\ i \in DOMAIN store
  BY DEF Refresh, May, Valid
<1>2. Row(old) /\ Member(pats[old.user])
  BY <1>1 DEF Sound, RowsSigned, Row, MembersTyped
<1>3. call'[c] = [pc |-> "sign", tok |-> tok, by |-> old, old |-> old]
  BY <1>1 DEF Go, Refreshed, Sound, CallsTyped
<1>4. tok.type = "api" /\ SameClaims(tok, old)
  BY <1>2 DEF Row, Held, SameClaims
<1> HIDE DEF tok
<1>5. /\ call'[c].tok = tok /\ call'[c].by = old /\ call'[c].old = old /\ call'[c].pc = "sign"
      /\ DOMAIN call'[c] = {"pc", "tok", "by", "old"}
  BY <1>3
<1> QED BY <1>1, <1>2, <1>4, <1>5

LEMMA UpdatedBy ==
    ASSUME Sound, NEW c \in Calls, NEW i \in Ids, NEW j \in Ids, NEW q \in script.requests, Update(c, i, j, q)
    PROVE  \E requested : LET pat == pats[store[i].user] IN
             /\ Asking(requested) /\ requested.type = "api" /\ Member(pat) /\ Row(store[i])
             /\ Row(store[j]) /\ store[j].type = "api"
             /\ ~Refused(store[i], requested, pat) /\ ~Refused(FullToken(store[i], pat), requested, pat)
             /\ Claimed(call'[c].tok) \subseteq Claimed(requested) \cup Claimed(store[j])
             /\ call'[c].tok.type = "api" /\ call'[c].tok.admin \in {requested.admin, store[j].admin}
             /\ call'[c].tok.admin = None => requested.admin = None
             /\ DOMAIN call'[c] = {"pc", "id", "tok", "by", "old"} /\ call'[c].by = store[i] /\ call'[c].old = store[j] /\ call'[c].pc = "set"
<1> DEFINE user == store[i].user
           pat == pats[user]
           requested == Asks(user, q)
           tok == Merge(store[j], q)
<1>1. /\ ~Refused(store[i], requested, pat) /\ ~Refused(FullToken(store[i], pat), requested, pat)
      /\ i \in DOMAIN store /\ j \in DOMAIN store /\ store[j].type = "api" /\ Asked(q)
      /\ Go(c, [pc |-> "set", id |-> j, tok |-> tok, by |-> store[i], old |-> store[j]])
  BY DEF Update, May, Valid, Sound, MembersTyped, Asks
<1>2. Row(store[i]) /\ Row(store[j]) /\ user \in Users /\ Member(pat)
  BY <1>1 DEF Sound, RowsSigned, Row, MembersTyped
<1>3. Asking(requested) /\ requested.type = "api"
  <2> DEFINE admin == IF q.admin = "unspecified" THEN None ELSE q.admin
  <2>1. admin \in {None, "viewer", "editor"}
    BY <1>1 DEF Asked, Held
  <2>2. requested = [Token(user, "api", q) EXCEPT !.admin = admin]
    BY DEF Token, Asks
  <2> HIDE DEF admin
  <2>3. Asking([Token(user, "api", q) EXCEPT !.admin = admin]) /\ [Token(user, "api", q) EXCEPT !.admin = admin].type = "api"
    BY <1>1, <2>1, TokenAsks
  <2> QED BY <2>2, <2>3
<1>4. /\ Claimed(tok) \subseteq Claimed(requested) \cup Claimed(store[j])
      /\ tok.type = store[j].type /\ tok.admin \in {requested.admin, store[j].admin}
      /\ tok.admin = None => requested.admin = None
  <2>1. tok = Merge(store[j], q) /\ requested = Asks(user, q)
    OBVIOUS
  <2> HIDE DEF tok, requested, user
  <2> QED BY <2>1, <1>1, <1>2, MergedClaims
<1>5. call'[c] = [pc |-> "set", id |-> j, tok |-> tok, by |-> store[i], old |-> store[j]]
  BY <1>1 DEF Go, Sound, CallsTyped
<1> HIDE DEF tok, requested
<1>6. /\ call'[c].tok = tok /\ call'[c].by = store[i] /\ call'[c].old = store[j] /\ call'[c].pc = "set"
      /\ DOMAIN call'[c] = {"pc", "id", "tok", "by", "old"}
  BY <1>5
<1> QED BY <1>1, <1>2, <1>3, <1>4, <1>6

\* Without roles of the provider tenant, the most a user may do has no admin method but those it is handed by name.
LEMMA FullAdmin ==
    ASSUME NEW session, Asking(session), NEW pat, Member(pat), NEW perms, \A p \in perms : p[1] \in Methods,
           NEW m \in AdminMethods([FullToken(session, pat) EXCEPT !.perms = perms], pat)
    PROVE  m \in RoleMethods(AdminRole(pat)) \cup {p[1] : p \in perms}
<1> DEFINE full == [FullToken(session, pat) EXCEPT !.perms = perms]
           role == AdminRole(pat)
<1>1. Held(session) /\ "type" \in DOMAIN session
  BY DEF Asking, Row
<1>2. role \in {None, "viewer", "editor"}
  BY DEF AdminRole
<1>3. /\ DOMAIN full = DOMAIN session /\ full.type = "none" /\ full.admin = role /\ full.perms = perms
      /\ full.projects = pat.projects /\ full.tenants = pat.tenants
      /\ full.machines = session.machines /\ full.infra = session.infra /\ full.life = session.life
  BY <1>1 DEF FullToken, Held
<1> HIDE DEF full, role
<1>4. Asking(full)
  BY <1>1, <1>2, <1>3, MethodAssumption DEF Asking, Held, Member
<1>5. m \in DOMAIN Permissions(full, pat) /\ m \in Visible("admin")
  BY DEF AdminMethods, full
<1>6. CASE role = "editor"
  BY <1>5, <1>6 DEF RoleMethods, role, Visible
<1>7. CASE role # "editor"
  <2>1. full.type # "user" /\ full.admin # "editor"
    BY <1>3, <1>7
  <2>2. PICK g \in Claimed(full) : m = g[1]
    <3>1. DOMAIN Permissions(full, pat) = {g[1] : g \in Claimed(full)}
      BY <2>1, RightsDomain
    <3> QED BY <1>5, <3>1
  <2>3. m \in {p[1] : p \in full.perms} \/ (full.admin = "viewer" /\ m \in AdminViewerMethods)
    BY <1>4, <1>5, <2>2, ClaimedMethods
  <2> QED BY <1>3, <1>5, <2>3 DEF RoleMethods, role
<1> QED BY <1>6, <1>7

LEMMA FullAdminRole ==
    ASSUME NEW session, Asking(session), NEW pat, Member(pat), NEW m \in AdminMethods(FullToken(session, pat), pat)
    PROVE  m \in RoleMethods(AdminRole(pat))
<1>1. [FullToken(session, pat) EXCEPT !.perms = {}] = FullToken(session, pat)
  <2>1. "perms" \in DOMAIN session
    BY DEF Asking, Row, Held
  <2> QED BY <2>1 DEF FullToken
<1>2. m \in RoleMethods(AdminRole(pat)) \cup {p[1] : p \in {}}
  BY <1>1, FullAdmin
<1> QED BY <1>2

\* A token permits no more than what was validated, or than the token did before.
LEMMA SameAdminMethods ==
    ASSUME NEW t, NEW w, NEW pat, t.type # "user", Asking(w), SameClaims(t, w)
    PROVE  Permissions(t, pat) = Permissions([w EXCEPT !.type = "none"], pat)
<1> DEFINE none == [w EXCEPT !.type = "none"]
<1>1. none.type # "user" /\ SameClaims(t, none)
  BY DEF Asking, Row, Held, SameClaims
<1> HIDE DEF none
<1>2. Permissions(t, pat) = Permissions(none, pat)
  BY <1>1, SameRights
<1> QED BY <1>2 DEF none

\* A request that a session and its user may make: nothing beyond the session, no admin method beyond the membership.
LEMMA RequestBounded ==
    ASSUME NEW t, t.type # "user", NEW w, Asking(w), SameClaims(t, w), NEW pat, Member(pat),
           NEW session, ~Refused(session, w, pat), NEW full, ~Refused(full, w, pat)
    PROVE  /\ t.admin = None => Within(t, {session}, pat)
           /\ AdminMethods(t, pat) \subseteq AdminMethods(full, pat)
<1>1. Permissions(t, pat) = Permissions([w EXCEPT !.type = "none"], pat)
  BY SameAdminMethods
<1>2. ASSUME t.admin = None PROVE Within(t, {session}, pat)
  <2>1. w.admin = None
    BY <1>2 DEF SameClaims
  <2>2. ASSUME NEW m \in DOMAIN Permissions(t, pat) \cap Scoped, NEW s \in Permissions(t, pat)[m]
        PROVE  m \in DOMAIN Permissions(session, pat) /\ (s \in Permissions(session, pat)[m] \/ AnySubject \in Permissions(session, pat)[m])
    BY <1>1, <2>1, <2>2, NotElevated
  <2> QED BY <2>2 DEF Within
<1>3. AdminMethods(t, pat) \subseteq AdminMethods(full, pat)
  BY <1>1, NotRefused DEF AdminMethods
<1> QED BY <1>2, <1>3

LEMMA UpdateBounded ==
    ASSUME NEW t, t.type = "api", NEW w, Asking(w), w.type = "api", NEW old, Row(old), old.type = "api", NEW pat, Member(pat),
           Claimed(t) \subseteq Claimed(w) \cup Claimed(old), t.admin \in {w.admin, old.admin}, t.admin = None => w.admin = None,
           NEW session, ~Refused(session, w, pat), NEW full, ~Refused(full, w, pat)
    PROVE  /\ t.admin = None => Within(t, {session, old}, pat)
           /\ AdminMethods(t, pat) \subseteq AdminMethods(full, pat) \cup AdminMethods(old, pat)
<1>1. w.type # "user" /\ old.type # "user" /\ t.type # "user" /\ SameClaims(w, w) /\ Asking(old)
  BY DEF SameClaims, Asking
<1>2. (w.admin = None => Within(w, {session}, pat)) /\ AdminMethods(w, pat) \subseteq AdminMethods(full, pat)
  BY <1>1, RequestBounded
<1>3. ASSUME t.admin = None PROVE Within(t, {session, old}, pat)
  <2>1. w.admin = None /\ w.admin # "editor" /\ t.admin # "editor"
    BY <1>3, MethodAssumption
  <2> SUFFICES ASSUME NEW m \in DOMAIN Permissions(t, pat) \cap Scoped, NEW s \in Permissions(t, pat)[m]
               PROVE  \E limit \in {session, old} : m \in DOMAIN Permissions(limit, pat)
                                                    /\ (s \in Permissions(limit, pat)[m] \/ AnySubject \in Permissions(limit, pat)[m])
      BY DEF Within
  <2>2. PICK g \in Granted(None, Claimed(t), pat) : g[1] = m /\ g[2] = s
    BY <1>1, <1>3, <2>1, RightsSubject
  <2>3. CASE g \in Granted(None, Claimed(w), pat)
    <3>1. g[1] \in {x[1] : x \in Claimed(w)}
      BY <2>3, GrantedClaimed
    <3>2. m \in DOMAIN Permissions(w, pat) /\ s \in Permissions(w, pat)[m]
      BY <1>1, <2>1, <2>2, <2>3, <3>1, RightsSubject
    <3> QED BY <1>2, <2>1, <3>2 DEF Within
  <2>4. CASE g \in Granted(None, Claimed(old), pat)
    <3>1. CASE old.admin = "editor"
      <4>1. Permissions(old, pat) = [n \in Methods |-> {AnySubject}]
        BY <1>1, <3>1, ApiRights DEF Rights
      <4>2. m \in Methods
        BY DEF Scoped
      <4> QED BY <4>1, <4>2
    <3>2. CASE old.admin # "editor"
      <4>1. \E x \in Granted(old.admin, Claimed(old), pat) : x[1] = m /\ x[2] \in {s, AnySubject}
        BY <2>2, <2>4, GrantedAdmin
      <4>2. PICK x \in Granted(old.admin, Claimed(old), pat) : x[1] = m /\ x[2] \in {s, AnySubject}
        BY <4>1
      <4>3. m \in {y[1] : y \in Claimed(old)}
        BY <4>2, GrantedClaimed
      <4>4. m \in DOMAIN Permissions(old, pat) /\ x[2] \in Permissions(old, pat)[m]
        BY <1>1, <3>2, <4>2, <4>3, RightsSubject
      <4> QED BY <4>2, <4>4
    <3> QED BY <3>1, <3>2
  <2> QED BY <2>2, <2>3, <2>4, GrantedUnion
<1>4. ASSUME NEW m \in AdminMethods(t, pat) PROVE m \in AdminMethods(w, pat) \cup AdminMethods(old, pat)
  <2>1. m \in DOMAIN Permissions(t, pat) /\ m \in Visible("admin") /\ m \in Methods
    BY <1>4 DEF AdminMethods, Visible
  <2>2. CASE w.admin = "editor" \/ old.admin = "editor"
    BY <1>1, <2>1, <2>2, RightsDomain DEF AdminMethods
  <2>3. CASE w.admin # "editor" /\ old.admin # "editor"
    <3>1. /\ DOMAIN Permissions(t, pat) = {g[1] : g \in Claimed(t)} /\ DOMAIN Permissions(w, pat) = {g[1] : g \in Claimed(w)}
          /\ DOMAIN Permissions(old, pat) = {g[1] : g \in Claimed(old)}
      BY <1>1, <2>3, RightsDomain
    <3>2. PICK g \in Claimed(t) : m = g[1]
      BY <2>1, <3>1
    <3> QED BY <2>1, <3>1, <3>2 DEF AdminMethods
  <2> QED BY <2>2, <2>3
<1> QED BY <1>2, <1>3, <1>4

LEMMA BoundedStep ==
    ASSUME Sound, [Next]_vars, NEW c \in Calls, Validated(c)
    PROVE  LET rec == call'[c]
               pat == pats[rec.by.user]
           IN  /\ rec.tok.admin = None => Within(rec.tok, Limits(rec), pat)
               /\ AdminMethods(rec.tok, pat) \subseteq RoleMethods(AdminRole(pat)) \cup Kept(rec, pat)
<1> DEFINE rec == call'[c]
<1>1. PICK q \in script.requests, i \in Ids : Create(c, i, q) \/ Refresh(c, i, q) \/ \E j \in Ids : Update(c, i, j, q)
  BY ValidatedBy
<1>2. CASE Create(c, i, q)
  <2> DEFINE pat == pats[store[i].user]
  <2>1. PICK requested, session :
             /\ Asking(requested) /\ requested.type = "api" /\ Member(pat) /\ session.user = store[i].user
             /\ ~Refused(session, requested, pat) /\ ~Refused(FullToken(session, pat), requested, pat)
             /\ Asking(session)
             /\ rec.tok.type = "api" /\ SameClaims(rec.tok, requested)
             /\ DOMAIN rec = {"pc", "tok", "by"} /\ rec.by = session
    BY <1>2, CreatedBy
  <2> HIDE DEF rec
  <2>2. Limits(rec) = {session} /\ pats[rec.by.user] = pat
    BY <2>1 DEF Limits
  <2> HIDE DEF pat
  <2>3. /\ rec.tok.admin = None => Within(rec.tok, {session}, pat)
        /\ AdminMethods(rec.tok, pat) \subseteq AdminMethods(FullToken(session, pat), pat)
    BY <2>1, RequestBounded
  <2>4. AdminMethods(FullToken(session, pat), pat) \subseteq RoleMethods(AdminRole(pat))
    BY <2>1, FullAdminRole
  <2> QED BY <2>2, <2>3, <2>4 DEF rec
<1>3. CASE Refresh(c, i, q)
  <2> DEFINE old == store[i]
             pat == pats[old.user]
             full == [FullToken(old, pat) EXCEPT !.perms = Resolve(old, pat).perms]
  <2>1. /\ Row(old) /\ Member(pat)
        /\ ~Refused(old, old, pat) /\ ~Refused(full, old, pat)
        /\ rec.tok.type = "api" /\ SameClaims(rec.tok, old)
        /\ DOMAIN rec = {"pc", "tok", "by", "old"} /\ rec.by = old /\ rec.old = old /\ rec.pc = "sign"
    BY <1>3, RefreshedBy
  <2>2. \A p \in Resolve(old, pat).perms : p \in old.perms /\ p[1] \in Methods
    BY <2>1 DEF Resolve, Row, Held
  <2> HIDE DEF rec
  <2>3. Limits(rec) = {old} /\ pats[rec.by.user] = pat /\ Kept(rec, pat) = {g[1] : g \in old.perms}
    BY <2>1 DEF Limits, Kept
  <2>4. Asking(old)
    BY <2>1 DEF Asking
  <2> HIDE DEF pat, old
  <2>5. AdminMethods(full, pat) \subseteq RoleMethods(AdminRole(pat)) \cup {p[1] : p \in Resolve(old, pat).perms}
    BY <2>1, <2>2, <2>4, FullAdmin
  <2> HIDE DEF full
  <2>6. /\ rec.tok.admin = None => Within(rec.tok, {old}, pat)
        /\ AdminMethods(rec.tok, pat) \subseteq AdminMethods(full, pat)
    BY <2>1, <2>4, RequestBounded
  <2> QED BY <2>2, <2>3, <2>5, <2>6 DEF rec
<1>4. ASSUME NEW j \in Ids, Update(c, i, j, q)
      PROVE  LET pat == pats[rec.by.user]
             IN  /\ rec.tok.admin = None => Within(rec.tok, Limits(rec), pat)
                 /\ AdminMethods(rec.tok, pat) \subseteq RoleMethods(AdminRole(pat)) \cup Kept(rec, pat)
  <2> DEFINE pat == pats[store[i].user]
             old == store[j]
  <2>1. PICK requested :
             /\ Asking(requested) /\ requested.type = "api" /\ Member(pat) /\ Row(store[i])
             /\ Row(old) /\ old.type = "api"
             /\ ~Refused(store[i], requested, pat) /\ ~Refused(FullToken(store[i], pat), requested, pat)
             /\ Claimed(rec.tok) \subseteq Claimed(requested) \cup Claimed(old)
             /\ rec.tok.type = "api" /\ rec.tok.admin \in {requested.admin, old.admin}
             /\ rec.tok.admin = None => requested.admin = None
             /\ DOMAIN rec = {"pc", "id", "tok", "by", "old"} /\ rec.by = store[i] /\ rec.old = old /\ rec.pc = "set"
    BY <1>4, UpdatedBy
  <2> HIDE DEF rec
  <2>2. Limits(rec) = {store[i], old} /\ pats[rec.by.user] = pat /\ Kept(rec, pat) = AdminMethods(old, pat)
    BY <2>1 DEF Limits, Kept
  <2>3. Asking(store[i])
    BY <2>1 DEF Asking
  <2> HIDE DEF pat, old
  <2>4. /\ rec.tok.admin = None => Within(rec.tok, {store[i], old}, pat)
        /\ AdminMethods(rec.tok, pat) \subseteq AdminMethods(FullToken(store[i], pat), pat) \cup AdminMethods(old, pat)
    <3> DEFINE full == FullToken(store[i], pat)
               session == store[i]
               tok == rec.tok
    <3>1. ~Refused(session, requested, pat) /\ ~Refused(full, requested, pat)
      BY <2>1
    <3>2. /\ Claimed(tok) \subseteq Claimed(requested) \cup Claimed(old) /\ tok.type = "api"
          /\ tok.admin \in {requested.admin, old.admin} /\ (tok.admin = None => requested.admin = None)
      BY <2>1
    <3>3. Asking(requested) /\ requested.type = "api" /\ Member(pat) /\ Row(old) /\ old.type = "api"
      BY <2>1
    <3> HIDE DEF full, session, tok
    <3>4. /\ tok.admin = None => Within(tok, {session, old}, pat)
          /\ AdminMethods(tok, pat) \subseteq AdminMethods(full, pat) \cup AdminMethods(old, pat)
      BY <3>1, <3>2, <3>3, UpdateBounded
    <3> QED BY <3>4 DEF full, session, tok
  <2>5. AdminMethods(FullToken(store[i], pat), pat) \subseteq RoleMethods(AdminRole(pat))
    BY <2>1, <2>3, FullAdminRole
  <2> QED BY <2>2, <2>4, <2>5
<1> QED BY <1>1, <1>2, <1>3, <1>4

\* No request for a token is given more of projects and tenants than the session or the token had, and no admin methods
\* beyond the membership of the user in the provider tenant (token-validation.go validateTokenRequest).
THEOREM RequestsBounded == Spec => RightsBounded
<1>1. Init => Sound
  BY InitSound
<1>2. Sound /\ [Next]_vars => Sound'
  BY NextSound
<1>3. Sound /\ [Next]_vars =>
        [\A c \in Calls : Validated(c) /\ call'[c].tok.admin = None =>
           Within(call'[c].tok, Limits(call'[c]), pats[call'[c].by.user])]_vars
  BY BoundedStep
<1>4. Sound /\ [Next]_vars =>
        [\A c \in Calls : Validated(c) =>
           LET rec == call'[c]
               pat == pats[rec.by.user]
           IN AdminMethods(rec.tok, pat) \subseteq RoleMethods(AdminRole(pat)) \cup Kept(rec, pat)]_vars
  BY BoundedStep
<1> QED BY <1>1, <1>2, <1>3, <1>4, PTL DEF Spec, RightsBounded, NoElevation, AdminFromProvider

=============================================================================
