--------------------------- MODULE IdentityProofs ---------------------------
(* Proofs about CustomerIdentity, for every value of its constants.         *)
EXTENDS CustomerIdentity, FiniteSetTheorems, TLAPS

-----------------------------------------------------------------------------
(* The inductive invariant.                                                *)

(* Records are made one after the other, each under an address of its own. *)
RecordsOK ==
  /\ \E n \in 0..MaxCustomers : Known = 1..n
  /\ \A c \in Known : customers[c].email \in Addresses
  /\ \A c, d \in Known : customers[c].email = customers[d].email => c = d

(* One record is linked to the user; others are merged into that one only. *)
LinksOK ==
  /\ \A c, d \in LinkedTo : c = d
  /\ \A c \in LinkedTo : customers[c].into = 0
  /\ \A c \in Known : customers[c].into # 0 => customers[c].into \in LinkedTo

(* A record that may own what was bought under the address e.              *)
Keeps(c, e) == c \in Known /\ (c \in LinkedTo \/ customers[c].email = e)

IsFiled(g) == goods[g].email \in Addresses /\ goods[g].customer # Unowned

GoodsOK ==
  \A g \in Goods : goods[g].customer # Unowned =>
    IsFiled(g) /\ Keeps(goods[g].customer, goods[g].email)

ShopOK == shop # NoShop => shop.email \in Addresses /\ Keeps(shop.id, shop.email)

(* What BoughtIsReached asks of one good.                                  *)
Owned(g) == \E c \in LinkedTo : goods[g].customer \in OwnershipIds(c)

(* A request holds the goods that were filed under its address; once the   *)
(* record of that address is linked or merged they are the user's.         *)
RequestOK(r) ==
  LET q == request[r]
      known == \A g \in q.known : Owned(g)
  IN /\ q.at # "idle" =>
          /\ q.email \in Addresses
          /\ \A g \in q.known : IsFiled(g) /\ goods[g].email = q.email
     /\ q.at \in {"email", "decide"} /\ q.byAuth # 0 => q.byAuth \in LinkedTo
     /\ q.at = "decide" => known \/ (q.byEmail \in Known /\ customers[q.byEmail].email = q.email)
     /\ q.at = "decide" /\ q.byEmail # 0 => Keeps(q.byEmail, q.email)
     /\ q.at = "decide" /\ q.byEmail \in LinkedTo => known
     /\ q.at \in {"guest", "target", "migrate"} =>
          /\ q.byAuth \in LinkedTo /\ q.byEmail # q.byAuth
          /\ q.byEmail \in Known /\ customers[q.byEmail].email = q.email
     /\ q.at \in {"save", "claim", "list"} => Keeps(q.byAuth, q.email)
     /\ q.at \in {"target", "migrate", "claim", "list"} => known
     /\ q.at = "save" => known \/ (q.writes = "link" /\ customers[q.byAuth].email = q.email)

IdentityInv ==
  /\ IdentityTypeOK
  /\ RecordsOK
  /\ LinksOK
  /\ GoodsOK
  /\ ShopOK
  /\ \A r \in Requests : RequestOK(r)
  /\ BoughtIsReached

-----------------------------------------------------------------------------
(* What a step does to the records and the goods.                          *)

Store == RecordsOK /\ LinksOK /\ GoodsOK

(* Records stay and keep their address and their link; goods that are      *)
(* filed stay so, and where the user reaches them.                         *)
Onward ==
  /\ \A c \in Known :
       /\ c \in Known' /\ customers'[c].email = customers[c].email
       /\ c \in LinkedTo => c \in LinkedTo'
  /\ \A g \in Goods :
       /\ IsFiled(g) => IsFiled(g)' /\ goods'[g].email = goods[g].email
       /\ Owned(g) => Owned(g)'

(* What was bought under the address of a record that is linked or merged. *)
LEMMA OwnedAfter ==
  ASSUME RecordsOK', GoodsOK', NEW g \in Goods, IsFiled(g)',
         NEW c \in Known', customers'[c].email = goods'[g].email,
         c \in LinkedTo' \/ customers'[c].into \in LinkedTo'
  PROVE  Owned(g)'
<1> DEFINE x == goods'[g].customer
<1>1. x \in Known' /\ (x \in LinkedTo' \/ customers'[x].email = goods'[g].email)
  BY DEF GoodsOK, IsFiled, Keeps
<1>2. x \in LinkedTo' \/ x = c
  BY <1>1 DEF RecordsOK
<1> QED
  BY <1>1, <1>2 DEF Owned, OwnershipIds

LEMMA StoreKept ==
  ASSUME IdentityInv, UNCHANGED <<customers, goods>>
  PROVE  Onward /\ Store'
BY DEF IdentityInv, Onward, Store, RecordsOK, LinksOK, GoodsOK, Keeps, IsFiled, Owned, Known,
  LinkedTo, OwnershipIds

(* The next record is a new one.                                           *)
LEMMA CreatedIsNext ==
  ASSUME IdentityInv
  PROVE  \E n \in 0..MaxCustomers : Known = 1..n /\ Created = n + 1 /\ Created \notin Known
<1>1. PICK n \in 0..MaxCustomers : Known = 1..n
  BY DEF IdentityInv, RecordsOK
<1>2. n \in Nat /\ Cardinality(1..n) = n
  BY FS_Interval, IdentityAssumption
<1> QED
  BY <1>1, <1>2 DEF Created

LEMMA RecordMade ==
  ASSUME IdentityInv, Created \in Ids, NEW e \in Addresses, NEW linked \in BOOLEAN,
         Under(e) = {}, linked => LinkedTo = {},
         customers' = [customers EXCEPT ![Created] =
                         [NoCustomer EXCEPT !.email = e, !.linked = linked]],
         UNCHANGED goods
  PROVE  /\ customers' \in [Ids -> Customer] /\ Onward /\ Store'
         /\ Created \in Known' /\ customers'[Created].email = e
         /\ linked => Created \in LinkedTo'
<1> DEFINE new == [NoCustomer EXCEPT !.email = e, !.linked = linked]
<1>1. PICK n \in 0..MaxCustomers : Known = 1..n /\ Created = n + 1 /\ Created \notin Known
  BY CreatedIsNext
<1>2. /\ new \in Customer /\ new.email = e /\ new.linked = linked /\ new.into = 0
      /\ new # NoCustomer
  <2>1. 0 \in 0..MaxCustomers
    BY IdentityAssumption
  <2> QED
    BY <2>1, IdentityAssumption DEF NoCustomer, Customer
<1> HIDE DEF new
<1>3. /\ customers \in [Ids -> Customer]
      /\ customers' = [customers EXCEPT ![Created] = new]
  BY DEF IdentityInv, IdentityTypeOK, new
<1>4. /\ customers' \in [Ids -> Customer]
      /\ customers'[Created] = new
      /\ \A c \in Ids \ {Created} : customers'[c] = customers[c]
  BY <1>2, <1>3
<1>5. /\ Known' = Known \cup {Created}
      /\ LinkedTo' = IF linked THEN {Created} ELSE LinkedTo
      /\ \A c \in Known : customers'[c] = customers[c]
  <2>1. Known' = Known \cup {Created}
    BY <1>2, <1>4 DEF Known
  <2>2. LinkedTo' = LinkedTo \cup (IF linked THEN {Created} ELSE {})
    BY <1>1, <1>2, <1>4, <2>1 DEF LinkedTo, Known
  <2> QED
    BY <1>1, <1>4, <2>1, <2>2 DEF Known
<1>6. RecordsOK'
  <2>1. Known' = 1..(n + 1) /\ n + 1 \in 0..MaxCustomers
    <3>1. n \in Nat /\ MaxCustomers \in Nat /\ n + 1 <= MaxCustomers
      BY <1>1, IdentityAssumption DEF Ids
    <3>2. 1..(n + 1) = (1..n) \cup {n + 1}
      BY <3>1
    <3> QED
      BY <1>1, <1>5, <3>1, <3>2
  <2>2. \A c \in Known : customers[c].email # e
    BY DEF Under
  <2> QED
    BY <1>2, <1>4, <1>5, <2>1, <2>2 DEF IdentityInv, RecordsOK
<1>7. LinksOK'
  <2>1. LinksOK /\ LinkedTo \subseteq Known
    BY DEF IdentityInv, LinkedTo
  <2>2. CASE linked
    <3>1. \A c \in Known : customers[c].into = 0
      BY <2>1, <2>2 DEF LinksOK
    <3> QED
      BY <1>2, <1>4, <1>5, <2>2, <3>1 DEF LinksOK
  <2>3. CASE ~linked
    <3>1. LinkedTo' = LinkedTo
      BY <1>5, <2>3
    <3>2. \A c \in LinkedTo : customers'[c] = customers[c]
      BY <1>5, <2>1
    <3> QED
      BY <1>2, <1>4, <1>5, <2>1, <3>1, <3>2 DEF LinksOK
  <2> QED
    BY <2>2, <2>3
<1>8. LinkedTo \subseteq LinkedTo'
  BY <1>5
<1>9. GoodsOK'
  BY <1>5, <1>8 DEF IdentityInv, GoodsOK, Keeps, IsFiled
<1>10. \A g \in Goods : Owned(g) => Owned(g)'
  BY <1>5, <1>8 DEF Owned, OwnershipIds, LinkedTo
<1>11. Onward
  BY <1>5, <1>8, <1>10 DEF Onward, IsFiled
<1> QED
  BY <1>2, <1>4, <1>5, <1>6, <1>7, <1>9, <1>11 DEF Store

(* A record is saved: linked, if no other is, or with other aliases.       *)
LEMMA RecordSaved ==
  ASSUME IdentityInv, NEW c \in Known, NEW linked \in BOOLEAN, NEW names \in SUBSET Addresses,
         customers' = [customers EXCEPT ![c] = [@ EXCEPT !.linked = linked, !.aliases = names]],
         customers[c].linked => linked,
         linked => LinkedTo \subseteq {c},
         UNCHANGED goods
  PROVE  /\ customers' \in [Ids -> Customer] /\ Onward /\ Store' /\ Known' = Known
         /\ c \in LinkedTo' <=> linked
         /\ \A d \in Known : customers'[d].into = customers[d].into
<1> DEFINE new == [customers[c] EXCEPT !.linked = linked, !.aliases = names]
<1>1. /\ customers \in [Ids -> Customer] /\ c \in Ids
      /\ RecordsOK /\ LinksOK /\ GoodsOK
  BY DEF IdentityInv, IdentityTypeOK, Known
<1>2. /\ new \in Customer
      /\ new.email = customers[c].email /\ new.linked = linked /\ new.into = customers[c].into
      /\ new # NoCustomer
  <2>1. customers[c].email \in Addresses
    BY <1>1 DEF RecordsOK
  <2> QED
    BY <1>1, <2>1, IdentityAssumption DEF Customer, NoCustomer
<1> HIDE DEF new
<1>3. /\ customers' \in [Ids -> Customer] /\ customers'[c] = new
      /\ \A d \in Ids \ {c} : customers'[d] = customers[d]
  BY <1>1, <1>2 DEF new
<1>4. /\ Known' = Known
      /\ LinkedTo' = IF linked THEN LinkedTo \cup {c} ELSE LinkedTo \ {c}
  BY <1>1, <1>2, <1>3 DEF Known, LinkedTo
<1>5. LinkedTo \subseteq LinkedTo'
  BY <1>4 DEF LinkedTo
<1>6. \A d \in Known :
        customers'[d].email = customers[d].email /\ customers'[d].into = customers[d].into
  BY <1>2, <1>3 DEF Known
<1>7. RecordsOK'
  BY <1>1, <1>4, <1>6 DEF RecordsOK
<1>8. LinksOK'
  <2>1. ASSUME linked PROVE LinkedTo' = {c} /\ customers[c].into = 0
    BY <1>1, <1>4, <2>1 DEF LinksOK
  <2>2. ASSUME ~linked PROVE LinkedTo' = LinkedTo
    BY <1>4, <2>2 DEF LinkedTo
  <2> QED
    BY <1>1, <1>4, <1>5, <1>6, <2>1, <2>2 DEF LinksOK, LinkedTo
<1>9. GoodsOK'
  BY <1>1, <1>4, <1>5, <1>6 DEF GoodsOK, Keeps, IsFiled
<1>10. \A g \in Goods : Owned(g) => Owned(g)'
  BY <1>4, <1>5, <1>6 DEF Owned, OwnershipIds
<1>11. Onward
  BY <1>4, <1>5, <1>6, <1>10 DEF Onward, IsFiled
<1> QED
  BY <1>3, <1>4, <1>6, <1>7, <1>8, <1>9, <1>11 DEF Store

(* A guest's record is merged into the one linked to the user.             *)
LEMMA RecordMerged ==
  ASSUME IdentityInv, NEW c \in Known, c \notin LinkedTo, NEW t \in LinkedTo,
         customers' = [customers EXCEPT ![c].into = t],
         UNCHANGED goods
  PROVE  /\ customers' \in [Ids -> Customer] /\ Onward /\ Store' /\ Known' = Known
         /\ customers'[c].into \in LinkedTo'
<1>1. /\ customers \in [Ids -> Customer] /\ c \in Ids /\ t \in 0..MaxCustomers /\ t # 0
      /\ RecordsOK /\ LinksOK /\ GoodsOK
  <2>1. t \in 1..MaxCustomers /\ MaxCustomers \in Nat
    BY IdentityAssumption DEF LinkedTo, Known, Ids
  <2> QED
    BY <2>1 DEF IdentityInv, IdentityTypeOK, Known
<1>2. /\ customers' \in [Ids -> Customer]
      /\ \A d \in Ids : /\ customers'[d].email = customers[d].email
                        /\ customers'[d].linked = customers[d].linked
                        /\ customers'[d].into = IF d = c THEN t ELSE customers[d].into
                        /\ d # c => customers'[d] = customers[d]
  BY <1>1 DEF Customer
<1>3. Known' = Known /\ LinkedTo' = LinkedTo
  <2>1. customers'[c] # NoCustomer
    BY <1>1, <1>2 DEF NoCustomer
  <2>2. Known' = Known
    BY <1>1, <1>2, <2>1 DEF Known
  <2> QED
    BY <1>2, <2>2 DEF LinkedTo, Known
<1>4. RecordsOK'
  BY <1>1, <1>2, <1>3 DEF RecordsOK, Known
<1>5. LinksOK'
  BY <1>1, <1>2, <1>3 DEF LinksOK, LinkedTo, Known
<1>6. GoodsOK'
  BY <1>1, <1>2, <1>3 DEF GoodsOK, Keeps, IsFiled, Known
<1>7. \A g \in Goods : Owned(g) => Owned(g)'
  <2> SUFFICES ASSUME NEW g \in Goods, NEW s \in LinkedTo, goods[g].customer \in OwnershipIds(s)
               PROVE  Owned(g)'
    BY DEF Owned
  <2>1. s = t
    BY <1>1 DEF LinksOK
  <2>2. goods[g].customer \in OwnershipIds(s)'
    BY <1>2, <1>3, <2>1 DEF OwnershipIds, Known
  <2> QED
    BY <1>3, <2>2 DEF Owned
<1>8. Onward
  BY <1>2, <1>3, <1>7 DEF Onward, IsFiled, Known
<1> QED
  BY <1>1, <1>2, <1>3, <1>4, <1>5, <1>6, <1>8 DEF Store

(* A good is filed, or filed anew under the record linked to the user.     *)
LEMMA GoodFiled ==
  ASSUME IdentityInv, NEW g \in Goods, NEW c, NEW e \in Addresses, Keeps(c, e),
         IsFiled(g) => e = goods[g].email /\ c \in LinkedTo,
         goods' = [goods EXCEPT ![g] = [email |-> e, customer |-> c]],
         UNCHANGED customers
  PROVE  goods' \in [Goods -> [email : Addresses \cup {NoAddress}, customer : 0..MaxCustomers]]
         /\ Onward /\ Store'
<1>1. /\ goods \in [Goods -> [email : Addresses \cup {NoAddress}, customer : 0..MaxCustomers]]
      /\ RecordsOK /\ LinksOK /\ GoodsOK
      /\ c \in Known
  BY DEF IdentityInv, IdentityTypeOK, Keeps
<1>2. c \in 0..MaxCustomers /\ c # 0
  BY <1>1, IdentityAssumption DEF Known, Ids
<1>3. /\ goods' \in [Goods -> [email : Addresses \cup {NoAddress}, customer : 0..MaxCustomers]]
      /\ goods'[g] = [email |-> e, customer |-> c]
      /\ \A h \in Goods \ {g} : goods'[h] = goods[h]
  BY <1>1, <1>2
<1>4. Known' = Known /\ LinkedTo' = LinkedTo /\ \A d : OwnershipIds(d)' = OwnershipIds(d)
  BY DEF Known, LinkedTo, OwnershipIds
<1>5. GoodsOK'
  BY <1>1, <1>2, <1>3, <1>4 DEF GoodsOK, Keeps, IsFiled, Unowned
<1>6. ASSUME NEW h \in Goods PROVE Owned(h) => Owned(h)'
  <2>1. CASE h # g
    BY <1>3, <1>4, <2>1 DEF Owned
  <2>2. CASE h = g /\ Owned(g)
    <3>1. goods[g].customer # Unowned
      BY <2>2, IdentityAssumption DEF Owned, OwnershipIds, LinkedTo, Known, Ids, Unowned
    <3>2. c \in LinkedTo
      BY <1>1, <3>1 DEF GoodsOK
    <3> QED
      BY <1>3, <1>4, <2>2, <3>2 DEF Owned, OwnershipIds
  <2> QED
    BY <2>1, <2>2
<1>7. Onward
  BY <1>2, <1>3, <1>4, <1>6 DEF Onward, IsFiled, Unowned
<1>8. RecordsOK' /\ LinksOK'
  BY <1>1, <1>4 DEF RecordsOK, LinksOK
<1> QED
  BY <1>3, <1>5, <1>7, <1>8 DEF Store

-----------------------------------------------------------------------------
(* What a step has to show: of the requests, those it moved on.            *)

(* A request that did nothing still holds what it may rely on.             *)
LEMMA RequestKept ==
  ASSUME IdentityInv, Onward, Store', NEW r \in Requests, request'[r] = request[r]
  PROVE  RequestOK(r)'
<1>1. RequestOK(r) /\ request[r].known \subseteq Goods
  BY DEF IdentityInv, IdentityTypeOK, RequestWork
<1>2. \A c, e : Keeps(c, e) => Keeps(c, e)'
  BY DEF Onward, Keeps
<1>3. LinkedTo \subseteq LinkedTo' /\ LinkedTo \subseteq Known
  BY DEF Onward, LinkedTo
<1>4. ASSUME request[r].at = "decide", request[r].byEmail \in LinkedTo'
      PROVE  \A g \in request[r].known : Owned(g)'
  <2>1. CASE \A g \in request[r].known : Owned(g)
    BY <1>1, <2>1 DEF Onward
  <2>2. CASE request[r].byEmail \in Known /\ customers[request[r].byEmail].email = request[r].email
    <3> SUFFICES ASSUME NEW g \in request[r].known PROVE Owned(g)'
      OBVIOUS
    <3>1. g \in Goods /\ IsFiled(g)' /\ goods'[g].email = request[r].email
      BY <1>1, <1>4 DEF RequestOK, Onward
    <3>2. /\ request[r].byEmail \in Known'
          /\ customers'[request[r].byEmail].email = request[r].email
      BY <2>2 DEF Onward
    <3> QED
      BY <1>4, <3>1, <3>2, OwnedAfter DEF Store
  <2> QED
    BY <1>1, <1>4, <2>1, <2>2 DEF RequestOK
<1>5. \A g \in request[r].known : Owned(g) => Owned(g)'
  BY <1>1 DEF Onward
<1>6. request[r].at # "idle" =>
        \A g \in request[r].known : IsFiled(g)' /\ goods'[g].email = request[r].email
  BY <1>1 DEF RequestOK, Onward
<1>7. \A c \in Known : c \in Known' /\ customers'[c].email = customers[c].email
  BY DEF Onward
<1>8. request[r].at = "save" /\ request[r].byAuth \notin Known => ~Keeps(request[r].byAuth, request[r].email)
  BY DEF Keeps
<1> QED
  BY <1>1, <1>2, <1>3, <1>4, <1>5, <1>6, <1>7, <1>8 DEF RequestOK

(* The invariant after a step, from what the step changed.                 *)
LEMMA StepKept ==
  ASSUME IdentityInv, Onward, Store',
         customers' \in [Ids -> Customer],
         goods' \in [Goods -> [email : Addresses \cup {NoAddress}, customer : 0..MaxCustomers]],
         address' \in Addresses,
         moves' \in [changes : 0..MaxMoves, crashes : 0..MaxMoves],
         request' \in [Requests -> RequestWork],
         \A r \in Requests : request'[r] = request[r] \/ RequestOK(r)',
         shop' \in [id : 0..MaxCustomers, email : Addresses \cup {NoAddress}],
         shop' = shop \/ ShopOK',
         \A g \in promised' : g \in promised \/ (g \in Goods /\ Owned(g)')
  PROVE  IdentityInv'
<1>1. promised' \subseteq Goods /\ \A g \in promised' : Owned(g)'
  BY DEF IdentityInv, IdentityTypeOK, BoughtIsReached, Owned, Onward
<1>2. IdentityTypeOK'
  BY <1>1 DEF IdentityTypeOK
<1>3. BoughtIsReached'
  BY <1>1 DEF BoughtIsReached, Owned
<1>4. ShopOK'
  <2>1. \A c, e : Keeps(c, e) => Keeps(c, e)'
    BY DEF Onward, Keeps
  <2> QED
    BY <2>1 DEF IdentityInv, ShopOK
<1>5. \A r \in Requests : RequestOK(r)'
  BY RequestKept
<1> QED
  BY <1>2, <1>3, <1>4, <1>5 DEF IdentityInv, Store

(* The same for a step of one request that leaves the rest alone.          *)
LEMMA RequestMoved ==
  ASSUME IdentityInv, NEW r \in Requests, NEW q \in RequestWork,
         request' = [request EXCEPT ![r] = q], RequestOK(r)',
         Onward, Store', customers' \in [Ids -> Customer],
         UNCHANGED <<goods, address, shop, promised, moves>>
  PROVE  IdentityInv'
<1>1. IdentityTypeOK
  BY DEF IdentityInv
<1>2. /\ request' \in [Requests -> RequestWork]
      /\ \A s \in Requests : request'[s] = request[s] \/ RequestOK(s)'
  BY <1>1 DEF IdentityTypeOK
<1> QED
  BY <1>1, <1>2, StepKept DEF IdentityTypeOK

-----------------------------------------------------------------------------
(* The lookups.                                                            *)

(* By the id of the user: the one record linked to it, or none.            *)
LEMMA FoundByAuth ==
  ASSUME IdentityInv
  PROVE  \/ LinkedTo = {} /\ Found(LinkedTo) = 0
         \/ Found(LinkedTo) \in LinkedTo
BY DEF IdentityInv, LinksOK, Found, canonical

(* By an address: its one record, or the record that one was merged into.  *)
LEMMA FoundByEmail ==
  ASSUME IdentityInv, NEW e
  PROVE  \/ Under(e) = {} /\ Found(Under(e)) = 0
         \/ \E c \in Under(e) :
              IF customers[c].into = 0 THEN Found(Under(e)) = c
              ELSE Found(Under(e)) = customers[c].into /\ Found(Under(e)) \in LinkedTo
BY DEF IdentityInv, LinksOK, Found, canonical, Under

(* What an address without a record was filed under belongs to the user.   *)
LEMMA OwnedWithoutRecord ==
  ASSUME IdentityInv, NEW g \in Goods, IsFiled(g), Under(goods[g].email) = {}
  PROVE  Owned(g)
BY DEF IdentityInv, GoodsOK, IsFiled, Keeps, Under, Owned, OwnershipIds

LEMMA KnownIds ==
  ASSUME IdentityInv
  PROVE  /\ Known \subseteq 1..MaxCustomers /\ LinkedTo \subseteq Known
         /\ 0 \notin Known /\ 0 \in 0..MaxCustomers
         /\ \A c \in Known : c \in 0..MaxCustomers
BY IdentityAssumption DEF Known, LinkedTo, Ids

-----------------------------------------------------------------------------
(* One lemma for each action.                                              *)

LEMMA VerifyTokenStep ==
  ASSUME IdentityInv, NEW r \in Requests, VerifyToken(r)
  PROVE  IdentityInv'
<1> DEFINE known == {g \in Goods : goods[g].email = address /\ goods[g].customer # Unowned}
           q == [NoRequest EXCEPT !.at = "auth", !.email = address, !.known = known]
<1>1. address \in Addresses /\ IdentityTypeOK
  BY DEF IdentityInv, IdentityTypeOK
<1>2. /\ q \in RequestWork /\ q.at = "auth" /\ q.email = address /\ q.known = known
  BY <1>1, KnownIds DEF RequestWork, RequestStep, NoRequest, NoCustomer, Customer
<1>3. request' = [request EXCEPT ![r] = q]
  BY DEF VerifyToken
<1> HIDE DEF q
<1>4. request'[r] = q
  BY <1>1, <1>3 DEF IdentityTypeOK
<1>5. Onward /\ Store'
  BY StoreKept DEF VerifyToken
<1>6. RequestOK(r)'
  BY <1>1, <1>2, <1>4 DEF RequestOK, IsFiled, VerifyToken
<1> QED
  BY <1>1, <1>2, <1>3, <1>5, <1>6, RequestMoved DEF VerifyToken, IdentityTypeOK

LEMMA FindByAuthStep ==
  ASSUME IdentityInv, NEW r \in Requests, FindByAuth(r)
  PROVE  IdentityInv'
<1> DEFINE c == Found(LinkedTo)
           q == [request[r] EXCEPT !.at = "email", !.byAuth = c,
                                   !.copy = IF c = 0 THEN NoCustomer ELSE customers[c]]
<1>1. /\ IdentityTypeOK /\ request[r] \in RequestWork /\ request[r].at = "auth"
      /\ RequestOK(r)
  BY DEF IdentityInv, IdentityTypeOK, FindByAuth, At
<1>2. c = 0 \/ c \in LinkedTo
  BY FoundByAuth
<1>3. /\ c \in 0..MaxCustomers
      /\ (IF c = 0 THEN NoCustomer ELSE customers[c]) \in Customer
  BY <1>1, <1>2, KnownIds DEF IdentityTypeOK, NoCustomer, Customer, Ids
<1>4. /\ q \in RequestWork /\ q.at = "email" /\ q.byAuth = c
      /\ q.email = request[r].email /\ q.known = request[r].known
  BY <1>1, <1>3 DEF RequestWork, RequestStep
<1>5. request' = [request EXCEPT ![r] = q]
  BY DEF FindByAuth
<1> HIDE DEF c, q
<1>6. request'[r] = q
  BY <1>1, <1>5 DEF IdentityTypeOK
<1>7. Onward /\ Store' /\ LinkedTo' = LinkedTo
  BY StoreKept DEF FindByAuth, LinkedTo, Known
<1>8. RequestOK(r)'
  BY <1>1, <1>2, <1>4, <1>6, <1>7 DEF RequestOK, IsFiled, FindByAuth
<1> QED
  BY <1>1, <1>4, <1>5, <1>7, <1>8, RequestMoved DEF FindByAuth, IdentityTypeOK

LEMMA FindByEmailStep ==
  ASSUME IdentityInv, NEW r \in Requests, FindByEmail(r)
  PROVE  IdentityInv'
<1>1. /\ IdentityTypeOK /\ request[r] \in RequestWork /\ request[r].at = "email"
      /\ RequestOK(r)
  BY DEF IdentityInv, IdentityTypeOK, FindByEmail, At
<1>2. PICK e, c : e = request[r].email /\ c = Found(Under(e))
  OBVIOUS
<1>3. \/ c = 0 /\ Under(e) = {}
      \/ \E d \in Under(e) : IF customers[d].into = 0 THEN c = d
                             ELSE c = customers[d].into /\ c \in LinkedTo
  BY <1>2, FoundByEmail
<1>4. c = 0 \/ c \in Known
  BY <1>3, KnownIds DEF Under
<1>5. PICK copy \in Customer :
        copy = IF request[r].byAuth # 0 \/ c = 0 THEN request[r].copy ELSE customers[c]
  BY <1>1, <1>4, KnownIds DEF IdentityTypeOK, RequestWork, Ids
<1>6. PICK q : q = [request[r] EXCEPT !.at = "decide", !.byEmail = c, !.copy = copy]
  OBVIOUS
<1>7. request' = [request EXCEPT ![r] = q]
  BY <1>2, <1>5, <1>6 DEF FindByEmail
<1>8. /\ q \in RequestWork /\ q.at = "decide" /\ q.byEmail = c /\ q.byAuth = request[r].byAuth
      /\ q.email = e /\ q.known = request[r].known
  BY <1>1, <1>2, <1>4, <1>6, KnownIds DEF RequestWork, RequestStep
<1>9. /\ e \in Addresses
      /\ \A g \in q.known : g \in Goods /\ IsFiled(g) /\ goods[g].email = e
  BY <1>1, <1>2, <1>8 DEF RequestOK, RequestWork
<1>10. /\ Onward /\ Store' /\ LinkedTo' = LinkedTo /\ Known' = Known
       /\ customers' = customers /\ goods' = goods
  BY StoreKept DEF FindByEmail, LinkedTo, Known
<1>11. ASSUME Under(e) = {} PROVE \A g \in q.known : Owned(g)'
  <2> TAKE g \in q.known
  <2>1. Owned(g)
    BY <1>9, <1>11, OwnedWithoutRecord
  <2> QED
    BY <1>9, <1>10, <2>1 DEF Onward
<1>12. ASSUME NEW d \in Under(e), d \in LinkedTo \/ customers[d].into \in LinkedTo
       PROVE  \A g \in q.known : Owned(g)'
  <2> TAKE g \in q.known
  <2>1. g \in Goods /\ IsFiled(g)' /\ goods'[g].email = e
    BY <1>9, <1>10 DEF IsFiled
  <2>2. d \in Known' /\ customers'[d].email = e
    BY <1>10 DEF Under
  <2>3. RecordsOK' /\ GoodsOK'
    BY <1>10 DEF Store
  <2> QED
    BY <1>10, <1>12, <2>1, <2>2, <2>3, OwnedAfter
<1>13. \/ c = 0 /\ \A g \in q.known : Owned(g)'
       \/ c \in LinkedTo /\ \A g \in q.known : Owned(g)'
       \/ c \in Known /\ c \notin LinkedTo /\ customers[c].email = e
  BY <1>3, <1>11, <1>12 DEF Under
<1>14. \A g \in q.known : IsFiled(g)' /\ goods'[g].email = e
  BY <1>9, <1>10 DEF IsFiled
<1>15. q.byAuth # 0 => q.byAuth \in LinkedTo'
  BY <1>1, <1>8, <1>10 DEF RequestOK
<1>16. /\ (\A g \in q.known : Owned(g)') \/ (c \in Known' /\ customers'[c].email = e)
       /\ c # 0 => Keeps(c, e)'
       /\ c \in LinkedTo' => \A g \in q.known : Owned(g)'
  BY <1>10, <1>13, KnownIds DEF Keeps
<1>17. request'[r] = q
  BY <1>1, <1>7 DEF IdentityTypeOK
<1>18. RequestOK(r)'
  BY <1>8, <1>9, <1>14, <1>15, <1>16, <1>17 DEF RequestOK
<1> QED
  BY <1>1, <1>7, <1>8, <1>10, <1>18, RequestMoved DEF FindByEmail, IdentityTypeOK

LEMMA DecideMergeStep ==
  ASSUME IdentityInv, NEW r \in Requests, DecideMerge(r)
  PROVE  IdentityInv'
<1>1. /\ IdentityTypeOK /\ request[r] \in RequestWork /\ request[r].at = "decide"
      /\ RequestOK(r) /\ LinksOK
  BY DEF IdentityInv, IdentityTypeOK, DecideMerge, At
<1>2. PICK q : q = [request[r] EXCEPT !.at = "guest"]
  OBVIOUS
<1>3. /\ q \in RequestWork /\ q.at = "guest" /\ q.byEmail = request[r].byEmail
      /\ q.byAuth = request[r].byAuth /\ q.email = request[r].email
      /\ q.known = request[r].known
  BY <1>1, <1>2 DEF RequestWork, RequestStep
<1>4. request' = [request EXCEPT ![r] = q] /\ request'[r] = q
  BY <1>1, <1>2 DEF DecideMerge, Proceed, IdentityTypeOK
<1>5. /\ Onward /\ Store' /\ LinkedTo' = LinkedTo /\ Known' = Known
      /\ customers' = customers /\ goods' = goods
  BY StoreKept DEF DecideMerge, LinkedTo, Known
<1>6. /\ q.byAuth \in LinkedTo /\ q.byEmail # q.byAuth
      /\ q.byEmail \in Known /\ customers[q.byEmail].email = q.email
  <2>1. q.byAuth \in LinkedTo /\ Keeps(q.byEmail, q.email) /\ q.byEmail # q.byAuth
    BY <1>1, <1>3 DEF DecideMerge, RequestOK
  <2> QED
    BY <1>1, <2>1 DEF LinksOK, Keeps
<1>7. q.email \in Addresses /\ \A g \in q.known : IsFiled(g)' /\ goods'[g].email = q.email
  BY <1>1, <1>3, <1>5 DEF RequestOK, IsFiled
<1>8. RequestOK(r)'
  BY <1>3, <1>4, <1>5, <1>6, <1>7 DEF RequestOK
<1> QED
  BY <1>1, <1>3, <1>4, <1>5, <1>8, RequestMoved DEF DecideMerge, IdentityTypeOK

LEMMA DecideKnownStep ==
  ASSUME IdentityInv, NEW r \in Requests, DecideKnown(r)
  PROVE  IdentityInv'
<1>1. /\ IdentityTypeOK /\ request[r] \in RequestWork /\ request[r].at = "decide"
      /\ RequestOK(r)
  BY DEF IdentityInv, IdentityTypeOK, DecideKnown, At
<1>2. request[r].email \in Addresses
  BY <1>1 DEF RequestOK
<1>3. PICK q : /\ q \in RequestWork /\ q.at \in {"save", "list"}
               /\ q.byAuth = request[r].byAuth /\ q.email = request[r].email
               /\ q.known = request[r].known
               /\ request' = [request EXCEPT ![r] = q]
  <2>1. CASE \E step \in {"save", "list"} : Resolved(r, request[r].byAuth, step)
    <3>1. PICK step \in {"save", "list"} : Resolved(r, request[r].byAuth, step)
      BY <2>1
    <3> DEFINE q == [NoRequest EXCEPT !.at = step, !.email = request[r].email,
                       !.byAuth = request[r].byAuth, !.known = request[r].known]
    <3>2. /\ q \in RequestWork /\ q.at = step
          /\ q.byAuth = request[r].byAuth /\ q.email = request[r].email
          /\ q.known = request[r].known
      BY <1>1, KnownIds DEF RequestWork, RequestStep, NoRequest, NoCustomer, Customer
    <3>3. request' = [request EXCEPT ![r] = q]
      BY <3>1 DEF Resolved
    <3> QED
      BY <3>2, <3>3
  <2>2. CASE ~\E step \in {"save", "list"} : Resolved(r, request[r].byAuth, step)
    <3> DEFINE q == [request[r] EXCEPT !.at = "save", !.byEmail = 0, !.writes = "alias",
                       !.copy.aliases = request[r].copy.aliases \cup {request[r].email}]
    <3>1. /\ q \in RequestWork /\ q.at = "save"
          /\ q.byAuth = request[r].byAuth /\ q.email = request[r].email
          /\ q.known = request[r].known
      BY <1>1, <1>2, KnownIds DEF RequestWork, RequestStep, Customer
    <3>2. request' = [request EXCEPT ![r] = q]
      BY <2>2 DEF DecideKnown
    <3> QED
      BY <3>1, <3>2
  <2> QED
    BY <2>1, <2>2
<1>4. request'[r] = q
  BY <1>1, <1>3 DEF IdentityTypeOK
<1>5. /\ Onward /\ Store' /\ LinkedTo' = LinkedTo /\ Known' = Known
      /\ customers' = customers /\ goods' = goods
  BY StoreKept DEF DecideKnown, LinkedTo, Known
<1>6. q.byAuth \in LinkedTo /\ \A g \in q.known : g \in Goods /\ Owned(g)
  <2>1. q.byAuth \in LinkedTo /\ request[r].byEmail \in {0, q.byAuth}
    BY <1>1, <1>3 DEF DecideKnown, RequestOK
  <2>2. \A g \in q.known : Owned(g)
    BY <1>1, <1>3, <2>1, KnownIds DEF RequestOK
  <2> QED
    BY <1>3, <2>1, <2>2 DEF RequestWork
<1>7. Keeps(request[r].byAuth, request[r].email)
  BY <1>3, <1>6, KnownIds DEF Keeps
<1>8. \E c, e : q.byAuth = c /\ q.email = e /\ Keeps(c, e)'
  BY <1>3, <1>5, <1>7 DEF Keeps
<1>9. /\ q.email \in Addresses
      /\ \A g \in q.known : IsFiled(g)' /\ goods'[g].email = q.email /\ Owned(g)'
  BY <1>1, <1>2, <1>3, <1>5, <1>6 DEF RequestOK, Onward
<1>10. RequestOK(r)'
  BY <1>3, <1>4, <1>8, <1>9 DEF RequestOK
<1> QED
  BY <1>1, <1>3, <1>5, <1>10, RequestMoved DEF DecideKnown, IdentityTypeOK

LEMMA DecideLinkStep ==
  ASSUME IdentityInv, NEW r \in Requests, DecideLink(r)
  PROVE  IdentityInv'
<1>1. /\ IdentityTypeOK /\ request[r] \in RequestWork /\ request[r].at = "decide"
      /\ RequestOK(r)
  BY DEF IdentityInv, IdentityTypeOK, DecideLink, At
<1>2. PICK q : q = [request[r] EXCEPT !.at = "save", !.byAuth = request[r].byEmail,
                      !.byEmail = 0, !.copy = NoCustomer, !.writes = "link"]
  OBVIOUS
<1>3. PICK e, c : e = request[r].email /\ c = request[r].byEmail
  OBVIOUS
<1>4. /\ q \in RequestWork /\ q.at = "save" /\ q.writes = "link"
      /\ q.byAuth = c /\ q.email = e /\ q.known = request[r].known
  BY <1>1, <1>2, <1>3, KnownIds DEF RequestWork, RequestStep, NoCustomer, Customer
<1>5. request' = [request EXCEPT ![r] = q] /\ request'[r] = q
  BY <1>1, <1>2 DEF DecideLink, IdentityTypeOK
<1>6. /\ Onward /\ Store' /\ LinkedTo' = LinkedTo /\ Known' = Known
      /\ customers' = customers /\ goods' = goods
  BY StoreKept DEF DecideLink, LinkedTo, Known
<1>7. Keeps(c, e)'
  BY <1>1, <1>3, <1>6 DEF DecideLink, RequestOK, Keeps
<1>8. (\A g \in q.known : Owned(g)') \/ customers'[c].email = e
  <2>1. (\A g \in q.known : Owned(g)) \/ customers[c].email = e
    BY <1>1, <1>3, <1>4 DEF RequestOK
  <2>2. \A g \in q.known : g \in Goods
    BY <1>4 DEF RequestWork
  <2> QED
    BY <1>6, <2>1, <2>2 DEF Onward
<1>9. e \in Addresses /\ \A g \in q.known : IsFiled(g)' /\ goods'[g].email = e
  BY <1>1, <1>3, <1>4, <1>6 DEF RequestOK, IsFiled
<1>10. RequestOK(r)'
  BY <1>4, <1>5, <1>7, <1>8, <1>9 DEF RequestOK
<1> QED
  BY <1>1, <1>4, <1>5, <1>6, <1>10, RequestMoved DEF DecideLink, IdentityTypeOK

(* A resolved request keeps the record, the address and the goods.         *)
LEMMA ResolvedWork ==
  ASSUME IdentityInv, NEW r \in Requests, NEW c \in 0..MaxCustomers,
         NEW step \in RequestStep, Resolved(r, c, step)
  PROVE  \E q \in RequestWork :
           /\ q.at = step /\ q.byAuth = c
           /\ q.email = request[r].email /\ q.known = request[r].known
           /\ request' = [request EXCEPT ![r] = q] /\ request'[r] = q
<1> DEFINE q == [NoRequest EXCEPT !.at = step, !.email = request[r].email,
                   !.byAuth = c, !.known = request[r].known]
<1>1. request \in [Requests -> RequestWork]
  BY DEF IdentityInv, IdentityTypeOK
<1>2. /\ q \in RequestWork /\ q.at = step /\ q.byAuth = c
      /\ q.email = request[r].email /\ q.known = request[r].known
  BY <1>1, KnownIds DEF RequestWork, NoRequest, NoCustomer, Customer
<1>3. request' = [request EXCEPT ![r] = q]
  BY DEF Resolved
<1> QED
  BY <1>1, <1>2, <1>3

(* A request that is over relies on nothing.                               *)
LEMMA AnsweredWork ==
  ASSUME IdentityInv, NEW r \in Requests, Answered(r)
  PROVE  NoRequest \in RequestWork /\ request' = [request EXCEPT ![r] = NoRequest]
         /\ RequestOK(r)'
<1>1. NoRequest \in RequestWork /\ NoRequest.at = "idle"
  BY KnownIds DEF RequestWork, RequestStep, NoRequest, NoCustomer, Customer
<1>2. request' = [request EXCEPT ![r] = NoRequest] /\ request'[r] = NoRequest
  BY DEF Answered, IdentityInv, IdentityTypeOK
<1> QED
  BY <1>1, <1>2 DEF RequestOK

(* What a request relies on once it has the record of the user in hand.    *)
LEMMA InHandOK ==
  ASSUME IdentityInv, Onward, Store', NEW r \in Requests, RequestOK(r), request[r].at # "idle",
         NEW q \in RequestWork, request'[r] = q, q.at \in {"save", "claim", "list"},
         q.email = request[r].email, q.known = request[r].known,
         NEW c, NEW e, q.byAuth = c, q.email = e, Keeps(c, e)',
         \A g \in q.known : Owned(g)'
  PROVE  RequestOK(r)'
<1>1. q.email \in Addresses /\ \A g \in q.known : IsFiled(g)' /\ goods'[g].email = q.email
  <2>1. q.email \in Addresses /\ \A g \in q.known : g \in Goods /\ IsFiled(g) /\ goods[g].email = q.email
    BY DEF RequestOK, RequestWork
  <2> QED
    BY <2>1 DEF Onward
<1> QED
  BY <1>1 DEF RequestOK

LEMMA DecideCreateStep ==
  ASSUME IdentityInv, NEW r \in Requests, DecideCreate(r)
  PROVE  IdentityInv'
<1>1. /\ IdentityTypeOK /\ request[r] \in RequestWork /\ request[r].at = "decide"
      /\ RequestOK(r)
  BY DEF IdentityInv, IdentityTypeOK, DecideCreate, At
<1>2. PICK e : e = request[r].email /\ e \in Addresses
  BY <1>1 DEF RequestOK
<1>3. \A g \in request[r].known : g \in Goods /\ Owned(g)
  <2>1. request[r].byEmail = 0
    BY DEF DecideCreate
  <2> QED
    BY <1>1, <2>1, KnownIds DEF RequestOK, RequestWork
<1>4. CASE LinkedTo # {} \/ Under(e) # {}
  <2>1. PICK c : /\ Keeps(c, e) /\ Resolved(r, c, "save") /\ UNCHANGED customers
    <3> DEFINE taken == IF LinkedTo # {} THEN LinkedTo ELSE Under(e)
    <3>1. taken # {} /\ Resolved(r, Found(taken), "save") /\ UNCHANGED customers
      BY <1>2, <1>4 DEF DecideCreate
    <3>2. Keeps(Found(taken), e)
      <4>1. CASE LinkedTo # {}
        <5>1. Found(LinkedTo) \in LinkedTo
          BY <4>1, FoundByAuth, KnownIds DEF Found
        <5> QED
          BY <4>1, <5>1, KnownIds DEF Keeps
      <4>2. CASE LinkedTo = {}
        <5>1. PICK d \in Under(e) :
                IF customers[d].into = 0 THEN Found(Under(e)) = d
                ELSE Found(Under(e)) \in LinkedTo
          BY <1>4, <4>2, FoundByEmail
        <5> QED
          BY <4>2, <5>1, KnownIds DEF Keeps, Under
      <4> QED
        BY <4>1, <4>2
    <3> QED
      BY <3>1, <3>2
  <2>2. c \in 0..MaxCustomers
    BY <2>1, KnownIds DEF Keeps
  <2>3. PICK q \in RequestWork :
           /\ q.at = "save" /\ q.byAuth = c
           /\ q.email = request[r].email /\ q.known = request[r].known
           /\ request' = [request EXCEPT ![r] = q] /\ request'[r] = q
    BY <2>1, <2>2, ResolvedWork DEF RequestStep
  <2>4. /\ Onward /\ Store' /\ LinkedTo' = LinkedTo /\ Known' = Known
        /\ customers' = customers /\ goods' = goods
    BY <2>1, StoreKept DEF DecideCreate, LinkedTo, Known
  <2>5. Keeps(c, e)'
    BY <2>1, <2>4 DEF Keeps
  <2>6. \A g \in q.known : Owned(g)'
    BY <1>3, <2>3, <2>4 DEF Onward
  <2>7. RequestOK(r)'
    BY <1>1, <1>2, <2>3, <2>4, <2>5, <2>6, InHandOK
  <2> QED
    BY <1>1, <2>3, <2>4, <2>7, RequestMoved DEF DecideCreate, IdentityTypeOK
<1>5. CASE LinkedTo = {} /\ Under(e) = {}
  <2>1. /\ Created \in Ids
        /\ customers' = [customers EXCEPT ![Created] =
                           [NoCustomer EXCEPT !.email = e, !.linked = TRUE]]
        /\ Resolved(r, Created, "claim")
        /\ UNCHANGED goods
    BY <1>2, <1>5 DEF DecideCreate
  <2>2. /\ customers' \in [Ids -> Customer] /\ Onward /\ Store'
        /\ Created \in Known' /\ customers'[Created].email = e
        /\ Created \in LinkedTo'
    BY <1>2, <1>5, <2>1, RecordMade
  <2>3. PICK c \in 0..MaxCustomers : c = Created
    BY <2>1, IdentityAssumption DEF Ids
  <2>4. PICK q \in RequestWork :
           /\ q.at = "claim" /\ q.byAuth = c
           /\ q.email = request[r].email /\ q.known = request[r].known
           /\ request' = [request EXCEPT ![r] = q] /\ request'[r] = q
    BY <2>1, <2>3, ResolvedWork DEF RequestStep
  <2>5. Keeps(c, e)'
    BY <2>2, <2>3 DEF Keeps
  <2>6. \A g \in q.known : Owned(g)'
    BY <1>3, <2>2, <2>4 DEF Onward
  <2>7. RequestOK(r)'
    BY <1>1, <1>2, <2>2, <2>4, <2>5, <2>6, InHandOK
  <2> QED
    BY <2>2, <2>4, <2>7, RequestMoved DEF DecideCreate
<1> QED
  BY <1>4, <1>5

LEMMA SaveGuestStep ==
  ASSUME IdentityInv, NEW r \in Requests, SaveGuest(r)
  PROVE  IdentityInv'
<1>1. /\ IdentityTypeOK /\ request[r] \in RequestWork /\ request[r].at = "guest"
      /\ RequestOK(r) /\ LinksOK
  BY DEF IdentityInv, IdentityTypeOK, SaveGuest, At
<1>2. PICK c, t, e : c = request[r].byEmail /\ t = request[r].byAuth /\ e = request[r].email
  OBVIOUS
<1>3. /\ t \in LinkedTo /\ c # t /\ c \in Known /\ c \notin LinkedTo
      /\ customers[c].email = e
  <2>1. t \in LinkedTo /\ c # t /\ c \in Known /\ customers[c].email = e
    BY <1>1, <1>2 DEF RequestOK
  <2> QED
    BY <1>1, <2>1 DEF LinksOK
<1>4. customers' = [customers EXCEPT ![c].into = t] /\ UNCHANGED goods
  BY <1>2 DEF SaveGuest
<1>5. /\ customers' \in [Ids -> Customer] /\ Onward /\ Store' /\ Known' = Known
      /\ customers'[c].into \in LinkedTo'
  BY <1>3, <1>4, RecordMerged
<1>6. t \in LinkedTo' /\ c \in Known' /\ customers'[c].email = e
  BY <1>3, <1>5, KnownIds DEF Onward
<1>7. PICK q : q = [request[r] EXCEPT !.at = "target"]
  OBVIOUS
<1>8. /\ q \in RequestWork /\ q.at = "target" /\ q.byEmail = c /\ q.byAuth = t /\ q.email = e
      /\ q.known = request[r].known
  BY <1>1, <1>2, <1>7 DEF RequestWork, RequestStep
<1>9. request' = [request EXCEPT ![r] = q] /\ request'[r] = q
  BY <1>1, <1>7 DEF SaveGuest, Proceed, IdentityTypeOK
<1>10. /\ e \in Addresses
       /\ \A g \in q.known : g \in Goods /\ IsFiled(g)' /\ goods'[g].email = e
  BY <1>1, <1>2, <1>4, <1>8 DEF RequestOK, RequestWork, IsFiled
<1>11. \A g \in q.known : Owned(g)'
  BY <1>5, <1>6, <1>10, OwnedAfter DEF Store
<1>12. RequestOK(r)'
  BY <1>3, <1>6, <1>8, <1>9, <1>10, <1>11 DEF RequestOK
<1> QED
  BY <1>5, <1>8, <1>9, <1>12, RequestMoved DEF SaveGuest

LEMMA SaveTargetStep ==
  ASSUME IdentityInv, NEW r \in Requests, SaveTarget(r)
  PROVE  IdentityInv'
<1>1. /\ IdentityTypeOK /\ request[r] \in RequestWork /\ request[r].at = "target"
      /\ RequestOK(r) /\ LinksOK /\ RecordsOK
  BY DEF IdentityInv, IdentityTypeOK, SaveTarget, At
<1>2. PICK c, t, e : c = request[r].byEmail /\ t = request[r].byAuth /\ e = request[r].email
  OBVIOUS
<1>3. /\ t \in LinkedTo /\ t \in Known /\ c # t /\ c \in Known /\ customers[c].email = e
      /\ customers[t].linked = TRUE /\ t \in Ids /\ c \in Ids
  <2>1. t \in LinkedTo /\ c # t /\ c \in Known /\ customers[c].email = e
    BY <1>1, <1>2 DEF RequestOK
  <2>2. t \in Ids /\ c \in Ids /\ t \in Known
    BY <2>1 DEF LinkedTo, Known
  <2>3. customers[t].linked \in BOOLEAN
    BY <1>1, <2>2 DEF IdentityTypeOK, Customer
  <2> QED
    BY <2>1, <2>2, <2>3 DEF LinkedTo
<1>4. PICK names : names = request[r].copy.aliases \cup {customers[c].email} \cup customers[c].aliases
  OBVIOUS
<1>5. names \in SUBSET Addresses
  BY <1>1, <1>3, <1>4 DEF IdentityTypeOK, RequestWork, Customer, RecordsOK
<1>6. customers' = [customers EXCEPT ![t] = [@ EXCEPT !.linked = TRUE, !.aliases = names]]
  <2>1. customers' = [customers EXCEPT ![t].aliases = names]
    BY <1>2, <1>4 DEF SaveTarget
  <2>2. customers[t] \in Customer /\ customers \in [Ids -> Customer]
    BY <1>1, <1>3 DEF IdentityTypeOK
  <2>3. [customers[t] EXCEPT !.aliases = names] = [customers[t] EXCEPT !.linked = TRUE, !.aliases = names]
    BY <1>3, <2>2 DEF Customer
  <2> QED
    BY <2>1, <2>3
<1>7. UNCHANGED goods /\ LinkedTo \subseteq {t}
  BY <1>1, <1>3 DEF SaveTarget, LinksOK
<1>8. /\ customers' \in [Ids -> Customer] /\ Onward /\ Store' /\ Known' = Known
      /\ t \in LinkedTo' <=> TRUE
  BY <1>3, <1>5, <1>6, <1>7, RecordSaved
<1>9. t \in LinkedTo' /\ c \in Known' /\ customers'[c].email = e
  BY <1>3, <1>8 DEF Onward
<1>10. PICK q : q = [request[r] EXCEPT !.at = "migrate", !.copy.aliases = names]
  OBVIOUS
<1>11. /\ q \in RequestWork /\ q.at = "migrate" /\ q.byEmail = c /\ q.byAuth = t /\ q.email = e
       /\ q.known = request[r].known
  BY <1>1, <1>2, <1>5, <1>10 DEF RequestWork, RequestStep, Customer
<1>12. request' = [request EXCEPT ![r] = q] /\ request'[r] = q
  BY <1>1, <1>2, <1>4, <1>10 DEF SaveTarget, IdentityTypeOK
<1>13. /\ e \in Addresses
       /\ \A g \in q.known : IsFiled(g)' /\ goods'[g].email = e /\ Owned(g)'
  <2>1. e \in Addresses
        /\ \A g \in q.known : g \in Goods /\ IsFiled(g) /\ goods[g].email = e /\ Owned(g)
    BY <1>1, <1>2, <1>11 DEF RequestOK, RequestWork
  <2> QED
    BY <1>8, <2>1 DEF Onward
<1>14. RequestOK(r)'
  BY <1>3, <1>9, <1>11, <1>12, <1>13 DEF RequestOK
<1> QED
  BY <1>8, <1>11, <1>12, <1>14, RequestMoved DEF SaveTarget

(* A good that is filed leaves the requests and the records alone.         *)
LEMMA FiledStep ==
  ASSUME IdentityInv, Onward, Store',
         goods' \in [Goods -> [email : Addresses \cup {NoAddress}, customer : 0..MaxCustomers]],
         shop' = shop \/ shop' = NoShop,
         UNCHANGED <<customers, request, address, promised, moves>>
  PROVE  IdentityInv'
<1>1. NoShop \in [id : 0..MaxCustomers, email : Addresses \cup {NoAddress}]
  BY KnownIds DEF NoShop
<1>2. shop' = shop \/ ShopOK'
  BY DEF ShopOK
<1> QED
  BY <1>1, <1>2, StepKept DEF IdentityInv, IdentityTypeOK

LEMMA MigrateOwnershipStep ==
  ASSUME IdentityInv, NEW r \in Requests, MigrateOwnership(r)
  PROVE  IdentityInv'
<1>1. /\ IdentityTypeOK /\ request[r] \in RequestWork /\ request[r].at = "migrate"
      /\ RequestOK(r)
  BY DEF IdentityInv, IdentityTypeOK, MigrateOwnership, At
<1>2. PICK t, e : /\ t = request[r].byAuth /\ e = request[r].email
                  /\ t \in LinkedTo /\ t \in Known
  BY <1>1, KnownIds DEF RequestOK
<1>3. CASE Resolved(r, t, "save") /\ UNCHANGED <<customers, goods>>
  <2>1. t \in 0..MaxCustomers
    BY <1>2, KnownIds
  <2>2. PICK q \in RequestWork :
           /\ q.at = "save" /\ q.byAuth = t
           /\ q.email = request[r].email /\ q.known = request[r].known
           /\ request' = [request EXCEPT ![r] = q] /\ request'[r] = q
    BY <1>3, <2>1, ResolvedWork DEF RequestStep
  <2>3. Onward /\ Store' /\ customers' = customers
    BY <1>3, StoreKept
  <2>4. Keeps(t, e)'
    BY <1>2, <1>3 DEF Keeps, LinkedTo, Known
  <2>5. \A g \in q.known : Owned(g)'
    BY <1>1, <2>2, <2>3 DEF RequestOK, RequestWork, Onward
  <2>6. RequestOK(r)'
    BY <1>1, <1>2, <2>2, <2>3, <2>4, <2>5, InHandOK
  <2> QED
    BY <1>1, <2>2, <2>3, <2>6, RequestMoved DEF MigrateOwnership, IdentityTypeOK
<1>4. ASSUME NEW g \in Goods, goods[g].customer = request[r].byEmail,
             goods' = [goods EXCEPT ![g].customer = t], UNCHANGED <<request, customers>>
      PROVE  IdentityInv'
  <2>1. IsFiled(g)
    <3>1. goods[g].customer # Unowned
      BY <1>1, <1>4, KnownIds DEF RequestOK, Unowned
    <3> QED
      BY <3>1 DEF IdentityInv, GoodsOK
  <2>2. PICK a : a = goods[g].email /\ a \in Addresses
    BY <2>1 DEF IsFiled
  <2>3. Keeps(t, a)
    BY <1>2 DEF Keeps
  <2>4. goods' = [goods EXCEPT ![g] = [email |-> a, customer |-> t]]
    <3>1. goods[g] \in [email : Addresses \cup {NoAddress}, customer : 0..MaxCustomers]
      BY <1>1 DEF IdentityTypeOK
    <3>2. [goods[g] EXCEPT !.customer = t] = [email |-> a, customer |-> t]
      BY <2>2, <3>1
    <3> QED
      BY <1>4, <3>2
  <2>5. /\ goods' \in [Goods -> [email : Addresses \cup {NoAddress}, customer : 0..MaxCustomers]]
        /\ Onward /\ Store'
    BY <1>2, <1>4, <2>2, <2>3, <2>4, GoodFiled
  <2> QED
    BY <1>4, <2>5, FiledStep DEF MigrateOwnership
<1> QED
  BY <1>2, <1>3, <1>4 DEF MigrateOwnership

LEMMA SaveResolvedStep ==
  ASSUME IdentityInv, NEW r \in Requests, SaveResolved(r)
  PROVE  IdentityInv'
<1>1. /\ IdentityTypeOK /\ request[r] \in RequestWork /\ request[r].at = "save"
      /\ RequestOK(r) /\ LinksOK
  BY DEF IdentityInv, IdentityTypeOK, SaveResolved, At
<1>2. PICK c, e : c = request[r].byAuth /\ e = request[r].email /\ Keeps(c, e)
  BY <1>1 DEF RequestOK
<1>3. c \in Known /\ c \in 0..MaxCustomers /\ c \in Ids
  BY <1>2, KnownIds DEF Keeps, Known
<1>4. CASE Answered(r) /\ UNCHANGED customers
  <2>1. /\ NoRequest \in RequestWork /\ request' = [request EXCEPT ![r] = NoRequest]
        /\ RequestOK(r)'
    BY <1>4, AnsweredWork
  <2>2. Onward /\ Store' /\ customers' = customers
    BY <1>4, StoreKept DEF SaveResolved
  <2> QED
    BY <1>1, <2>1, <2>2, RequestMoved DEF SaveResolved, IdentityTypeOK
<1>5. CASE ~(Answered(r) /\ UNCHANGED customers)
  <2>1. PICK linked, names :
          /\ linked = (customers[c].linked \/ request[r].writes = "link")
          /\ names = IF request[r].writes = "alias" THEN request[r].copy.aliases
                     ELSE customers[c].aliases
    OBVIOUS
  <2>2. customers[c] \in Customer
    BY <1>1, <1>3 DEF IdentityTypeOK
  <2>3. linked \in BOOLEAN /\ names \in SUBSET Addresses
    BY <1>1, <2>1, <2>2 DEF RequestWork, Customer
  <2>4. /\ customers' = [customers EXCEPT ![c] = [@ EXCEPT !.linked = linked, !.aliases = names]]
        /\ ~(request[r].writes = "link" /\ LinkedTo \ {c} # {})
        /\ Resolved(r, c, "claim")
        /\ UNCHANGED goods
    BY <1>2, <1>5, <2>1 DEF SaveResolved
  <2>5. linked => LinkedTo \subseteq {c}
    <3>1. CASE customers[c].linked
      BY <1>1, <1>3, <3>1 DEF LinksOK, LinkedTo
    <3>2. CASE request[r].writes = "link"
      BY <2>4, <3>2
    <3> QED
      BY <2>1, <3>1, <3>2
  <2>6. customers[c].linked => linked
    BY <2>1
  <2>7. /\ customers' \in [Ids -> Customer] /\ Onward /\ Store' /\ Known' = Known
        /\ c \in LinkedTo' <=> linked
    BY <1>3, <2>3, <2>4, <2>5, <2>6, RecordSaved
  <2>8. PICK q \in RequestWork :
           /\ q.at = "claim" /\ q.byAuth = c
           /\ q.email = request[r].email /\ q.known = request[r].known
           /\ request' = [request EXCEPT ![r] = q] /\ request'[r] = q
    BY <1>3, <2>4, ResolvedWork DEF RequestStep
  <2>9. Keeps(c, e)'
    BY <1>2, <2>7 DEF Keeps, Onward
  <2>10. /\ e \in Addresses
         /\ \A g \in q.known : g \in Goods /\ IsFiled(g)' /\ goods'[g].email = e
    BY <1>1, <1>2, <2>4, <2>8 DEF RequestOK, RequestWork, IsFiled
  <2>11. \A g \in q.known : Owned(g)'
    <3>1. CASE \A g \in request[r].known : Owned(g)
      BY <2>7, <2>8, <2>10, <3>1 DEF Onward
    <3>2. CASE request[r].writes = "link" /\ customers[c].email = e
      <4>1. c \in LinkedTo' /\ c \in Known' /\ customers'[c].email = e
        BY <1>3, <2>1, <2>7, <3>2 DEF Onward
      <4> QED
        BY <2>7, <2>10, <4>1, OwnedAfter DEF Store
    <3> QED
      BY <1>1, <1>2, <3>1, <3>2 DEF RequestOK
  <2>12. RequestOK(r)'
    BY <1>1, <1>2, <2>7, <2>8, <2>9, <2>11, InHandOK
  <2> QED
    BY <2>7, <2>8, <2>12, RequestMoved DEF SaveResolved
<1> QED
  BY <1>4, <1>5

LEMMA ClaimLegacyStep ==
  ASSUME IdentityInv, NEW r \in Requests, ClaimLegacy(r)
  PROVE  IdentityInv'
<1>1. /\ IdentityTypeOK /\ request[r] \in RequestWork /\ request[r].at = "claim"
      /\ RequestOK(r)
  BY DEF IdentityInv, IdentityTypeOK, ClaimLegacy, At
<1>2. PICK c, e : c = request[r].byAuth /\ e = request[r].email /\ e \in Addresses /\ Keeps(c, e)
  BY <1>1 DEF RequestOK
<1>3. CASE Proceed(r, "list") /\ UNCHANGED <<customers, goods>>
  <2>1. PICK q : q = [request[r] EXCEPT !.at = "list"]
    OBVIOUS
  <2>2. /\ q \in RequestWork /\ q.at = "list" /\ q.byAuth = c /\ q.email = e
        /\ q.email = request[r].email /\ q.known = request[r].known
    BY <1>1, <1>2, <2>1 DEF RequestWork, RequestStep
  <2>3. request' = [request EXCEPT ![r] = q] /\ request'[r] = q
    BY <1>1, <1>3, <2>1 DEF Proceed, IdentityTypeOK
  <2>4. Onward /\ Store' /\ customers' = customers
    BY <1>3, StoreKept
  <2>5. Keeps(c, e)'
    BY <1>2, <1>3 DEF Keeps, LinkedTo, Known
  <2>6. \A g \in q.known : Owned(g)'
    BY <1>1, <2>2, <2>4 DEF RequestOK, RequestWork, Onward
  <2>7. RequestOK(r)'
    BY <1>1, <2>2, <2>3, <2>4, <2>5, <2>6, InHandOK
  <2> QED
    BY <1>1, <2>2, <2>3, <2>4, <2>7, RequestMoved DEF ClaimLegacy, IdentityTypeOK
<1>4. ASSUME NEW g \in Goods, goods[g] = [email |-> e, customer |-> Unowned],
             goods' = [goods EXCEPT ![g].customer = c], UNCHANGED <<request, customers>>
      PROVE  IdentityInv'
  <2>1. ~IsFiled(g)
    BY <1>4 DEF IsFiled
  <2>2. goods' = [goods EXCEPT ![g] = [email |-> e, customer |-> c]]
    <3>1. [goods[g] EXCEPT !.customer = c] = [email |-> e, customer |-> c]
      BY <1>4
    <3> QED
      BY <1>4, <3>1
  <2>3. /\ goods' \in [Goods -> [email : Addresses \cup {NoAddress}, customer : 0..MaxCustomers]]
        /\ Onward /\ Store'
    BY <1>2, <1>4, <2>1, <2>2, GoodFiled
  <2> QED
    BY <1>4, <2>3, FiledStep DEF ClaimLegacy
<1> QED
  BY <1>2, <1>3, <1>4 DEF ClaimLegacy

LEMMA ListOwnershipStep ==
  ASSUME IdentityInv, NEW r \in Requests, ListOwnership(r)
  PROVE  IdentityInv'
<1>1. /\ IdentityTypeOK /\ request[r] \in RequestWork /\ RequestOK(r) /\ request[r].at = "list"
  BY DEF IdentityInv, IdentityTypeOK, ListOwnership, At
<1>2. /\ NoRequest \in RequestWork /\ request' = [request EXCEPT ![r] = NoRequest]
      /\ RequestOK(r)'
  BY AnsweredWork DEF ListOwnership
<1>3. /\ request' \in [Requests -> RequestWork]
      /\ \A s \in Requests : request'[s] = request[s] \/ RequestOK(s)'
  BY <1>1, <1>2 DEF IdentityTypeOK
<1>4. Onward /\ Store'
  BY StoreKept DEF ListOwnership
<1>5. \A g \in promised' : g \in promised \/ (g \in Goods /\ Owned(g)')
  <2>1. \A g \in request[r].known : g \in Goods /\ Owned(g)
    BY <1>1 DEF RequestOK, RequestWork
  <2>2. promised' \subseteq promised \cup request[r].known
    BY DEF ListOwnership
  <2> QED
    BY <1>4, <2>1, <2>2 DEF Onward
<1> QED
  BY <1>1, <1>3, <1>4, <1>5, StepKept DEF ListOwnership, IdentityTypeOK

LEMMA RequestStopsStep ==
  ASSUME IdentityInv, NEW r \in Requests, RequestStops(r)
  PROVE  IdentityInv'
<1>1. IdentityTypeOK
  BY DEF IdentityInv
<1>2. /\ NoRequest \in RequestWork /\ request' = [request EXCEPT ![r] = NoRequest]
      /\ RequestOK(r)'
  BY AnsweredWork DEF RequestStops
<1>3. /\ request' \in [Requests -> RequestWork]
      /\ \A s \in Requests : request'[s] = request[s] \/ RequestOK(s)'
  BY <1>1, <1>2 DEF IdentityTypeOK
<1>4. Onward /\ Store'
  BY StoreKept DEF RequestStops
<1>5. moves' \in [changes : 0..MaxMoves, crashes : 0..MaxMoves]
  BY <1>1, IdentityAssumption DEF RequestStops, IdentityTypeOK
<1> QED
  BY <1>1, <1>3, <1>4, <1>5, StepKept DEF RequestStops, IdentityTypeOK

LEMMA ChangeAddressStep ==
  ASSUME IdentityInv, NEW e \in Addresses, ChangeAddress(e)
  PROVE  IdentityInv'
<1>1. IdentityTypeOK
  BY DEF IdentityInv
<1>2. Onward /\ Store'
  BY StoreKept DEF ChangeAddress
<1>3. moves' \in [changes : 0..MaxMoves, crashes : 0..MaxMoves]
  BY <1>1, IdentityAssumption DEF ChangeAddress, IdentityTypeOK
<1> QED
  BY <1>1, <1>2, <1>3, StepKept DEF ChangeAddress, IdentityTypeOK

LEMMA GetOrCreateGuestStep ==
  ASSUME IdentityInv, NEW e \in Addresses, GetOrCreateGuest(e)
  PROVE  IdentityInv'
<1>1. IdentityTypeOK
  BY DEF IdentityInv
<1>2. PICK c : /\ shop' = [id |-> c, email |-> e] /\ Keeps(c, e)'
               /\ Onward /\ Store' /\ customers' \in [Ids -> Customer]
  <2>1. CASE Under(e) # {}
    <3>1. PICK d \in Under(e) :
            IF customers[d].into = 0 THEN Found(Under(e)) = d
            ELSE Found(Under(e)) \in LinkedTo
      BY <2>1, FoundByEmail
    <3>2. shop' = [id |-> Found(Under(e)), email |-> e] /\ UNCHANGED <<customers, goods>>
      BY <2>1 DEF GetOrCreateGuest
    <3>3. PICK c : c = Found(Under(e)) /\ Keeps(c, e)
      BY <3>1, KnownIds DEF Keeps, Under
    <3>4. Keeps(c, e)'
      BY <3>2, <3>3 DEF Keeps, LinkedTo, Known
    <3>5. Onward /\ Store' /\ customers' \in [Ids -> Customer]
      BY <1>1, <3>2, StoreKept DEF IdentityTypeOK
    <3> QED
      BY <3>2, <3>3, <3>4, <3>5
  <2>2. CASE Under(e) = {}
    <3>1. /\ Created \in Ids /\ customers' = [customers EXCEPT ![Created].email = e]
          /\ shop' = [id |-> Created, email |-> e] /\ UNCHANGED goods
      BY <2>2 DEF GetOrCreateGuest
    <3>2. customers[Created] = NoCustomer
      BY <3>1, CreatedIsNext DEF Known
    <3>3. [NoCustomer EXCEPT !.email = e] = [NoCustomer EXCEPT !.email = e, !.linked = FALSE]
      <4>1. NoCustomer \in Customer /\ NoCustomer.linked = FALSE
        BY KnownIds DEF NoCustomer, Customer
      <4> QED
        BY <4>1 DEF Customer
    <3>4. customers' = [customers EXCEPT ![Created] =
                          [NoCustomer EXCEPT !.email = e, !.linked = FALSE]]
      BY <3>1, <3>2, <3>3
    <3>5. /\ customers' \in [Ids -> Customer] /\ Onward /\ Store'
          /\ Created \in Known' /\ customers'[Created].email = e
      BY <2>2, <3>1, <3>4, RecordMade
    <3>6. PICK c : c = Created
      OBVIOUS
    <3>7. Keeps(c, e)'
      BY <3>5, <3>6 DEF Keeps
    <3> QED
      BY <3>1, <3>5, <3>6, <3>7
  <2> QED
    BY <2>1, <2>2
<1>3. shop'.id = c /\ shop'.email = e
  BY <1>2
<1>4. c \in 0..MaxCustomers
  BY <1>2, KnownIds, IdentityAssumption DEF Keeps, Known, Ids
<1>5. shop' \in [id : 0..MaxCustomers, email : Addresses \cup {NoAddress}]
  BY <1>2, <1>4
<1>6. ShopOK'
  BY <1>2, <1>3 DEF ShopOK
<1> QED
  BY <1>1, <1>2, <1>5, <1>6, StepKept DEF GetOrCreateGuest, IdentityTypeOK

LEMMA FilePaymentStep ==
  ASSUME IdentityInv, NEW g \in Goods, FilePayment(g)
  PROVE  IdentityInv'
<1>1. PICK c, e : c = shop.id /\ e = shop.email /\ e \in Addresses /\ Keeps(c, e)
  BY DEF IdentityInv, ShopOK, FilePayment
<1>2. ~IsFiled(g)
  BY IdentityAssumption DEF IsFiled, FilePayment
<1>3. goods' = [goods EXCEPT ![g] = [email |-> e, customer |-> c]]
  BY <1>1 DEF FilePayment
<1>4. /\ goods' \in [Goods -> [email : Addresses \cup {NoAddress}, customer : 0..MaxCustomers]]
      /\ Onward /\ Store'
  BY <1>1, <1>2, <1>3, GoodFiled DEF FilePayment
<1> QED
  BY <1>4, FiledStep DEF FilePayment

-----------------------------------------------------------------------------
(* The theorems.                                                           *)

LEMMA IdentityInitInductive == IdentityInit => IdentityInv
<1> SUFFICES ASSUME IdentityInit PROVE IdentityInv
  OBVIOUS
<1>1. /\ NoCustomer \in Customer /\ NoRequest \in RequestWork
      /\ NoShop \in [id : 0..MaxCustomers, email : Addresses \cup {NoAddress}]
      /\ NoRequest.at = "idle"
      /\ 0 \in 0..MaxMoves
  <2>1. 0 \in 0..MaxCustomers /\ 0 \in 0..MaxMoves
    BY IdentityAssumption
  <2> QED
    BY <2>1 DEF NoCustomer, Customer, NoRequest, RequestWork, RequestStep, NoShop
<1>2. /\ \A g \in Goods : goods[g].customer = Unowned
      /\ goods \in [Goods -> [email : Addresses \cup {NoAddress}, customer : 0..MaxCustomers]]
  BY <1>1, IdentityAssumption DEF IdentityInit, Unowned
<1>3. IdentityTypeOK
  BY <1>1, <1>2 DEF IdentityInit, IdentityTypeOK
<1>4. Known = {} /\ LinkedTo = {}
  BY DEF IdentityInit, Known, LinkedTo
<1>5. RecordsOK
  <2>1. 0 \in 0..MaxCustomers /\ 1..0 = {}
    BY IdentityAssumption
  <2> QED
    BY <1>4, <2>1 DEF RecordsOK
<1>6. LinksOK /\ GoodsOK
  BY <1>2, <1>4 DEF LinksOK, GoodsOK
<1>7. ShopOK /\ BoughtIsReached
  BY DEF IdentityInit, ShopOK, BoughtIsReached
<1>8. \A r \in Requests : RequestOK(r)
  BY <1>1 DEF IdentityInit, RequestOK
<1> QED
  BY <1>3, <1>5, <1>6, <1>7, <1>8 DEF IdentityInv

LEMMA IdentityStepInductive == IdentityInv /\ [IdentityNext]_identityVars => IdentityInv'
<1> SUFFICES ASSUME IdentityInv, [IdentityNext]_identityVars PROVE IdentityInv'
  OBVIOUS
<1>1. CASE UNCHANGED identityVars
  <2>1. UNCHANGED <<customers, goods, address, request, shop, promised, moves>>
    BY <1>1 DEF identityVars
  <2> QED
    BY <2>1, StoreKept, StepKept DEF IdentityInv, IdentityTypeOK
<1>2. ASSUME NEW e \in Addresses, GetOrCreateGuest(e) \/ ChangeAddress(e) PROVE IdentityInv'
  BY <1>2, GetOrCreateGuestStep, ChangeAddressStep
<1>3. ASSUME NEW g \in Goods, FilePayment(g) PROVE IdentityInv'
  BY <1>3, FilePaymentStep
<1>4. ASSUME NEW r \in Requests,
             VerifyToken(r) \/ FindByAuth(r) \/ FindByEmail(r) \/ DecideMerge(r)
               \/ DecideKnown(r) \/ DecideLink(r) \/ DecideCreate(r)
      PROVE  IdentityInv'
  BY <1>4, VerifyTokenStep, FindByAuthStep, FindByEmailStep, DecideMergeStep,
     DecideKnownStep, DecideLinkStep, DecideCreateStep
<1>5. ASSUME NEW r \in Requests,
             SaveGuest(r) \/ SaveTarget(r) \/ MigrateOwnership(r) \/ SaveResolved(r)
               \/ ClaimLegacy(r) \/ ListOwnership(r) \/ RequestStops(r)
      PROVE  IdentityInv'
  BY <1>5, SaveGuestStep, SaveTargetStep, MigrateOwnershipStep, SaveResolvedStep,
     ClaimLegacyStep, ListOwnershipStep, RequestStopsStep
<1> QED
  BY <1>1, <1>2, <1>3, <1>4, <1>5 DEF IdentityNext

(* The invariant of customer resolution holds throughout: one record for   *)
(* each address, at most one linked to the user, merged records lead to    *)
(* it, and a request relies only on what stays true while others write.    *)
THEOREM IdentityInductive == IdentitySpec => []IdentityInv
BY IdentityInitInductive, IdentityStepInductive, PTL DEF IdentitySpec

(* No interleaving of sign-ins, guest checkouts, changes of address and    *)
(* requests that stop half way leaves the user without what was bought     *)
(* under an address the user was resolved under.                           *)
THEOREM BoughtStaysReached == IdentitySpec => []BoughtIsReached
<1>1. IdentityInv => BoughtIsReached
  BY DEF IdentityInv
<1> QED
  BY <1>1, IdentityInductive, PTL
=============================================================================
