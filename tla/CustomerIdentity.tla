--------------------------- MODULE CustomerIdentity ---------------------------
(***************************************************************************)
(* Which Customer record a signed-in user is.  People buy as guests, under *)
(* an e-mail address; the user later signs in, and every authenticated     *)
(* request resolves the user to a customer by the authentication id and by *)
(* the address of the moment, linking or merging the guest record found.   *)
(* The address may change at the authentication provider, requests run in  *)
(* parallel, and the process may stop between two writes.                  *)
(*                                                                         *)
(* Abstracted: one user, so that no address belongs to another user's      *)
(* record; goods stand for payments and for the accounts they opened; the  *)
(* time of the last request, of which only its age decides anything.       *)
(***************************************************************************)
EXTENDS Naturals, FiniteSets

CONSTANTS
  Addresses,    \* the addresses of the user, one at a time
  NoAddress,
  Goods,        \* payments and accounts
  Legacy,       \* goods that may be older than customer records
  Requests,     \* authenticated requests in flight together
  MaxCustomers, \* bound on the Customer records
  MaxMoves      \* bound on address changes and on crashes

ASSUME IdentityAssumption ==
  /\ NoAddress \notin Addresses
  /\ Legacy \subseteq Goods
  /\ {MaxCustomers, MaxMoves} \subseteq Nat

VARIABLES
  customers,  \* the Customer documents, in the order they were made
  goods,      \* their address and their customerId
  address,    \* the user's address at the authentication provider
  request,    \* requests resolving the user
  shop,       \* a guest's checkout between its two writes
  promised,   \* goods a finished resolution has found to be the user's
  moves       \* address changes and crashes so far

identityVars == <<customers, goods, address, request, shop, promised, moves>>

Ids == 1..MaxCustomers
Unowned == 0   \* no customerId
Customer ==
  [email : Addresses \cup {NoAddress}, linked : BOOLEAN,
   aliases : SUBSET Addresses, into : 0..MaxCustomers]
NoCustomer ==
  [email |-> NoAddress, linked |-> FALSE, aliases |-> {}, into |-> 0]

RequestStep ==
  {"idle", "auth", "email", "decide", "guest", "target", "migrate",
   "save", "claim", "list"}
RequestWork ==
  [at : RequestStep, email : Addresses \cup {NoAddress}, byAuth : 0..MaxCustomers,
   byEmail : 0..MaxCustomers, copy : Customer,
   writes : {"nothing", "link", "alias"}, known : SUBSET Goods]
NoRequest ==
  [at |-> "idle", email |-> NoAddress, byAuth |-> 0, byEmail |-> 0,
   copy |-> NoCustomer, writes |-> "nothing", known |-> {}]
NoShop == [id |-> 0, email |-> NoAddress]

IdentityTypeOK ==
  /\ customers \in [Ids -> Customer]
  /\ goods \in [Goods -> [email : Addresses \cup {NoAddress}, customer : 0..MaxCustomers]]
  /\ address \in Addresses
  /\ request \in [Requests -> RequestWork]
  /\ shop \in [id : 0..MaxCustomers, email : Addresses \cup {NoAddress}]
  /\ promised \subseteq Goods
  /\ moves \in [changes : 0..MaxMoves, crashes : 0..MaxMoves]

IdentityInit ==
  /\ customers = [c \in Ids |-> NoCustomer]
  /\ address \in Addresses
  /\ \E old \in SUBSET Legacy :
       goods = [g \in Goods |->
         [email |-> IF g \in old THEN address ELSE NoAddress, customer |-> Unowned]]
  /\ request = [r \in Requests |-> NoRequest]
  /\ shop = NoShop
  /\ promised = {}
  /\ moves = [changes |-> 0, crashes |-> 0]

-----------------------------------------------------------------------------
Known == {c \in Ids : customers[c] # NoCustomer}
LinkedTo == {c \in Known : customers[c].linked}
Under(e) == {c \in Known : customers[c].email = e}
(* One hop: only the record linked to the user has others merged into it,  *)
(* and that one is never merged.                                           *)
canonical(c) == IF customers[c].into # 0 THEN customers[c].into ELSE c
(* findOne: nothing found is 0.                                            *)
Found(cs) == IF cs = {} THEN 0 ELSE canonical(CHOOSE c \in cs : TRUE)
Created == Cardinality(Known) + 1

(* Faulty: only what is filed under the record itself is the user's.       *)
OwnIdOnly(c) == {c}

(* getCustomerOwnershipIds: the record and the records merged into it.     *)
OwnershipIds(c) == {c} \cup {d \in Known : customers[d].into = c}

At(r, step) == request[r].at = step
Proceed(r, step) == request' = [request EXCEPT ![r].at = step]
Answered(r) == request' = [request EXCEPT ![r] = NoRequest]
(* With the record c in hand the request needs no more of what it read.    *)
Resolved(r, c, step) ==
  request' = [request EXCEPT ![r] =
    [NoRequest EXCEPT !.at = step, !.email = request[r].email,
                      !.byAuth = c, !.known = request[r].known]]

-----------------------------------------------------------------------------
(* A guest's checkout gets or makes the customer of the address, ...       *)
GetOrCreateGuest(e) ==
  /\ shop = NoShop
  /\ \E g \in Goods : goods[g].email = NoAddress
  /\ \/ /\ Under(e) # {}
        /\ shop' = [id |-> Found(Under(e)), email |-> e]
        /\ UNCHANGED customers
     \/ /\ Under(e) = {}
        /\ Created \in Ids
        /\ customers' = [customers EXCEPT ![Created].email = e]
        /\ shop' = [id |-> Created, email |-> e]
  /\ UNCHANGED <<goods, address, request, promised, moves>>

(* ... then files the payment under it.                                    *)
FilePayment(g) ==
  /\ shop # NoShop
  /\ goods[g].email = NoAddress
  /\ goods' = [goods EXCEPT ![g] = [email |-> shop.email, customer |-> shop.id]]
  /\ shop' = NoShop
  /\ UNCHANGED <<customers, address, request, promised, moves>>

-----------------------------------------------------------------------------
(* The provider tells who the token's user is.                             *)
VerifyToken(r) ==
  /\ At(r, "idle")
  /\ request' = [request EXCEPT ![r] =
       [NoRequest EXCEPT !.at = "auth", !.email = address,
                         !.known = {g \in Goods : goods[g].email = address /\ goods[g].customer # Unowned}]]
  /\ UNCHANGED <<customers, goods, address, shop, promised, moves>>

FindByAuth(r) ==
  /\ At(r, "auth")
  /\ LET c == Found(LinkedTo) IN
       request' = [request EXCEPT ![r] =
         [@ EXCEPT !.at = "email", !.byAuth = c,
                   !.copy = IF c = 0 THEN NoCustomer ELSE customers[c]]]
  /\ UNCHANGED <<customers, goods, address, shop, promised, moves>>

FindByEmail(r) ==
  /\ At(r, "email")
  /\ LET c == Found(Under(request[r].email)) IN
       request' = [request EXCEPT ![r] =
         [@ EXCEPT !.at = "decide", !.byEmail = c,
                   !.copy = IF request[r].byAuth # 0 \/ c = 0
                            THEN request[r].copy ELSE customers[c]]]
  /\ UNCHANGED <<customers, goods, address, shop, promised, moves>>

(* The user's record was found; the address leads to another, a guest's.   *)
DecideMerge(r) ==
  /\ At(r, "decide")
  /\ request[r].byAuth # 0
  /\ request[r].byEmail \notin {0, request[r].byAuth}
  /\ Proceed(r, "guest")
  /\ UNCHANGED <<customers, goods, address, shop, promised, moves>>

(* The address leads to no other record: a new one becomes an alias.  With *)
(* nothing new, and if the record was stamped within fifteen minutes,      *)
(* there is nothing to save.                                               *)
DecideKnown(r) ==
  /\ At(r, "decide")
  /\ request[r].byAuth # 0
  /\ request[r].byEmail \in {0, request[r].byAuth}
  /\ LET mine == request[r].copy
         new == request[r].email \notin mine.aliases \cup {mine.email}
     IN  \/ /\ ~new
            /\ \E step \in {"save", "list"} : Resolved(r, request[r].byAuth, step)
         \/ /\ new
            /\ request' = [request EXCEPT ![r] =
                 [@ EXCEPT !.at = "save", !.byEmail = 0, !.writes = "alias",
                           !.copy.aliases = mine.aliases \cup {request[r].email}]]
  /\ UNCHANGED <<customers, goods, address, shop, promised, moves>>

(* Only the address is known: its record becomes the user's.               *)
DecideLink(r) ==
  /\ At(r, "decide")
  /\ request[r].byAuth = 0
  /\ request[r].byEmail # 0
  /\ request' = [request EXCEPT ![r] =
       [@ EXCEPT !.at = "save", !.byAuth = request[r].byEmail, !.byEmail = 0,
                 !.copy = NoCustomer, !.writes = "link"]]
  /\ UNCHANGED <<customers, goods, address, shop, promised, moves>>

(* createCustomer: when a unique index refuses the record, the one that    *)
(* was made meanwhile for the user or else for the address is taken.       *)
DecideCreate(r) ==
  /\ At(r, "decide")
  /\ request[r].byAuth = 0
  /\ request[r].byEmail = 0
  /\ LET e == request[r].email
         taken == IF LinkedTo # {} THEN LinkedTo ELSE Under(e)
         made == [NoCustomer EXCEPT !.email = e, !.linked = TRUE]
     IN  \/ /\ taken # {}
            /\ Resolved(r, Found(taken), "save")
            /\ UNCHANGED customers
         \/ /\ taken = {}
            /\ Created \in Ids
            /\ customers' = [customers EXCEPT ![Created] = made]
            /\ Resolved(r, Created, "claim")
  /\ UNCHANGED <<goods, address, shop, promised, moves>>

-----------------------------------------------------------------------------
(* mergeGuestInto writes the guest's record, ...                           *)
SaveGuest(r) ==
  /\ At(r, "guest")
  /\ customers' = [customers EXCEPT ![request[r].byEmail].into = request[r].byAuth]
  /\ Proceed(r, "target")
  /\ UNCHANGED <<goods, address, shop, promised, moves>>

(* ... the aliases of the user's record, replaced by those it computed, ...*)
SaveTarget(r) ==
  /\ At(r, "target")
  /\ LET guest == customers[request[r].byEmail]
         names == request[r].copy.aliases \cup {guest.email} \cup guest.aliases
     IN  /\ customers' = [customers EXCEPT ![request[r].byAuth].aliases = names]
         /\ request' = [request EXCEPT ![r] =
              [@ EXCEPT !.at = "migrate", !.copy.aliases = names]]
  /\ UNCHANGED <<goods, address, shop, promised, moves>>

(* ... and moves what the guest had, one document after the other.         *)
MigrateOwnership(r) ==
  /\ At(r, "migrate")
  /\ LET left == {g \in Goods : goods[g].customer = request[r].byEmail} IN
       \/ /\ left = {}
          /\ Resolved(r, request[r].byAuth, "save")
          /\ UNCHANGED goods
       \/ \E g \in left :
            /\ goods' = [goods EXCEPT ![g].customer = request[r].byAuth]
            /\ UNCHANGED request
  /\ UNCHANGED <<customers, address, shop, promised, moves>>

(* save() writes what this request changed; the index on the id of the     *)
(* user refuses a second record for it and the request fails.              *)
SaveResolved(r) ==
  /\ At(r, "save")
  /\ LET c == request[r].byAuth
         links == request[r].writes = "link"
         refused == links /\ LinkedTo \ {c} # {}
     IN  \/ /\ refused
            /\ Answered(r)
            /\ UNCHANGED customers
         \/ /\ ~refused
            /\ customers' = [customers EXCEPT ![c] =
                 [@ EXCEPT !.linked = customers[c].linked \/ links,
                           !.aliases = IF request[r].writes = "alias"
                                       THEN request[r].copy.aliases
                                       ELSE customers[c].aliases]]
            /\ Resolved(r, c, "claim")
  /\ UNCHANGED <<goods, address, shop, promised, moves>>

(* claimLegacyOwnership, one document after the other.                     *)
ClaimLegacy(r) ==
  /\ At(r, "claim")
  /\ LET left == {g \in Goods : goods[g] = [email |-> request[r].email, customer |-> Unowned]}
     IN  \/ /\ left = {}
            /\ Proceed(r, "list")
            /\ UNCHANGED goods
         \/ \E g \in left :
              /\ goods' = [goods EXCEPT ![g].customer = request[r].byAuth]
              /\ UNCHANGED request
  /\ UNCHANGED <<customers, address, shop, promised, moves>>

(* The request goes on as this customer, with these ids.  The record of a  *)
(* guest taken by DecideCreate is not linked to the user: nothing is then  *)
(* promised beyond this request.                                           *)
ListOwnership(r) ==
  /\ At(r, "list")
  /\ promised' = promised \cup
       IF customers[request[r].byAuth].linked THEN request[r].known ELSE {}
  /\ Answered(r)
  /\ UNCHANGED <<customers, goods, address, shop, moves>>

-----------------------------------------------------------------------------
(* The user changes the address at the provider.                           *)
ChangeAddress(e) ==
  /\ moves.changes < MaxMoves
  /\ e # address
  /\ address' = e
  /\ moves' = [moves EXCEPT !.changes = @ + 1]
  /\ UNCHANGED <<customers, goods, request, shop, promised>>

(* A request stops where it stands.                                        *)
RequestStops(r) ==
  /\ ~At(r, "idle")
  /\ moves.crashes < MaxMoves
  /\ moves' = [moves EXCEPT !.crashes = @ + 1]
  /\ Answered(r)
  /\ UNCHANGED <<customers, goods, address, shop, promised>>

IdentityNext ==
  \/ \E e \in Addresses : GetOrCreateGuest(e) \/ ChangeAddress(e)
  \/ \E g \in Goods : FilePayment(g)
  \/ \E r \in Requests :
       \/ VerifyToken(r) \/ FindByAuth(r) \/ FindByEmail(r)
       \/ DecideMerge(r) \/ DecideKnown(r) \/ DecideLink(r) \/ DecideCreate(r)
       \/ SaveGuest(r) \/ SaveTarget(r) \/ MigrateOwnership(r)
       \/ SaveResolved(r) \/ ClaimLegacy(r) \/ ListOwnership(r) \/ RequestStops(r)

IdentitySpec == IdentityInit /\ [][IdentityNext]_identityVars

-----------------------------------------------------------------------------
(* What was bought under the address of a user before the user was         *)
(* resolved under it stays the user's: filed under the one record linked   *)
(* to the user or under one merged into it, whatever became of requests    *)
(* that stopped half way through a merge and of later addresses.           *)
BoughtIsReached ==
  \A g \in promised : \E c \in LinkedTo : goods[g].customer \in OwnershipIds(c)
=============================================================================
