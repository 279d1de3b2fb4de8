------------------------- MODULE RegistrationProofs -------------------------
(***************************************************************************)
(* Theorems about Registration, for any number of users, handlers and      *)
(* faults.                                                                 *)
(***************************************************************************)
EXTENDS Registration, TLAPS

\* Subwallets are handed out once, and in order.
OwnSubwallet ==
    \A u \in Users : Exists(u) =>
        /\ customers[u].wallet_hd_id < identity
        /\ \A v \in Users \ {u} :
              Exists(v) => customers[v].wallet_hd_id # customers[u].wallet_hd_id

\* Where an address comes from.
OwnAddress ==
    \A u \in Users : Exists(u) =>
        \/ u \in edited
        \/ \A c \in Columns : customers[u].address[c] \in {Empty, customers[u].wallet_hd_id}

\* Only who replaced an address holds one that another customer is to get.
SquattersEdited == \A u \in Users : squatters[u] \subseteq edited

\* What a handler knows of the row it works on.
KnowsRow(r) ==
    /\ call[r].phase # "unused" => call[r].op \in {"start", "auth"} /\ call[r].user \in Users
    /\ Halfway(r) \/ call[r].phase = "promote" => Exists(call[r].user)
    /\ call[r].phase = "address" =>
          call[r].copy.wallet_hd_id = customers[call[r].user].wallet_hd_id
    /\ call[r].phase = "token" => customers[call[r].user].status = "REGISTERED"

Knows == \A r \in Calls : KnowsRow(r)

RegInv ==
    /\ TypeOK /\ OwnSubwallet /\ OwnAddress /\ SquattersEdited /\ Knows
    /\ WalletlessIsExplained /\ TokensAreForRegistered

-----------------------------------------------------------------------------
LEMMA NoRowIsNoRow == NoRow \notin Row
  BY DEF NoRow, Row, Statuses

LEMMA AddressTypes ==
    /\ NoAddress \in Addresses
    /\ \A n \in Nat : OfSubwallet(n) \in Addresses
  BY DEF NoAddress, OfSubwallet, Addresses

\* What an update of the profile leaves in the columns.
LEMMA PatchedType ==
    ASSUME NEW u \in Users, customers[u] \in Row, NEW sent \in Sent
    PROVE  Patched(u, sent) \in Addresses
  <1>1. PICK named \in SUBSET Columns : sent \in [named -> Strings]
    BY DEF Sent
  <1>2. customers[u].address \in Addresses
    BY DEF Row
  <1> QED
    BY <1>1, <1>2 DEF Patched, Addresses

\* What Goto and GotoWith do to the handlers.
LEMMA Moves ==
    ASSUME call \in [Calls -> CallType], NEW r \in Calls, NEW phase \in Phases, Goto(r, phase)
    PROVE  /\ call' \in [Calls -> CallType]
           /\ call'[r].phase = phase /\ call'[r].op = call[r].op
           /\ call'[r].user = call[r].user /\ call'[r].copy = call[r].copy
           /\ \A q \in Calls \ {r} : call'[q] = call[q]
  BY DEF Goto, CallType

LEMMA MovesWith ==
    ASSUME call \in [Calls -> CallType], NEW r \in Calls, NEW phase \in Phases,
           NEW copy \in Row \union {NoRow}, GotoWith(r, phase, copy)
    PROVE  /\ call' \in [Calls -> CallType]
           /\ call'[r].phase = phase /\ call'[r].op = call[r].op
           /\ call'[r].user = call[r].user /\ call'[r].copy = copy
           /\ \A q \in Calls \ {r} : call'[q] = call[q]
  <1>1. call'[r] = [[call[r] EXCEPT !.phase = phase] EXCEPT !.copy = copy]
    BY DEF GotoWith
  <1>2. call[r] \in CallType
    OBVIOUS
  <1>3. call'[r] \in CallType
    BY <1>1, <1>2 DEF CallType
  <1>4. \A q \in Calls \ {r} : call'[q] = call[q]
    BY DEF GotoWith
  <1>5. DOMAIN call' = Calls /\ call' = [q \in Calls |-> call'[q]]
    BY DEF GotoWith
  <1> QED
    BY <1>1, <1>2, <1>3, <1>4, <1>5 DEF CallType

LEMMA TypeStep == TypeOK /\ Knows /\ TokensAreForRegistered /\ [Next]_vars => TypeOK'
  <1> SUFFICES ASSUME TypeOK, Knows, TokensAreForRegistered, [Next]_vars PROVE TypeOK'
    OBVIOUS
  <1> USE RegistrationAssumption, NoRowIsNoRow
  <1>0. call \in [Calls -> CallType] /\ customers \in [Users -> Row \union {NoRow}]
    BY DEF TypeOK
  <1>1. ASSUME NEW r \in Calls, NEW u \in Users, NEW op \in {"start", "auth"}, Begin(r, op, u)
        PROVE  TypeOK'
    <2>1. [op |-> op, phase |-> "look", user |-> u, copy |-> NoRow] \in CallType
      BY DEF CallType, Phases
    <2> QED
      BY <1>1, <2>1 DEF TypeOK, Begin
  <1>2. ASSUME NEW r \in Calls, Look(r)
        PROVE  TypeOK'
    <2>1. call[r].user \in Users /\ customers[call[r].user] \in Row \union {NoRow}
      BY <1>2 DEF TypeOK, Look
    <2>2. AfterRow(r, customers[call[r].user]) \in {"over", "promote", "token"}
      BY DEF AfterRow
    <2>3. {"over", "promote", "token", "create"} \subseteq Phases
      BY DEF Phases
    <2>4. \E phase \in {"over", "promote", "token", "create"} :
             Goto(r, phase) \/ GotoWith(r, phase, customers[call[r].user])
      BY <1>2, <2>2 DEF Look
    <2> QED
      BY <1>0, <1>2, <2>1, <2>3, <2>4, Moves, MovesWith DEF TypeOK, Look
  <1>3. ASSUME NEW r \in Calls, CreateCustomer(r)
        PROVE  TypeOK'
    <2>1. call[r].user \in Users /\ identity \in Nat \ {0}
      BY <1>3 DEF TypeOK, CreateCustomer
    <2>2. NewRow \in Row
      BY <2>1, AddressTypes DEF NewRow, Row, Statuses
    <2>3. customers' \in [Users -> Row \union {NoRow}]
      BY <1>3, <2>2 DEF TypeOK, CreateCustomer
    <2>4. Goto(r, "over") \/ Goto(r, "read")
      BY <1>3 DEF CreateCustomer
    <2>5. {"over", "read"} \subseteq Phases
      BY DEF Phases
    <2> QED
      BY <1>0, <1>3, <2>1, <2>3, <2>4, <2>5, Moves DEF TypeOK, CreateCustomer
  <1>4. ASSUME NEW r \in Calls, ReadBack(r)
        PROVE  TypeOK'
    <2>1. call[r].user \in Users /\ customers[call[r].user] \in Row
      BY <1>4 DEF TypeOK, ReadBack, Knows, KnowsRow, Halfway, Exists
    <2>2. "address" \in Phases
      BY DEF Phases
    <2> QED
      BY <1>0, <1>4, <2>1, <2>2, MovesWith DEF TypeOK, ReadBack
  <1>5. ASSUME NEW r \in Calls, SetAddress(r)
        PROVE  TypeOK'
    <2> DEFINE u == call[r].user
               address == OfSubwallet(call[r].copy.wallet_hd_id)
    <2>1. u \in Users /\ customers[u] \in Row
      BY <1>5 DEF TypeOK, SetAddress, Knows, KnowsRow, Halfway, Exists
    <2>2. address \in Addresses
      BY <1>5, AddressTypes DEF TypeOK, SetAddress, Row
    <2>3. [customers[u] EXCEPT !.address = address] \in Row
      BY <2>1, <2>2 DEF Row
    <2>4. customers' \in [Users -> Row \union {NoRow}] /\ customers'[u] \in Row \union {NoRow}
      BY <1>5, <2>1, <2>3 DEF TypeOK, SetAddress
    <2>5. AfterRow(r, customers'[u]) \in {"over", "promote", "token"}
      BY DEF AfterRow
    <2>6. {"over", "promote", "token"} \subseteq Phases
      BY DEF Phases
    <2>7. \E phase \in {"over", "promote", "token"} :
             Goto(r, phase) \/ GotoWith(r, phase, customers'[u])
      BY <1>5, <2>5 DEF SetAddress
    <2>8. squatters' \in [Users -> SUBSET Users]
      <3>1. Holders(u, address) \subseteq Users /\ squatters \in [Users -> SUBSET Users]
        BY DEF Holders, TypeOK
      <3>2. squatters' = [squatters EXCEPT ![u] = @ \union Holders(u, address)]
        BY <1>5 DEF SetAddress
      <3> QED
        BY <3>1, <3>2
    <2> QED
      BY <1>0, <1>5, <2>1, <2>4, <2>6, <2>7, <2>8, Moves, MovesWith DEF TypeOK, SetAddress
  <1>6. ASSUME NEW r \in Calls, Promote(r)
        PROVE  TypeOK'
    <2> DEFINE u == call[r].user
    <2>1. u \in Users /\ customers[u] \in Row
      BY <1>6 DEF TypeOK, Promote, Knows, KnowsRow, Exists
    <2>2. [customers[u] EXCEPT !.status = "REGISTERED"] \in Row
      BY <2>1 DEF Row, Statuses
    <2>3. customers' \in [Users -> Row \union {NoRow}] /\ customers'[u] \in Row
      BY <1>6, <2>1, <2>2 DEF TypeOK, Promote
    <2>4. "token" \in Phases
      BY DEF Phases
    <2> QED
      BY <1>0, <1>6, <2>1, <2>3, <2>4, MovesWith DEF TypeOK, Promote
  <1>7. ASSUME NEW r \in Calls, GenerateJWT(r)
        PROVE  TypeOK'
    <2>1. "over" \in Phases
      BY DEF Phases
    <2>2. call[r].user \in Users
      BY <1>7 DEF TypeOK, GenerateJWT
    <2> QED
      BY <1>0, <1>7, <2>1, <2>2, Moves DEF TypeOK, GenerateJWT
  <1>8. ASSUME NEW r \in Calls, Fail(r)
        PROVE  TypeOK'
    <2>1. "over" \in Phases
      BY DEF Phases
    <2>2. call[r].user \in Users
      BY <1>8 DEF TypeOK, Fail, Running
    <2> QED
      BY <1>0, <1>8, <2>1, <2>2, Moves DEF TypeOK, Fail
  <1>9. ASSUME NEW u \in Users, NEW sent \in Sent, UpdateMe(u, sent)
        PROVE  TypeOK'
    <2>1. customers[u] \in Row
      BY <1>9 DEF TypeOK, TokensAreForRegistered, UpdateMe, NoRow
    <2>2. [customers[u] EXCEPT !.address = Patched(u, sent)] \in Row
      BY <2>1, PatchedType DEF Row
    <2> QED
      BY <1>9, <2>2 DEF TypeOK, UpdateMe
  <1>10. ASSUME Crash
         PROVE  TypeOK'
    <2>1. \A r \in Calls : [call[r] EXCEPT !.phase = "over"] \in CallType
      BY <1>0 DEF CallType, Phases
    <2>2. call' \in [Calls -> CallType]
      BY <1>0, <1>10, <2>1 DEF Crash
    <2>3. \A r \in Calls :
             \/ call'[r] = call[r]
             \/ r \in Running /\ call'[r] = [call[r] EXCEPT !.phase = "over"]
      <3>1. ASSUME NEW r \in Calls, r \in Running
            PROVE  call'[r] = [call[r] EXCEPT !.phase = "over"]
        BY <1>10, <3>1 DEF Crash
      <3>2. ASSUME NEW r \in Calls, r \notin Running
            PROVE  call'[r] = call[r]
        BY <1>10, <3>2 DEF Crash
      <3> QED
        BY <3>1, <3>2
    <2>4. \A r \in Calls : /\ call'[r].phase = "unused" \/ call'[r].user \in Users
                           /\ call'[r].phase = "address" => call'[r].copy \in Row
      BY <1>0, <2>3 DEF TypeOK, Running, CallType
    <2>5. \A r \in Calls : Halfway(r) => call[r].user \in Users
      BY DEF TypeOK, Halfway
    <2>6. torn' \subseteq Users
      BY <1>10, <2>5 DEF TypeOK, Crash
    <2> QED
      BY <1>10, <2>2, <2>4, <2>6 DEF TypeOK, Crash
  <1>11. CASE UNCHANGED vars
    BY <1>11 DEF TypeOK, vars
  <1> QED
    BY <1>1, <1>2, <1>3, <1>4, <1>5, <1>6, <1>7, <1>8, <1>9, <1>10, <1>11 DEF Next, Statement

-----------------------------------------------------------------------------
\* A step that leaves the rows alone, and what a handler knows with them.
LEMMA SameRows ==
    ASSUME OwnSubwallet, OwnAddress, UNCHANGED <<customers, edited>>, identity' \in {identity, identity + 1},
           identity \in Nat, \A u \in Users : Exists(u) => customers[u].wallet_hd_id \in Nat
    PROVE  OwnSubwallet' /\ OwnAddress'
  BY DEF OwnSubwallet, OwnAddress, Exists

LEMMA RowsStep == RegInv /\ [Next]_vars => OwnSubwallet' /\ OwnAddress'
  <1> SUFFICES ASSUME RegInv, [Next]_vars PROVE OwnSubwallet' /\ OwnAddress'
    OBVIOUS
  <1> USE RegistrationAssumption, NoRowIsNoRow
  <1>0. /\ identity \in Nat /\ customers \in [Users -> Row \union {NoRow}]
        /\ \A u \in Users : Exists(u) => customers[u] \in Row /\ customers[u].wallet_hd_id \in Nat
    BY DEF RegInv, TypeOK, Exists, Row
  <1>1. CASE UNCHANGED <<customers, edited>> /\ identity' \in {identity, identity + 1}
    BY <1>0, <1>1, SameRows DEF RegInv
  <1>2. ASSUME NEW r \in Calls, CreateCustomer(r), ~UNCHANGED customers
        PROVE  OwnSubwallet' /\ OwnAddress'
    <2> DEFINE u == call[r].user
    <2>1. /\ customers' = [customers EXCEPT ![u] = NewRow]
          /\ identity' = identity + 1 /\ edited' = edited
      BY <1>2 DEF CreateCustomer
    <2>2. u \in Users
      BY <1>2 DEF RegInv, TypeOK, CreateCustomer
    <2>3. /\ customers'[u].wallet_hd_id = identity /\ customers'[u].address = NoAddress
          /\ \A v \in Users \ {u} : customers'[v] = customers[v]
      BY <1>0, <2>1, <2>2 DEF NewRow
    <2>4. OwnSubwallet'
      BY <1>0, <2>1, <2>2, <2>3 DEF RegInv, OwnSubwallet, Exists
    <2>5. OwnAddress'
      BY <1>0, <2>1, <2>2, <2>3 DEF RegInv, OwnAddress, Exists, NoAddress
    <2> QED
      BY <2>4, <2>5
  <1>3. ASSUME NEW r \in Calls, SetAddress(r), ~UNCHANGED customers
        PROVE  OwnSubwallet' /\ OwnAddress'
    <2> DEFINE u == call[r].user
               address == OfSubwallet(call[r].copy.wallet_hd_id)
    <2>1. /\ customers' = [customers EXCEPT ![u].address = address]
          /\ identity' = identity /\ edited' = edited
      BY <1>3 DEF SetAddress
    <2>2. u \in Users /\ Exists(u) /\ address = OfSubwallet(customers[u].wallet_hd_id)
      BY <1>3 DEF RegInv, TypeOK, Knows, KnowsRow, SetAddress, Halfway
    <2>3. /\ customers'[u] = [customers[u] EXCEPT !.address = address]
          /\ \A v \in Users \ {u} : customers'[v] = customers[v]
      BY <1>0, <2>1, <2>2
    <2>4. /\ customers'[u].address = address
          /\ customers'[u].wallet_hd_id = customers[u].wallet_hd_id
      BY <1>0, <2>2, <2>3 DEF Row
    <2>5. OwnSubwallet'
      BY <1>0, <2>1, <2>2, <2>3, <2>4 DEF RegInv, OwnSubwallet, Exists
    <2>6. OwnAddress'
      BY <1>0, <2>1, <2>2, <2>3, <2>4 DEF RegInv, OwnAddress, Exists, OfSubwallet
    <2> QED
      BY <2>5, <2>6
  <1>4. ASSUME NEW r \in Calls, Promote(r)
        PROVE  OwnSubwallet' /\ OwnAddress'
    <2> DEFINE u == call[r].user
    <2>1. /\ customers' = [customers EXCEPT ![u].status = "REGISTERED"]
          /\ identity' = identity /\ edited' = edited
      BY <1>4 DEF Promote
    <2>2. u \in Users /\ Exists(u)
      BY <1>4 DEF RegInv, TypeOK, Knows, KnowsRow, Promote
    <2>3. /\ customers'[u].address = customers[u].address
          /\ customers'[u].wallet_hd_id = customers[u].wallet_hd_id
          /\ \A v \in Users \ {u} : customers'[v] = customers[v]
      BY <1>0, <2>1, <2>2 DEF Row
    <2>4. OwnSubwallet'
      BY <1>0, <2>1, <2>2, <2>3 DEF RegInv, OwnSubwallet, Exists
    <2>5. OwnAddress'
      BY <1>0, <2>1, <2>2, <2>3 DEF RegInv, OwnAddress, Exists
    <2> QED
      BY <2>4, <2>5
  <1>5. ASSUME NEW u \in Users, NEW sent \in Sent, UpdateMe(u, sent)
        PROVE  OwnSubwallet' /\ OwnAddress'
    <2>1. /\ customers' = [customers EXCEPT ![u].address = Patched(u, sent)]
          /\ identity' = identity /\ edited' = edited \union {u}
      BY <1>5 DEF UpdateMe
    <2>2. Exists(u)
      BY <1>5 DEF RegInv, TokensAreForRegistered, UpdateMe, Exists, NoRow
    <2>3. /\ customers'[u].wallet_hd_id = customers[u].wallet_hd_id
          /\ \A v \in Users \ {u} : customers'[v] = customers[v]
      BY <1>0, <2>1, <2>2 DEF Row
    <2>4. OwnSubwallet'
      BY <1>0, <2>1, <2>2, <2>3 DEF RegInv, OwnSubwallet, Exists
    <2>5. OwnAddress'
      BY <1>0, <2>1, <2>2, <2>3 DEF RegInv, OwnAddress, Exists
    <2> QED
      BY <2>4, <2>5
  <1>6. \/ UNCHANGED <<customers, edited>> /\ identity' \in {identity, identity + 1}
        \/ \E r \in Calls : (CreateCustomer(r) \/ SetAddress(r)) /\ ~UNCHANGED customers
        \/ \E r \in Calls : Promote(r)
        \/ \E u \in Users, sent \in Sent : UpdateMe(u, sent)
    BY DEF Next, Statement, vars, Begin, Look, CreateCustomer, ReadBack, SetAddress, GenerateJWT,
           Fail, Crash
  <1> QED
    BY <1>1, <1>2, <1>3, <1>4, <1>5, <1>6

-----------------------------------------------------------------------------
\* No step takes a row away, changes its subwallet or undoes a registration.
LEMMA RowsStay ==
    RegInv /\ [Next]_vars =>
        \A u \in Users : Exists(u) =>
            /\ Exists(u)'
            /\ customers'[u].wallet_hd_id = customers[u].wallet_hd_id
            /\ customers[u].status = "REGISTERED" => customers'[u].status = "REGISTERED"
  <1> SUFFICES ASSUME RegInv, [Next]_vars, NEW u \in Users, Exists(u)
               PROVE  /\ Exists(u)'
                      /\ customers'[u].wallet_hd_id = customers[u].wallet_hd_id
                      /\ customers[u].status = "REGISTERED" => customers'[u].status = "REGISTERED"
    OBVIOUS
  <1> USE RegistrationAssumption, NoRowIsNoRow
  <1>0. customers \in [Users -> Row \union {NoRow}] /\ customers[u] \in Row
    BY DEF RegInv, TypeOK, Exists
  <1>1. CASE UNCHANGED customers
    BY <1>1 DEF Exists
  <1>2. ASSUME NEW r \in Calls, CreateCustomer(r), ~UNCHANGED customers
        PROVE  customers'[u] = customers[u]
    BY <1>0, <1>2 DEF CreateCustomer
  <1>3. ASSUME NEW v \in Users, NEW a, customers' = [customers EXCEPT ![v].address = a]
        PROVE  /\ customers'[u].wallet_hd_id = customers[u].wallet_hd_id
               /\ customers'[u].status = customers[u].status
    BY <1>0, <1>3 DEF Row
  <1>4. ASSUME NEW v \in Users, customers' = [customers EXCEPT ![v].status = "REGISTERED"]
        PROVE  /\ customers'[u].wallet_hd_id = customers[u].wallet_hd_id
               /\ customers'[u].status \in {customers[u].status, "REGISTERED"}
    BY <1>0, <1>4 DEF Row
  <1>5. customers[u].status # "NONE"
    BY <1>0 DEF Row, Statuses
  <1>6. \/ UNCHANGED customers
        \/ \E r \in Calls : CreateCustomer(r) /\ ~UNCHANGED customers
        \/ \E v \in Users, a \in Addresses :
              customers' = [customers EXCEPT ![v].address = a]
        \/ \E v \in Users : customers' = [customers EXCEPT ![v].status = "REGISTERED"]
    <2>1. \A r \in Calls : SetAddress(r) /\ ~UNCHANGED customers =>
             /\ call[r].user \in Users /\ OfSubwallet(call[r].copy.wallet_hd_id) \in Addresses
             /\ customers' = [customers EXCEPT ![call[r].user].address =
                                OfSubwallet(call[r].copy.wallet_hd_id)]
      BY AddressTypes DEF SetAddress, RegInv, TypeOK, Row
    <2>2. \A r \in Calls : Promote(r) =>
             /\ call[r].user \in Users
             /\ customers' = [customers EXCEPT ![call[r].user].status = "REGISTERED"]
      BY DEF Promote, RegInv, TypeOK
    <2>3. ASSUME NEW v \in Users, NEW sent \in Sent, UpdateMe(v, sent)
          PROVE  /\ Patched(v, sent) \in Addresses
                 /\ customers' = [customers EXCEPT ![v].address = Patched(v, sent)]
      <3>1. customers[v] \in Row
        BY <1>0, <2>3 DEF RegInv, TokensAreForRegistered, UpdateMe, NoRow
      <3> QED
        BY <2>3, <3>1, PatchedType DEF UpdateMe
    <2>5. UNCHANGED vars => UNCHANGED customers
      BY DEF vars
    <2>6. ASSUME NEW r \in Calls, SetAddress(r), ~UNCHANGED customers
          PROVE  \E v \in Users, a \in Addresses :
                    customers' = [customers EXCEPT ![v].address = a]
      BY <2>1, <2>6
    <2>7. ASSUME NEW r \in Calls, Promote(r)
          PROVE  \E v \in Users : customers' = [customers EXCEPT ![v].status = "REGISTERED"]
      BY <2>2, <2>7
    <2> QED
      <3>1. CASE UNCHANGED vars
        BY <2>5, <3>1
      <3>2. ASSUME NEW r \in Calls, CreateCustomer(r) PROVE UNCHANGED customers \/ \E q \in Calls : CreateCustomer(q) /\ ~UNCHANGED customers
        BY <3>2
      <3>3. ASSUME NEW v \in Users, NEW sent \in Sent, UpdateMe(v, sent)
            PROVE  \E w \in Users, b \in Addresses :
                      customers' = [customers EXCEPT ![w].address = b]
        BY <2>3, <3>3
      <3>4. CASE Crash
        BY <3>4 DEF Crash
      <3>5. ASSUME NEW r \in Calls, NEW v \in Users, NEW op \in {"start", "auth"}, Begin(r, op, v)
            PROVE  UNCHANGED customers
        BY <3>5 DEF Begin
      <3>6. ASSUME NEW r \in Calls, Look(r) \/ ReadBack(r) \/ GenerateJWT(r) \/ Fail(r)
            PROVE  UNCHANGED customers
        BY <3>6 DEF Look, ReadBack, GenerateJWT, Fail
      <3> QED
        BY <2>6, <2>7, <3>1, <3>2, <3>3, <3>4, <3>5, <3>6 DEF Next, Statement
  <1> QED
    BY <1>1, <1>2, <1>3, <1>4, <1>5, <1>6 DEF Exists, NoRow

LEMMA KnowsStep == RegInv /\ [Next]_vars => Knows'
  <1> SUFFICES ASSUME RegInv, [Next]_vars, NEW q \in Calls, NEW u, u = call[q].user
               PROVE  KnowsRow(q)'
    BY DEF Knows
  <1> USE RegistrationAssumption, NoRowIsNoRow
  <1>0. /\ call \in [Calls -> CallType] /\ customers \in [Users -> Row \union {NoRow}]
        /\ KnowsRow(q)
        /\ call[q].phase # "unused" => u \in Users /\ call[q].op \in {"start", "auth"}
    BY DEF RegInv, TypeOK, Knows, KnowsRow
  <1>1. \A phase \in {"look", "create", "over", "promote", "token", "read", "address"} : phase \in Phases
    BY DEF Phases
  <1>2. CASE call'[q] = call[q]
    <2>1. \A w \in Users : customers[w].status = "REGISTERED" => Exists(w)
      BY DEF Exists, NoRow
    <2> QED
      BY <1>0, <1>2, <2>1, RowsStay DEF KnowsRow, Halfway
  <1>3. CASE call'[q].phase \in {"look", "over"} /\ call'[q].op \in {"start", "auth"} /\ call'[q].user \in Users
    BY <1>3 DEF KnowsRow, Halfway
  \* The handler goes on with a copy of the row.
  <1>4. ASSUME Exists(u)', call'[q].op = call[q].op, call'[q].user = u, u \in Users,
               call[q].op \in {"start", "auth"}, customers'[u] \in Row,
               call'[q].phase = AfterRow(q, customers'[u])
        PROVE  KnowsRow(q)'
    <2>1. CASE call[q].op = "start"
      BY <1>4, <2>1 DEF AfterRow, KnowsRow, Halfway
    <2>2. CASE call[q].op = "auth" /\ customers'[u].status = "PRE_REGISTRATION"
      <3>1. call'[q].phase = "promote"
        BY <1>4, <2>2 DEF AfterRow
      <3> QED
        BY <1>4, <2>2, <3>1 DEF KnowsRow, Halfway
    <2>3. CASE call[q].op = "auth" /\ customers'[u].status = "REGISTERED"
      <3>1. call'[q].phase = "token"
        BY <1>4, <2>3 DEF AfterRow
      <3> QED
        BY <1>4, <2>3, <3>1 DEF KnowsRow, Halfway
    <2> QED
      BY <1>4, <2>1, <2>2, <2>3 DEF Row, Statuses
  <1>5. ASSUME NEW v \in Users, NEW op \in {"start", "auth"}, Begin(q, op, v)
        PROVE  KnowsRow(q)'
    BY <1>0, <1>3, <1>5 DEF Begin
  <1>6. CASE Look(q)
    <2>0. call[q].phase = "look" /\ UNCHANGED customers
      BY <1>6 DEF Look
    <2>1. CASE ~Exists(u)
      <3>1. Goto(q, "create")
        BY <1>6, <2>1 DEF Look
      <3> QED
        BY <1>0, <1>1, <2>0, <3>1, Moves DEF KnowsRow, Halfway
    <2>2. CASE Exists(u)
      <3>1. GotoWith(q, AfterRow(q, customers[u]), customers[u])
        BY <1>6, <2>2 DEF Look
      <3>2. AfterRow(q, customers[u]) \in Phases
        BY <1>1 DEF AfterRow
      <3>3. customers[u] \in Row
        BY <1>0, <2>0, <2>2 DEF Exists
      <3>4. /\ call'[q].phase = AfterRow(q, customers[u])
            /\ call'[q].op = call[q].op /\ call'[q].user = u
        BY <1>0, <3>1, <3>2, <3>3, MovesWith
      <3> QED
        BY <1>0, <1>4, <2>0, <2>2, <3>3, <3>4 DEF Exists
    <2> QED
      BY <2>1, <2>2
  <1>7. CASE CreateCustomer(q)
    <2>0. call[q].phase = "create"
      BY <1>7 DEF CreateCustomer
    <2>1. CASE Exists(u) \/ Taken(u, NoAddress)
      BY <1>0, <1>1, <1>3, <1>7, <2>0, <2>1, Moves DEF CreateCustomer
    <2>2. CASE ~(Exists(u) \/ Taken(u, NoAddress))
      <3>1. customers'[u] = NewRow /\ Goto(q, "read")
        BY <1>0, <1>7, <2>0, <2>2 DEF CreateCustomer
      <3>2. Exists(u)'
        BY <3>1 DEF Exists, NewRow, NoRow
      <3> QED
        BY <1>0, <1>1, <2>0, <3>1, <3>2, Moves DEF KnowsRow, Halfway, Exists
    <2> QED
      BY <2>1, <2>2
  <1>8. CASE ReadBack(q)
    <2>0. call[q].phase = "read" /\ UNCHANGED customers
      BY <1>8 DEF ReadBack
    <2>1. Exists(u) /\ customers[u] \in Row
      BY <1>0, <2>0 DEF KnowsRow, Halfway, Exists
    <2> QED
      BY <1>0, <1>1, <1>8, <2>0, <2>1, MovesWith DEF ReadBack, KnowsRow, Halfway, Exists
  <1>9. CASE SetAddress(q)
    <2>0. call[q].phase = "address"
      BY <1>9 DEF SetAddress
    <2> DEFINE address == OfSubwallet(call[q].copy.wallet_hd_id)
    <2>1. CASE Taken(u, address)
      BY <1>0, <1>1, <1>3, <1>9, <2>0, <2>1, Moves DEF SetAddress
    <2>2. CASE ~Taken(u, address)
      <3>1. GotoWith(q, AfterRow(q, customers'[u]), customers'[u])
        BY <1>9, <2>2 DEF SetAddress
      <3>2. AfterRow(q, customers'[u]) \in Phases
        BY <1>1 DEF AfterRow
      <3>3. Exists(u)'
        BY <1>0, <2>0, RowsStay DEF KnowsRow, Halfway
      <3>4. TypeOK'
        BY TypeStep DEF RegInv
      <3>5. customers'[u] \in Row
        BY <1>0, <2>0, <3>3, <3>4 DEF TypeOK, Exists
      <3>6. /\ call'[q].phase = AfterRow(q, customers'[u])
            /\ call'[q].op = call[q].op /\ call'[q].user = u
        BY <1>0, <3>1, <3>2, <3>5, MovesWith
      <3> QED
        BY <1>0, <1>4, <2>0, <3>3, <3>5, <3>6
    <2> QED
      BY <2>1, <2>2
  <1>10. CASE Promote(q)
    <2>0. call[q].phase = "promote" /\ u \in Users /\ customers[u] \in Row
      BY <1>0, <1>10 DEF Promote, KnowsRow, Exists
    <2>1. customers'[u].status = "REGISTERED" /\ customers'[u] \in Row
      BY <1>0, <1>10, <2>0 DEF Promote, Row, Statuses
    <2> QED
      BY <1>0, <1>1, <1>10, <2>0, <2>1, MovesWith DEF Promote, KnowsRow, Halfway
  <1>11. CASE GenerateJWT(q)
    BY <1>0, <1>1, <1>3, <1>11, Moves DEF GenerateJWT
  <1>12. CASE Fail(q)
    BY <1>0, <1>1, <1>3, <1>12, Moves DEF Fail, Running
  <1>13. CASE Crash
    <2>1. ASSUME q \in Running
          PROVE  call'[q] = [call[q] EXCEPT !.phase = "over"]
      BY <1>13, <2>1 DEF Crash
    <2>2. ASSUME q \notin Running
          PROVE  call'[q] = call[q]
      BY <1>13, <2>2 DEF Crash
    <2> QED
      BY <1>0, <1>2, <1>3, <2>1, <2>2 DEF Running, CallType
  <1>14. ASSUME NEW r \in Calls \ {q},
                \/ Statement(r) \/ Fail(r)
                \/ \E v \in Users, op \in {"start", "auth"} : Begin(r, op, v)
         PROVE  call'[q] = call[q]
    BY <1>0, <1>14 DEF Begin, Statement, Look, CreateCustomer, ReadBack, SetAddress, Promote,
       GenerateJWT, Fail, Goto, GotoWith
  <1>15. ASSUME NEW v \in Users, NEW sent \in Sent, UpdateMe(v, sent)
         PROVE  call'[q] = call[q]
    BY <1>15 DEF UpdateMe
  <1>16. CASE UNCHANGED vars
    BY <1>2, <1>16 DEF vars
  <1>17. \/ \E r \in Calls \ {q} :
               \/ Statement(r) \/ Fail(r)
               \/ \E v \in Users, op \in {"start", "auth"} : Begin(r, op, v)
         \/ Statement(q) \/ Fail(q) \/ \E v \in Users, op \in {"start", "auth"} : Begin(q, op, v)
         \/ \E v \in Users, sent \in Sent : UpdateMe(v, sent)
         \/ Crash \/ UNCHANGED vars
    BY DEF Next
  <1> QED
    BY <1>2, <1>5, <1>6, <1>7, <1>8, <1>9, <1>10, <1>11, <1>12, <1>13, <1>14, <1>15, <1>16, <1>17
    DEF Statement

LEMMA TokensStep == RegInv /\ [Next]_vars => TokensAreForRegistered'
  <1> SUFFICES ASSUME RegInv, [Next]_vars, NEW u \in tokens' PROVE customers'[u].status = "REGISTERED"
    BY DEF TokensAreForRegistered
  <1>1. \A v \in Users : customers[v].status = "REGISTERED" => customers'[v].status = "REGISTERED"
    BY RowsStay DEF Exists, NoRow
  <1>2. CASE u \in tokens
    BY <1>1, <1>2 DEF RegInv, TypeOK, TokensAreForRegistered
  <1>3. ASSUME NEW r \in Calls, GenerateJWT(r), u \notin tokens
        PROVE  customers'[u].status = "REGISTERED"
    BY <1>1, <1>3 DEF RegInv, TypeOK, Knows, KnowsRow, GenerateJWT
  <1>4. u \in tokens \/ \E r \in Calls : GenerateJWT(r)
    BY DEF Next, Statement, vars, Begin, Look, CreateCustomer, ReadBack, SetAddress, Promote, Fail,
       UpdateMe, Crash
  <1> QED
    BY <1>2, <1>3, <1>4

\* Who held the address of another one's subwallet replaced the own address.
LEMMA HoldersEdited ==
    ASSUME RegInv, NEW r \in Calls, call[r].phase = "address"
    PROVE  Holders(call[r].user, OfSubwallet(call[r].copy.wallet_hd_id)) \subseteq edited
  <1> DEFINE u == call[r].user
             n == call[r].copy.wallet_hd_id
  <1>1. u \in Users /\ Exists(u) /\ n = customers[u].wallet_hd_id /\ n \in Nat
    BY DEF RegInv, TypeOK, Knows, KnowsRow, Halfway, Row
  <1> SUFFICES ASSUME NEW v \in Users \ {u}, Exists(v), v \notin edited,
                      NEW c \in Columns, customers[v].address[c] = n
               PROVE  FALSE
    BY DEF Holders, OfSubwallet
  <1>2. n # Empty
    BY <1>1, RegistrationAssumption
  <1>3. n = customers[v].wallet_hd_id
    BY <1>2 DEF RegInv, OwnAddress
  <1> QED
    BY <1>1, <1>3 DEF RegInv, OwnSubwallet

LEMMA SquattersStep == RegInv /\ [Next]_vars => SquattersEdited'
  <1> SUFFICES ASSUME RegInv, [Next]_vars PROVE SquattersEdited'
    OBVIOUS
  <1>0. squatters \in [Users -> SUBSET Users] /\ SquattersEdited
    BY DEF RegInv, TypeOK
  <1>1. edited \subseteq edited'
    BY DEF Next, Statement, vars, Begin, Look, CreateCustomer, ReadBack, SetAddress, Promote,
       GenerateJWT, Fail, UpdateMe, Crash
  <1>2. CASE UNCHANGED squatters
    BY <1>0, <1>1, <1>2 DEF SquattersEdited
  <1>3. ASSUME NEW r \in Calls, SetAddress(r)
        PROVE  SquattersEdited'
    <2> DEFINE H == Holders(call[r].user, OfSubwallet(call[r].copy.wallet_hd_id))
    <2>1. /\ squatters' = [squatters EXCEPT ![call[r].user] = @ \union H]
          /\ call[r].phase = "address"
      BY <1>3 DEF SetAddress
    <2>2. H \subseteq edited
      BY <2>1, HoldersEdited
    <2> HIDE DEF H
    <2> QED
      BY <1>0, <1>1, <2>1, <2>2 DEF SquattersEdited
  <1>4. UNCHANGED squatters \/ \E r \in Calls : SetAddress(r)
    BY DEF Next, Statement, vars, Begin, Look, CreateCustomer, ReadBack, Promote, GenerateJWT, Fail,
       UpdateMe, Crash
  <1> QED
    BY <1>2, <1>3, <1>4

\* An excuse stays one.
LEMMA ExcusesStay == RegInv /\ [Next]_vars => \A u \in Users : Excused(u) => Excused(u)'
  <1> SUFFICES ASSUME RegInv, [Next]_vars, NEW u \in Users, Excused(u) PROVE Excused(u)'
    OBVIOUS
  <1>1. torn \subseteq torn' /\ edited \subseteq edited'
    BY DEF Next, Statement, vars, Begin, Look, CreateCustomer, ReadBack, SetAddress, Promote,
       GenerateJWT, Fail, UpdateMe, Crash
  <1>2. squatters[u] \subseteq squatters'[u]
    <2>1. squatters \in [Users -> SUBSET Users]
      BY DEF RegInv, TypeOK
    <2>2. ASSUME NEW r \in Calls, SetAddress(r)
          PROVE  squatters[u] \subseteq squatters'[u]
      <3> DEFINE H == Holders(call[r].user, OfSubwallet(call[r].copy.wallet_hd_id))
      <3>1. squatters' = [squatters EXCEPT ![call[r].user] = @ \union H]
        BY <2>2 DEF SetAddress
      <3> HIDE DEF H
      <3> QED
        BY <2>1, <3>1
    <2>3. UNCHANGED squatters \/ \E r \in Calls : SetAddress(r)
      BY DEF Next, Statement, vars, Begin, Look, CreateCustomer, ReadBack, Promote, GenerateJWT,
         Fail, UpdateMe, Crash
    <2> QED
      BY <2>2, <2>3
  <1> QED
    BY <1>1, <1>2 DEF Excused

\* Who is without an address was so before, or has just been inserted or edited.
LEMMA WalletlessBefore ==
    RegInv /\ [Next]_vars =>
        \A u \in Users, c \in Columns : customers'[u] # NoRow /\ customers'[u].address[c] = Empty =>
            \/ Exists(u) /\ customers[u].address[c] = Empty
            \/ /\ \A v \in Users \ {u} : /\ customers'[v] = customers[v]
                                         /\ Exists(v) => customers[v].address[c] # Empty
               /\ u \in edited' \/ \E r \in Calls : call'[r].user = u /\ Halfway(r)'
  <1> SUFFICES ASSUME RegInv, [Next]_vars, NEW u \in Users, NEW c \in Columns,
                      customers'[u] # NoRow, customers'[u].address[c] = Empty,
                      ~(Exists(u) /\ customers[u].address[c] = Empty)
               PROVE  /\ \A v \in Users \ {u} : /\ customers'[v] = customers[v]
                                                /\ Exists(v) => customers[v].address[c] # Empty
                      /\ u \in edited' \/ \E r \in Calls : call'[r].user = u /\ Halfway(r)'
    OBVIOUS
  <1> USE RegistrationAssumption, NoRowIsNoRow
  <1>0. /\ call \in [Calls -> CallType] /\ customers \in [Users -> Row \union {NoRow}]
        /\ ~UNCHANGED customers
    BY DEF RegInv, TypeOK, Exists
  <1>1. ASSUME NEW r \in Calls, CreateCustomer(r)
        PROVE  /\ \A v \in Users \ {u} : /\ customers'[v] = customers[v]
                                         /\ Exists(v) => customers[v].address[c] # Empty
               /\ \E q \in Calls : call'[q].user = u /\ Halfway(q)'
    <2>1. /\ ~Taken(call[r].user, NoAddress) /\ Goto(r, "read")
          /\ customers' = [customers EXCEPT ![call[r].user] = NewRow]
      BY <1>0, <1>1 DEF CreateCustomer
    <2>2. call[r].user = u
      BY <1>0, <2>1 DEF Exists
    <2>3. call'[r].user = u /\ call'[r].phase = "read"
      BY <1>0, <2>1, <2>2, Moves DEF Phases
    <2>4. \A v \in Users \ {u} : Exists(v) => customers[v].address[c] # Empty
      BY <2>1, <2>2 DEF Taken, Holders, NoAddress
    <2>5. \A v \in Users \ {u} : customers'[v] = customers[v]
      BY <1>0, <2>1, <2>2
    <2> QED
      BY <2>3, <2>4, <2>5 DEF Halfway
  <1>2. ASSUME NEW r \in Calls, SetAddress(r)
        PROVE  FALSE
    <2> DEFINE address == OfSubwallet(call[r].copy.wallet_hd_id)
    <2>1. customers' = [customers EXCEPT ![call[r].user].address = address]
      BY <1>0, <1>2 DEF SetAddress
    <2>2. call[r].copy.wallet_hd_id \in Nat
      BY <1>2 DEF RegInv, TypeOK, SetAddress, Row
    <2>3. address[c] # Empty
      BY <2>2 DEF OfSubwallet
    <2>4. call[r].user # u => customers'[u] = customers[u]
      BY <1>0, <2>1
    <2>5. call[r].user = u => customers'[u] = [customers[u] EXCEPT !.address = address]
      BY <1>0, <2>1
    <2>6. customers[u] \in Row \/ customers[u] = NoRow
      BY <1>0
    <2> HIDE DEF address
    <2>7. call[r].user = u => customers'[u].address = address
      BY <2>5, <2>6 DEF Row, NoRow
    <2> QED
      BY <2>3, <2>4, <2>7 DEF Exists
  <1>3. ASSUME NEW r \in Calls, Promote(r)
        PROVE  FALSE
    <2>1. call[r].user \in Users /\ customers[call[r].user] \in Row
      BY <1>0, <1>3 DEF RegInv, TypeOK, Knows, KnowsRow, Promote, Exists
    <2>2. /\ customers'[call[r].user] = [customers[call[r].user] EXCEPT !.status = "REGISTERED"]
          /\ call[r].user # u => customers'[u] = customers[u]
      BY <1>0, <1>3, <2>1 DEF Promote
    <2> QED
      BY <2>1, <2>2 DEF Exists, Row
  <1>4. ASSUME NEW w \in Users, NEW sent \in Sent, UpdateMe(w, sent)
        PROVE  /\ \A v \in Users \ {u} : /\ customers'[v] = customers[v]
                                         /\ Exists(v) => customers[v].address[c] # Empty
               /\ u \in edited'
    <2> DEFINE address == Patched(w, sent)
    <2>1. /\ customers' = [customers EXCEPT ![w].address = address]
          /\ ~Taken(w, address) /\ edited' = edited \union {w}
      BY <1>4 DEF UpdateMe
    <2> HIDE DEF address
    <2>2. w = u
      BY <1>0, <2>1 DEF Exists
    <2>3. Exists(u) /\ customers[u] \in Row
      BY <1>0, <1>4, <2>2 DEF RegInv, TokensAreForRegistered, UpdateMe, Exists, NoRow
    <2>4. customers'[u].address = address
      BY <1>0, <2>1, <2>2, <2>3 DEF Row
    <2>5. \A v \in Users \ {u} : Exists(v) => customers[v].address[c] # Empty
      BY <2>1, <2>2, <2>4 DEF Taken, Holders
    <2>6. \A v \in Users \ {u} : customers'[v] = customers[v]
      BY <1>0, <2>1, <2>2
    <2> QED
      BY <2>1, <2>2, <2>5, <2>6
  <1>5. \/ \E r \in Calls : CreateCustomer(r) \/ SetAddress(r) \/ Promote(r)
        \/ \E w \in Users, sent \in Sent : UpdateMe(w, sent)
    BY <1>0 DEF Next, Statement, vars, Begin, Look, ReadBack, GenerateJWT, Fail, Crash
  <1> QED
    BY <1>1, <1>2, <1>3, <1>4, <1>5

\* Between insert and address a handler gets on, or has an excuse.
LEMMA HalfwayStep ==
    RegInv /\ [Next]_vars =>
        \A q \in Calls, u \in Users, c \in Columns : call[q].user = u /\ Halfway(q) =>
            \/ call'[q].user = u /\ Halfway(q)'
            \/ Excused(u)'
            \/ customers'[u].address[c] # Empty
  <1> SUFFICES ASSUME RegInv, [Next]_vars, NEW q \in Calls, NEW u \in Users, NEW c \in Columns,
                      call[q].user = u, Halfway(q)
               PROVE  \/ call'[q].user = u /\ Halfway(q)'
                      \/ Excused(u)'
                      \/ customers'[u].address[c] # Empty
    OBVIOUS
  <1> USE RegistrationAssumption
  <1>0. /\ call \in [Calls -> CallType] /\ customers \in [Users -> Row \union {NoRow}]
        /\ Exists(u)
    BY DEF RegInv, TypeOK, Knows, KnowsRow, Halfway
  <1>1. CASE call'[q] = call[q]
    BY <1>1 DEF Halfway
  <1>2. CASE ReadBack(q)
    <2>1. customers[u] \in Row \union {NoRow} /\ "address" \in Phases
      BY <1>0 DEF Phases
    <2>2. call'[q].user = u /\ call'[q].phase = "address"
      BY <1>0, <1>2, <2>1, MovesWith DEF ReadBack
    <2> QED
      BY <2>2 DEF Halfway
  <1>3. CASE SetAddress(q)
    <2> DEFINE n == call[q].copy.wallet_hd_id
               H == Holders(u, OfSubwallet(n))
    <2>0. call[q].phase = "address" /\ n \in Nat
      BY <1>3 DEF SetAddress, RegInv, TypeOK, Row
    <2>1. CASE H = {}
      <3>1. customers' = [customers EXCEPT ![u].address = OfSubwallet(n)]
        BY <1>3, <2>1 DEF SetAddress, Taken
      <3>2. customers[u] \in Row
        BY <1>0 DEF Exists
      <3>3. customers'[u] = [customers[u] EXCEPT !.address = OfSubwallet(n)]
        BY <1>0, <3>1
      <3>4. customers'[u].address = OfSubwallet(n)
        BY <3>2, <3>3 DEF Row
      <3> QED
        BY <2>0, <3>4 DEF OfSubwallet
    <2>2. CASE H # {}
      <3>1. H \subseteq edited
        BY <2>0, HoldersEdited
      <3>2. squatters' = [squatters EXCEPT ![u] = @ \union H] /\ edited' = edited
        BY <1>3 DEF SetAddress
      <3>3. squatters \in [Users -> SUBSET Users]
        BY DEF RegInv, TypeOK
      <3> HIDE DEF H
      <3>4. H \subseteq squatters'[u] \cap edited'
        BY <1>0, <3>1, <3>2, <3>3
      <3> QED
        BY <2>2, <3>4 DEF Excused
    <2> QED
      BY <2>1, <2>2
  <1>4. CASE Fail(q)
    BY <1>4 DEF Fail, Excused
  <1>5. CASE Crash
    BY <1>5 DEF Crash, Excused
  <1>6. ASSUME NEW r \in Calls, \/ Statement(r) \/ Fail(r)
                                \/ \E v \in Users, op \in {"start", "auth"} : Begin(r, op, v)
        PROVE  r = q \/ call'[q] = call[q]
    BY <1>0, <1>6 DEF Begin, Statement, Look, CreateCustomer, ReadBack, SetAddress, Promote,
       GenerateJWT, Fail, Goto, GotoWith
  <1>7. ASSUME NEW v \in Users, NEW op \in {"start", "auth"}
        PROVE  ~(Begin(q, op, v) \/ Look(q) \/ CreateCustomer(q) \/ Promote(q) \/ GenerateJWT(q))
    BY DEF Begin, Look, CreateCustomer, Promote, GenerateJWT, Halfway, Unused
  <1>8. (\E v \in Users, sent \in Sent : UpdateMe(v, sent)) \/ UNCHANGED vars => call' = call
    BY DEF UpdateMe, vars
  <1>9. Statement(q) => ReadBack(q) \/ SetAddress(q)
    BY <1>0, <1>7 DEF Statement
  <1> QED
    BY <1>1, <1>2, <1>3, <1>4, <1>5, <1>6, <1>7, <1>8, <1>9 DEF Next

LEMMA WalletlessStep == RegInv /\ [Next]_vars => WalletlessIsExplained'
  <1> SUFFICES ASSUME RegInv, [Next]_vars, NEW u \in Users, NEW c \in Columns,
                      customers'[u] # NoRow, customers'[u].address[c] = Empty
               PROVE  /\ Excused(u)' \/ \E r \in Calls : call'[r].user = u /\ Halfway(r)'
                      /\ \A v \in Users \ {u} :
                            customers'[v] # NoRow => customers'[v].address[c] # Empty
    BY DEF WalletlessIsExplained, Exists
  <1>1. Excused(u)' \/ \E r \in Calls : call'[r].user = u /\ Halfway(r)'
    <2>1. CASE Exists(u) /\ customers[u].address[c] = Empty
      <3>1. Excused(u) \/ \E r \in Calls : call[r].user = u /\ Halfway(r)
        BY <2>1 DEF RegInv, WalletlessIsExplained
      <3>2. ASSUME NEW r \in Calls, call[r].user = u, Halfway(r)
            PROVE  (call'[r].user = u /\ Halfway(r)') \/ Excused(u)'
        BY <3>2, HalfwayStep
      <3> QED
        BY <3>1, <3>2, ExcusesStay
    <2>2. CASE u \in edited'
      BY <2>2 DEF Excused
    <2> QED
      BY <2>1, <2>2, WalletlessBefore
  <1>2. ASSUME NEW v \in Users \ {u}, customers'[v] # NoRow, customers'[v].address[c] = Empty
        PROVE  FALSE
    <2>1. CASE /\ Exists(u) /\ customers[u].address[c] = Empty
               /\ Exists(v) /\ customers[v].address[c] = Empty
      BY <2>1 DEF RegInv, WalletlessIsExplained
    <2>2. CASE \A w \in Users \ {u} : /\ customers'[w] = customers[w]
                                      /\ Exists(w) => customers[w].address[c] # Empty
      BY <1>2, <2>2 DEF Exists
    <2>3. CASE \A w \in Users \ {v} : /\ customers'[w] = customers[w]
                                      /\ Exists(w) => customers[w].address[c] # Empty
      BY <2>3 DEF Exists
    <2> QED
      BY <1>2, <2>1, <2>2, <2>3, WalletlessBefore
  <1> QED
    BY <1>1, <1>2

-----------------------------------------------------------------------------
(* The inductive invariant of registration: what a handler holds is what the *)
(* row says, addresses come from the own subwallet or an edit of the         *)
(* customer, and so do the ones another customer met in use.                 *)
THEOREM RegInvariant == Spec => []RegInv
  <1>1. Init => RegInv
    BY RegistrationAssumption DEF Init, RegInv, TypeOK, OwnSubwallet, OwnAddress, SquattersEdited,
       Knows, KnowsRow, WalletlessIsExplained, TokensAreForRegistered, Exists, Unused, CallType, Phases, Halfway
  <1>2. RegInv /\ [Next]_vars => RegInv'
    BY TypeStep, RowsStep, SquattersStep, KnowsStep, WalletlessStep, TokensStep DEF RegInv
  <1> QED
    BY <1>1, <1>2, PTL DEF Spec

(* What the handlers and the rows hold is well formed, at any number of       *)
(* logins at once.                                                            *)
THEOREM TypeCorrect == Spec => []TypeOK
  BY RegInvariant, PTL DEF RegInv

(* Both addresses of a customer are those of the customer's own subwallet,    *)
(* unless the customer replaced one, and subwallets are not shared, whatever  *)
(* strings other customers store.                                             *)
THEOREM WalletsAreOwn == Spec => []WalletIsOwn
  <1>1. RegInv => WalletIsOwn
    BY DEF RegInv, OwnSubwallet, OwnAddress, WalletIsOwn
  <1> QED
    BY <1>1, RegInvariant, PTL

(* A customer without an address in a column is being registered, met a fault *)
(* in between, took the wallet away, or found its address stored by another   *)
(* customer who had edited the profile; and is the only one in that column.   *)
THEOREM WalletlessAreExplained == Spec => []WalletlessIsExplained
  BY RegInvariant, PTL DEF RegInv

(* Tokens are made for registered customers only.                             *)
THEOREM TokensCorrect == Spec => []TokensAreForRegistered
  BY RegInvariant, PTL DEF RegInv
=============================================================================
