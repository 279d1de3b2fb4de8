---------------------------- MODULE Registration ----------------------------
(***************************************************************************)
(* How a Telegram user becomes a customer with a wallet: the command       *)
(* /start of the bot (telegram_bot/main_handlers.go, onStart), the login   *)
(* of the Mini App (server/auth_handlers.go, onAuth) and the profile       *)
(* update (server/customer_handlers.go, UpdateMe), on the table customers  *)
(* (storage/customers.go, migrations/postgres/20250127000002_customers.sql). *)
(*                                                                         *)
(* A handler looks for the customer, and when there is none inserts the    *)
(* row, reads back the wallet_hd_id the database chose, derives the        *)
(* address of that subwallet and writes it: each a statement of its own,   *)
(* none in a transaction.  The row is inserted with empty addresses, and   *)
(* both address columns are UNIQUE: there is room for one empty address.   *)
(*                                                                         *)
(* There are two address columns, for the bounceable and for the           *)
(* nonbounceable form, each UNIQUE by itself.  Registration writes both,   *)
(* an update of the profile any of them, with whatever string the client   *)
(* sends: nothing, another wallet, or the address of a subwallet that the  *)
(* next customer will be given.  The form of the address of a subwallet    *)
(* that belongs into a column is its number.                               *)
(***************************************************************************)
EXTENDS Naturals, FiniteSets

CONSTANTS
    Users,      \* Telegram users
    Calls,      \* invocations of onStart and onAuth, each used once
    Strings,    \* what clients send for an address, numbers of subwallets among it
    Empty,      \* the address ''
    MaxFaults,  \* bound: failed statements, cancelled requests and crashes
    Nobody

ASSUME RegistrationAssumption ==
    /\ IsFiniteSet(Calls)
    /\ Nobody \notin Users
    /\ Empty \notin Nat
    /\ MaxFaults \in Nat

VARIABLES
    customers,  \* [Users -> the row of the user, or NoRow]: tg_id is UNIQUE
    identity,   \* the next value of the identity column wallet_hd_id
    call,       \* [Calls -> how far the handler is, with the copy it holds]
    tokens,     \* the users who were given a JWT
    \* history, read by no action
    torn,       \* a fault came between the insert of the user and the address
    edited,     \* the user replaced an address
    squatters,  \* [Users -> who held the addresses when the user was to get them]
    faults

vars == <<customers, identity, call, tokens, torn, edited, squatters, faults>>

Columns == {"address_bounceable", "address_nonbounceable"}
Addresses == [Columns -> Nat \union Strings \union {Empty}]
NoAddress == [c \in Columns |-> Empty]
OfSubwallet(n) == [c \in Columns |-> n]

Statuses == {"PRE_REGISTRATION", "REGISTERED"}
Row == [wallet_hd_id : Nat \ {0}, address : Addresses, status : Statuses]
NoRow == [wallet_hd_id |-> 0, address |-> NoAddress, status |-> "NONE"]
NewRow == [wallet_hd_id |-> identity, address |-> NoAddress, status |-> "PRE_REGISTRATION"]
Exists(u) == customers[u] # NoRow

Unused == [op |-> "none", phase |-> "unused", user |-> Nobody, copy |-> NoRow]

Init ==
    /\ customers = [u \in Users |-> NoRow]
    /\ identity = 1
    /\ call = [r \in Calls |-> Unused]
    /\ tokens = {}
    /\ torn = {} /\ edited = {} /\ faults = 0
    /\ squatters = [u \in Users |-> {}]
-----------------------------------------------------------------------------
Goto(r, phase) == call' = [call EXCEPT ![r].phase = phase]
GotoWith(r, phase, copy) == call' = [call EXCEPT ![r].phase = phase, ![r].copy = copy]

\* Who else has one of the addresses in the same column: a UNIQUE constraint
\* refuses the statement.
Holders(u, address) ==
    {v \in Users \ {u} : Exists(v) /\ \E c \in Columns : customers[v].address[c] = address[c]}
Taken(u, address) == Holders(u, address) # {}

\* With the customer at hand onStart shows the menu; onAuth registers a customer
\* who came by /start and makes a token.
AfterRow(r, copy) ==
    CASE call[r].op = "start" -> "over"
      [] call[r].op = "auth" /\ copy.status = "PRE_REGISTRATION" -> "promote"
      [] OTHER -> "token"

Begin(r, op, u) ==
    /\ call[r] = Unused
    /\ call' = [call EXCEPT ![r] = [op |-> op, phase |-> "look", user |-> u, copy |-> NoRow]]
    /\ UNCHANGED <<customers, identity, tokens, torn, edited, squatters, faults>>

\* GetCustomerByTgID
Look(r) ==
    LET u == call[r].user IN
    /\ call[r].phase = "look"
    /\ IF Exists(u) THEN GotoWith(r, AfterRow(r, customers[u]), customers[u])
                    ELSE Goto(r, "create")
    /\ UNCHANGED <<customers, identity, tokens, torn, edited, squatters, faults>>

CreateCustomerWithHdId(r) ==
    LET u == call[r].user IN
    /\ call[r].phase = "create"
    /\ identity' = identity + 1
    /\ IF Exists(u) \/ Taken(u, NoAddress)
         THEN Goto(r, "over") /\ UNCHANGED customers
         ELSE /\ customers' = [customers EXCEPT ![u] = NewRow]
              /\ GotoWith(r, "address", NoRow)
    /\ UNCHANGED <<tokens, torn, edited, squatters, faults>>

CreateCustomerWithNull(r) ==
    LET u == call[r].user IN
    /\ call[r].phase = "create"
    /\ identity' = identity + 1
    /\ IF Exists(u)
         THEN Goto(r, "over") /\ UNCHANGED customers
         ELSE /\ customers' = [customers EXCEPT ![u] = NewRow]
              /\ Goto(r, "read")
    /\ UNCHANGED <<tokens, torn, edited, squatters, faults>>

\* The INSERT of CreateCustomer.  It sets neither status nor wallet_hd_id, and the
\* addresses to ''.  A refused insert has used up a value of the identity.
CreateCustomer(r) ==
    LET u == call[r].user IN
    /\ call[r].phase = "create"
    /\ identity' = identity + 1
    /\ IF Exists(u) \/ Taken(u, NoAddress)
         THEN Goto(r, "over") /\ UNCHANGED customers
         ELSE /\ customers' = [customers EXCEPT ![u] = NewRow]
              /\ Goto(r, "read")
    /\ UNCHANGED <<tokens, torn, edited, squatters, faults>>

\* GetCustomer, which fills in what the database chose.
ReadBack(r) ==
    /\ call[r].phase = "read"
    /\ GotoWith(r, "address", customers[call[r].user])
    /\ UNCHANGED <<customers, identity, tokens, torn, edited, squatters, faults>>

SetAddressForgotten(r) ==
    LET u == call[r].user
        address == OfSubwallet(call[r].copy.wallet_hd_id)
    IN
    /\ call[r].phase = "address"
    /\ IF Taken(u, address)
         THEN Goto(r, "over") /\ UNCHANGED customers
         ELSE /\ UNCHANGED customers
              /\ GotoWith(r, AfterRow(r, customers'[u]), customers'[u])
    /\ squatters' = [squatters EXCEPT ![u] = @ \union Holders(u, address)]
    /\ UNCHANGED <<identity, tokens, torn, edited, faults>>

\* GetAddress for the wallet_hd_id of the copy, and the UPDATE, which returns the row.
SetAddress(r) ==
    LET u == call[r].user
        address == OfSubwallet(call[r].copy.wallet_hd_id)
    IN
    /\ call[r].phase = "address"
    /\ IF Taken(u, address)
         THEN Goto(r, "over") /\ UNCHANGED customers
         ELSE /\ customers' = [customers EXCEPT ![u].address = address]
              /\ GotoWith(r, AfterRow(r, customers'[u]), customers'[u])
    /\ squatters' = [squatters EXCEPT ![u] = @ \union Holders(u, address)]
    /\ UNCHANGED <<identity, tokens, torn, edited, faults>>

\* The customer who came by /start is registered.
Promote(r) ==
    LET u == call[r].user IN
    /\ call[r].phase = "promote"
    /\ customers' = [customers EXCEPT ![u].status = "REGISTERED"]
    /\ GotoWith(r, "token", customers'[u])
    /\ UNCHANGED <<identity, tokens, torn, edited, squatters, faults>>

GenerateJWT(r) ==
    /\ call[r].phase = "token"
    /\ tokens' = tokens \union {call[r].user}
    /\ Goto(r, "over")
    /\ UNCHANGED <<customers, identity, torn, edited, squatters, faults>>

\* A request names one of the columns, or both; what it does not name stays.
Sent == UNION {[named -> Strings] : named \in (SUBSET Columns) \ {{}}}
Patched(u, sent) ==
    [c \in Columns |-> IF c \in DOMAIN sent THEN sent[c] ELSE customers[u].address[c]]

\* UpdateMe: what the client sends is stored as it is.
UpdateMe(u, sent) ==
    /\ u \in tokens
    /\ ~Taken(u, Patched(u, sent))
    /\ customers' = [customers EXCEPT ![u].address = Patched(u, sent)]
    /\ edited' = edited \union {u}
    /\ UNCHANGED <<identity, call, tokens, torn, squatters, faults>>
-----------------------------------------------------------------------------
(* Faults *)

Running == {r \in Calls : call[r].phase \notin {"unused", "over"}}
\* The row of the user is there, its address is not.
Halfway(r) == call[r].phase \in {"read", "address"}

\* A statement fails, GetAddress does, or the context of the request is cancelled.
Fail(r) ==
    /\ r \in Running /\ faults < MaxFaults
    /\ Goto(r, "over")
    /\ torn' = IF Halfway(r) THEN torn \union {call[r].user} ELSE torn
    /\ faults' = faults + 1
    /\ UNCHANGED <<customers, identity, tokens, edited, squatters>>

Crash ==
    /\ Running # {} /\ faults < MaxFaults
    /\ call' = [r \in Calls |-> IF r \in Running THEN [call[r] EXCEPT !.phase = "over"] ELSE call[r]]
    /\ torn' = torn \union {call[r].user : r \in {q \in Calls : Halfway(q)}}
    /\ faults' = faults + 1
    /\ UNCHANGED <<customers, identity, tokens, edited, squatters>>

Statement(r) ==
    Look(r) \/ CreateCustomer(r) \/ ReadBack(r) \/ SetAddress(r) \/ Promote(r) \/ GenerateJWT(r)

Next ==
    \/ \E r \in Calls :
          \/ \E u \in Users, op \in {"start", "auth"} : Begin(r, op, u)
          \/ Statement(r)
          \/ Fail(r)
    \/ \E u \in Users, sent \in Sent : UpdateMe(u, sent)
    \/ Crash

Spec == Init /\ [][Next]_vars

\* A handler that was called runs on: its statements return, or time out as a fault.
FairSpec == Spec /\ \A r \in Calls : WF_vars(Statement(r))
-----------------------------------------------------------------------------
Phases == {"unused", "look", "create", "read", "address", "promote", "token", "over"}

CallType == [op : {"none", "start", "auth"}, phase : Phases, user : Users \union {Nobody},
             copy : Row \union {NoRow}]

TypeOK ==
    /\ customers \in [Users -> Row \union {NoRow}]
    /\ identity \in Nat \ {0}
    /\ call \in [Calls -> CallType]
    /\ \A r \in Calls :
          /\ call[r].phase = "unused" \/ call[r].user \in Users
          /\ call[r].phase = "address" => call[r].copy \in Row
    /\ tokens \subseteq Users
    /\ torn \subseteq Users /\ edited \subseteq Users
    /\ squatters \in [Users -> SUBSET Users]
    /\ faults \in 0..MaxFaults

(* The addresses a customer pays to are those of the subwallet the backend    *)
(* withdraws from on behalf of the same customer, and no two customers share  *)
(* a subwallet, however the two ways to register interleave; only the         *)
(* customer can replace an address.                                           *)
WalletIsOwn ==
    \A u \in Users : Exists(u) =>
        /\ \/ u \in edited
           \/ \A c \in Columns : customers[u].address[c] \in {Empty, customers[u].wallet_hd_id}
        /\ \A v \in Users \ {u} : Exists(v) => customers[v].wallet_hd_id # customers[u].wallet_hd_id

\* A statement failed before the user had a wallet, the user replaced an address,
\* or another customer who did so had taken the user's.
Excused(u) == u \in torn \union edited \/ squatters[u] \cap edited # {}

(* A customer is without an address while a handler is at work on it, after a *)
(* fault in between, by the customer's own edit, or because of another        *)
(* customer's, who stored the address of this one's subwallet first; and in a *)
(* column there is one such customer at a time, who keeps everybody else from *)
(* registering.                                                               *)
WalletlessIsExplained ==
    \A u \in Users, c \in Columns : Exists(u) /\ customers[u].address[c] = Empty =>
        /\ Excused(u) \/ \E r \in Calls : call[r].user = u /\ Halfway(r)
        /\ \A v \in Users \ {u} : Exists(v) => customers[v].address[c] # Empty

(* A token names a customer who is registered, though the login decides that  *)
(* by a copy another handler may have outdated.                               *)
TokensAreForRegistered ==
    \A u \in tokens : customers[u].status = "REGISTERED"

(* Who was inserted is given a wallet, unless a fault came in between, the    *)
(* customer took it away or another customer's edit did.                      *)
WalletsArrive ==
    \A u \in Users :
        Exists(u) ~> (Empty \notin {customers[u].address[c] : c \in Columns} \/ Excused(u))
=============================================================================
