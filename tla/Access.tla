------------------------------- MODULE Access -------------------------------
(***************************************************************************)
(* Who may use the server.  The administrator shows a password, slowed     *)
(* down per address (server/server.go, loginThrottle), and then a signed   *)
(* cookie; with it he makes, disables and deletes the local keys that the  *)
(* clients of the API show (server/admin.go, table local_keys of           *)
(* store/store.go).                                                        *)
(*                                                                         *)
(*   login:    blocked? -> compare, record or reset                        *)
(*   creation: count -> insert -> select                                   *)
(*   client:   select -> count the use -> go on to the API                 *)
(*                                                                         *)
(* Handlers run side by side; each statement is atomic, a handler is not.  *)
(* A key is one thing and its name another: rows are updated by name, and  *)
(* the name of a deleted key is free for the next one.                     *)
(***************************************************************************)
EXTENDS Integers, Sequences, FiniteSets

CONSTANTS
  Addresses,  \* client addresses
  Attempts,   \* goroutines that serve POST /admin/api/login
  Creators,   \* goroutines that serve POST /admin/api/local-keys
  Clients,    \* goroutines that serve a request to the API
  MaxFails,   \* wrong passwords before an address is blocked
  Window,     \* how long it is blocked
  SessionLife,\* how long a cookie is valid
  NoKey,      \* no such row
  MaxTries,   \* bound: logins that get as far as the password
  MaxKeys,    \* bound: keys ever made
  MaxNames,   \* bound: suffixes a creation tries
  MaxUses,    \* bound: requests of clients
  MaxTime     \* bound: the clock

ASSUME AccessAssumption ==
  /\ MaxFails \in Nat \ {0} /\ Window \in Nat \ {0} /\ SessionLife \in Nat
  /\ MaxTries \in Nat /\ MaxKeys \in Nat /\ MaxNames \in Nat \ {0} /\ MaxUses \in Nat /\ MaxTime \in Nat

Keys == 1 .. MaxKeys

\* Of the names with one base, the n-th: "default", "default-2", ...
Names == 1 .. MaxNames

Row == [key : Keys, enabled : BOOLEAN, uses : Nat]

ASSUME NoKeyAssumption == NoKey \notin Row

Idle == [stage |-> "idle"]
Attempt == [stage : {"compare"}, address : Addresses, barred : BOOLEAN]
Creator == [stage : {"count", "insert", "select"}, key : Keys, name : Names,
            raced : BOOLEAN]
Client == [stage : {"count"}, key : Keys, name : Names]

VARIABLES
  now,
  failures,  \* [Addresses -> [count, until]]: of the throttle, in memory
  attempt,   \* [Attempts -> Attempt \cup {Idle}]
  tries,     \* logins so far that got as far as the password
  cookies,   \* when the cookies given out expire
  table,     \* [Names -> Row \cup {NoKey}]: local_keys, whose name is UNIQUE
  made,      \* keys made so far; key n is the n-th
  creator,   \* [Creators -> Creator \cup {Idle}]
  client,    \* [Clients -> Client \cup {Idle}]
  arrived,   \* requests of clients so far
  wrong,     \* history: [Addresses -> Seq(time)]: wrong passwords since a right one
  admitted,  \* history: [Keys -> Nat]: requests let through
  uncounted, \* history: [Keys -> Nat]: those whose UPDATE has failed
  inherited  \* history: keys whose name a request of an earlier key still held

loginVars == <<failures, attempt, tries, wrong>>
keyVars == <<table, made, creator>>
clientVars == <<client, arrived, admitted, uncounted>>
vars == <<now, cookies, loginVars, keyVars, clientVars, inherited>>

Fresh == [count |-> 0, until |-> 0]

Init ==
  /\ now = 1
  /\ failures = [i \in Addresses |-> Fresh]
  /\ attempt = [a \in Attempts |-> Idle]
  /\ tries = 0
  /\ cookies = {}
  /\ table = [n \in Names |-> NoKey]
  /\ made = 0
  /\ creator = [c \in Creators |-> Idle]
  /\ client = [c \in Clients |-> Idle]
  /\ arrived = 0
  /\ wrong = [i \in Addresses |-> <<>>]
  /\ admitted = [k \in Keys |-> 0]
  /\ uncounted = [k \in Keys |-> 0]
  /\ inherited = {}

-----------------------------------------------------------------------------
(* handleAdminLogin.                                                       *)

Blocked(i) == failures[i].until > now

\* Every MaxFails-th wrong password bars its address for Window.
Barred(i) == \E n \in DOMAIN wrong[i] : n % MaxFails = 0 /\ now < wrong[i][n] + Window

\* A blocked address gets 429 and nothing changes.
Login(a, i) ==
  /\ attempt[a] = Idle
  /\ tries < MaxTries
  /\ ~Blocked(i)
  /\ attempt' = [attempt EXCEPT ![a] = [stage |-> "compare", address |-> i, barred |-> Barred(i)]]
  /\ tries' = tries + 1
  /\ UNCHANGED <<now, failures, wrong, cookies, keyVars, clientVars, inherited>>

\* Faulty: the count starts again whenever a block is over.
FaultyFailed(f) ==
  LET count == IF f.until # 0 THEN 1 ELSE f.count + 1 IN
    IF count = MaxFails THEN [count |-> 0, until |-> now + Window]
    ELSE [count |-> count, until |-> f.until]

\* recordFail.  The count starts again when the address is blocked, so that
\* passwords compared meanwhile count for the next block.
Failed(f) ==
  IF f.count + 1 >= MaxFails THEN [count |-> 0, until |-> now + Window]
  ELSE [f EXCEPT !.count = @ + 1]

WrongPassword(a) ==
  /\ attempt[a] # Idle
  /\ LET i == attempt[a].address
     IN /\ failures' = [failures EXCEPT ![i] = Failed(@)]
        /\ wrong' = [wrong EXCEPT ![i] = Append(@, now)]
  /\ attempt' = [attempt EXCEPT ![a] = Idle]
  /\ UNCHANGED <<now, tries, cookies, keyVars, clientVars, inherited>>

\* The address is forgiven, and a cookie is signed.
RightPassword(a) ==
  /\ attempt[a] # Idle
  /\ LET i == attempt[a].address
     IN /\ failures' = [failures EXCEPT ![i] = Fresh]
        /\ wrong' = [wrong EXCEPT ![i] = <<>>]
  /\ cookies' = cookies \cup {now + SessionLife}
  /\ attempt' = [attempt EXCEPT ![a] = Idle]
  /\ UNCHANGED <<now, tries, keyVars, clientVars, inherited>>

\* requireAdmin and verifyCookie: signed here, and not expired.  The secret is
\* in a file, so a cookie outlives the process; logging out only asks the
\* browser to forget it.
Session == \E e \in cookies : now <= e

-----------------------------------------------------------------------------
(* handleCreateLocalKey: CreateLocalKey.                                   *)

Exists(n) == table[n] # NoKey

CreateKey(c) ==
  /\ Session
  /\ creator[c] = Idle
  /\ made < MaxKeys
  /\ made' = made + 1
  /\ creator' = [creator EXCEPT ![c] = [stage |-> "count", key |-> made + 1, name |-> 1,
                                        raced |-> FALSE]]
  /\ UNCHANGED <<now, loginVars, cookies, table, clientVars, inherited>>

\* Faulty: the base is taken as it is.
FaultyCountName(c) ==
  /\ creator[c].stage = "count"
  /\ creator' = [creator EXCEPT ![c].stage = "insert"]
  /\ UNCHANGED <<now, loginVars, cookies, table, made, clientVars, inherited>>

\* SELECT COUNT: a name in use is given the next suffix.
CountName(c) ==
  /\ creator[c].stage = "count"
  /\ LET n == creator[c].name
     IN \/ /\ Exists(n) /\ n < MaxNames
           /\ creator' = [creator EXCEPT ![c].name = n + 1]
        \/ /\ ~Exists(n)
           /\ creator' = [creator EXCEPT ![c].stage = "insert"]
  /\ UNCHANGED <<now, loginVars, cookies, table, made, clientVars, inherited>>

\* Those about to insert the same name, and a request that holds it.
Racing(n) == {c \in Creators : creator[c].stage = "insert" /\ creator[c].name = n}
HeldName(n) == \E c \in Clients : client[c] # Idle /\ client[c].name = n

Insert(c) ==
  /\ creator[c].stage = "insert"
  /\ LET n == creator[c].name k == creator[c].key
     IN /\ ~Exists(n)
        /\ table' = [table EXCEPT ![n] = [key |-> k, enabled |-> TRUE, uses |-> 0]]
        /\ creator' = [d \in Creators |->
             IF d = c THEN [creator[d] EXCEPT !.stage = "select"]
             ELSE IF d \in Racing(n) THEN [creator[d] EXCEPT !.raced = TRUE]
             ELSE creator[d]]
        /\ inherited' = IF HeldName(n) THEN inherited \cup {k} ELSE inherited
  /\ UNCHANGED <<now, loginVars, cookies, made, clientVars>>

\* UNIQUE: the name was taken since it was counted.  The answer is 500.
InsertRefused(c) ==
  /\ creator[c].stage = "insert"
  /\ Exists(creator[c].name)
  /\ creator' = [creator EXCEPT ![c] = Idle]
  /\ UNCHANGED <<now, loginVars, cookies, table, made, clientVars, inherited>>

\* The row is read back for the answer, or is gone by now.
ReadBack(c) ==
  /\ creator[c].stage = "select"
  /\ creator' = [creator EXCEPT ![c] = Idle]
  /\ UNCHANGED <<now, loginVars, cookies, table, made, clientVars, inherited>>

(* handleUpdateLocalKey and handleDeleteLocalKey: whatever has the name.    *)
SetEnabled(n, on) ==
  /\ Session /\ Exists(n)
  /\ table' = [table EXCEPT ![n].enabled = on]
  /\ UNCHANGED <<now, loginVars, cookies, made, creator, clientVars, inherited>>

DeleteKey(n) ==
  /\ Session /\ Exists(n)
  /\ table' = [table EXCEPT ![n] = NoKey]
  /\ UNCHANGED <<now, loginVars, cookies, made, creator, clientVars, inherited>>

-----------------------------------------------------------------------------
(* requireAPIKey: AuthenticateLocalKey.                                    *)

\* The key is there and enabled; else the answer is 401 and nothing changes.
Authenticate(c, k) ==
  /\ client[c] = Idle
  /\ arrived < MaxUses
  /\ \E n \in Names :
       /\ Exists(n) /\ table[n].key = k /\ table[n].enabled
       /\ client' = [client EXCEPT ![c] = [stage |-> "count", key |-> k, name |-> n]]
  /\ arrived' = arrived + 1
  /\ UNCHANGED <<now, loginVars, cookies, keyVars, admitted, uncounted, inherited>>

\* Faulty: the first row is counted.
FaultyUsed(n) == IF Exists(1) THEN [table EXCEPT ![1].uses = @ + 1] ELSE table

\* UPDATE ... WHERE name=?, whoever has the name by now.
Used(n) == IF Exists(n) THEN [table EXCEPT ![n].uses = @ + 1] ELSE table

\* An error of the UPDATE is ignored: the request is let through either way.
CountUse(c, ok) ==
  /\ client[c] # Idle
  /\ table' = IF ok THEN Used(client[c].name) ELSE table
  /\ uncounted' = IF ok THEN uncounted ELSE [uncounted EXCEPT ![client[c].key] = @ + 1]
  /\ admitted' = [admitted EXCEPT ![client[c].key] = @ + 1]
  /\ client' = [client EXCEPT ![c] = Idle]
  /\ UNCHANGED <<now, loginVars, cookies, made, creator, arrived, inherited>>

-----------------------------------------------------------------------------
Tick ==
  /\ now < MaxTime
  /\ now' = now + 1
  /\ UNCHANGED <<loginVars, cookies, keyVars, clientVars, inherited>>

\* The throttle and the requests are forgotten; the table and cookies are not.
Restart ==
  /\ failures' = [i \in Addresses |-> Fresh]
  /\ wrong' = [i \in Addresses |-> <<>>]
  /\ attempt' = [a \in Attempts |-> Idle]
  /\ creator' = [c \in Creators |-> Idle]
  /\ client' = [c \in Clients |-> Idle]
  /\ UNCHANGED <<now, tries, cookies, table, made, arrived, admitted, uncounted, inherited>>

LoginStep(a) ==
  \/ \E i \in Addresses : Login(a, i)
  \/ WrongPassword(a) \/ RightPassword(a)

CreatorStep(c) ==
  CreateKey(c) \/ CountName(c) \/ Insert(c) \/ InsertRefused(c) \/ ReadBack(c)

KeyStep(n) == DeleteKey(n) \/ \E on \in BOOLEAN : SetEnabled(n, on)

ClientStep(c) ==
  (\E ok \in BOOLEAN : CountUse(c, ok)) \/ \E k \in Keys : Authenticate(c, k)

Next ==
  \/ \E a \in Attempts : LoginStep(a)
  \/ \E c \in Creators : CreatorStep(c)
  \/ \E n \in Names : KeyStep(n)
  \/ \E c \in Clients : ClientStep(c)
  \/ Tick \/ Restart

Spec == Init /\ [][Next]_vars

-----------------------------------------------------------------------------
(* Correctness.                                                            *)

\* Every variable stays in its range.
TypeOK ==
  /\ now \in Nat
  /\ failures \in [Addresses -> [count : 0 .. MaxFails - 1, until : Nat]]
  /\ attempt \in [Attempts -> Attempt \cup {Idle}]
  /\ tries \in Nat
  /\ cookies \in SUBSET Nat
  /\ table \in [Names -> Row \cup {NoKey}]
  /\ made \in 0 .. MaxKeys
  /\ creator \in [Creators -> Creator \cup {Idle}]
  /\ client \in [Clients -> Client \cup {Idle}]
  /\ arrived \in Nat
  /\ wrong \in [Addresses -> Seq(Nat)]
  /\ admitted \in [Keys -> Nat]
  /\ uncounted \in [Keys -> Nat]
  /\ inherited \in SUBSET Keys

\* Counted since the last right one, every MaxFails-th wrong password of an
\* address bars it: no request that begins before Window has passed gets to the
\* comparison, although requests pass the check and fail in any order, and the
\* throttle starts counting again at each block (blocked, recordFail, reset).
BlockHolds == \A a \in Attempts : attempt[a] # Idle => ~attempt[a].barred

\* A key is charged with exactly the requests it has let through, but for those
\* whose UPDATE failed: also when it is disabled or others are deleted between
\* the two statements of a request; unless it got the name of a deleted key
\* while a request of that key was between the two (AuthenticateLocalKey counts
\* by name, and ignores the error).
UsesCounted ==
  \A n \in Names :
    Exists(n) /\ table[n].key \notin inherited =>
      table[n].uses + uncounted[table[n].key] = admitted[table[n].key]

\* A name in use is given a suffix: a creation is only refused if another one
\* took the name between count and insert (CreateLocalKey).
RefusedOnlyInRace ==
  \A c \in Creators :
    creator[c].stage = "insert" /\ Exists(creator[c].name) => creator[c].raced
=============================================================================
