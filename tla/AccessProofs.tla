---------------------------- MODULE AccessProofs ----------------------------
(***************************************************************************)
(* Access for any number of addresses, logins, creations and clients: a    *)
(* block holds, a key is charged with what it let through, and a creation  *)
(* is refused only in a race.                                              *)
(***************************************************************************)
EXTENDS Access, TLAPS

\* The throttle against the wrong passwords in their order.
ThrottleInv ==
  \A i \in Addresses :
    /\ \E q \in Nat : Len(wrong[i]) = q * MaxFails + failures[i].count
    /\ \A n \in DOMAIN wrong[i] :
         /\ wrong[i][n] <= now
         /\ n % MaxFails = 0 => wrong[i][n] + Window <= failures[i].until

\* Keys that a creation has in hand, not yet inserted.
Pending(c) == creator[c] # Idle /\ creator[c].stage # "select"

\* A key is inserted once at most.  Until then nobody knows it.
PendingInv ==
  \A c \in Creators : Pending(c) =>
    LET k == creator[c].key IN
      /\ k <= made
      /\ k \notin inherited
      /\ \A d \in Creators : Pending(d) /\ creator[d].key = k => d = c
      /\ \A n \in Names : Exists(n) => table[n].key # k
      /\ \A d \in Clients : client[d] # Idle => client[d].key # k
      /\ admitted[k] = 0

\* Keys are made in order, and a key has one name.
MadeInv ==
  /\ \A k \in Keys : k > made => k \notin inherited /\ admitted[k] = 0
  /\ \A n \in Names : Exists(n) => table[n].key <= made
  /\ \A n, m \in Names : Exists(n) /\ Exists(m) /\ table[n].key = table[m].key => n = m

\* A client holds a key and its name; whoever has got the name since has
\* inherited it.
ClientInv ==
  \A d \in Clients : client[d] # Idle =>
    /\ client[d].key <= made
    /\ \A n \in Names : Exists(n) /\ table[n].key = client[d].key => n = client[d].name
    /\ Exists(client[d].name) /\ table[client[d].name].key # client[d].key
         => table[client[d].name].key \in inherited

\* Only what was let through can go uncounted.
CountInv == \A k \in Keys : uncounted[k] <= admitted[k]

KeyInv == PendingInv /\ MadeInv /\ ClientInv /\ CountInv /\ UsesCounted

Inv == TypeOK /\ ThrottleInv /\ BlockHolds /\ RefusedOnlyInRace /\ KeyInv

-----------------------------------------------------------------------------
\* The bounds are numbers.
LEMMA Numbers ==
  /\ MaxFails \in Nat /\ MaxFails > 0 /\ Window \in Nat /\ Window > 0 /\ SessionLife \in Nat
  /\ MaxTries \in Nat /\ MaxKeys \in Nat /\ MaxNames \in Nat /\ MaxNames > 0
  /\ MaxUses \in Nat /\ MaxTime \in Nat
  /\ Keys \subseteq Nat /\ Names \subseteq Nat /\ 1 \in Names
BY AccessAssumption DEF Keys, Names

\* Idle is none of the records of goroutines that do something.
LEMMA IdleIsNothing == Idle \notin Attempt /\ Idle \notin Creator /\ Idle \notin Client
BY DEF Idle, Attempt, Creator, Client

\* Counting modulo MaxFails.
LEMMA Modulo ==
  ASSUME NEW n \in Nat, NEW q \in Nat, NEW c \in 0 .. MaxFails - 1, n = q * MaxFails + c
  PROVE  n % MaxFails = c
BY Numbers, SMTT(20)

\* What a wrong password adds to the history of its address.
LEMMA OneMore ==
  ASSUME NEW q \in Nat, NEW c \in 0 .. MaxFails - 1, NEW n \in Nat, n = q * MaxFails + c
  PROVE  /\ c + 1 < MaxFails => n + 1 = q * MaxFails + (c + 1) /\ (n + 1) % MaxFails # 0
         /\ c + 1 >= MaxFails => n + 1 = (q + 1) * MaxFails + 0
<1>1. CASE c + 1 < MaxFails
  <2>1. n + 1 = q * MaxFails + (c + 1)  BY <1>1, Numbers, SMTT(20)
  <2>2. (n + 1) % MaxFails = c + 1  BY <1>1, <2>1, Numbers, Modulo
  <2> QED  BY <1>1, <2>1, <2>2, Numbers
<1>2. CASE c + 1 >= MaxFails
  <2>1. c + 1 = MaxFails  BY <1>2, Numbers
  <2>2. n + 1 = q * MaxFails + MaxFails  BY <2>1, Numbers, SMTT(20)
  <2>3. (q + 1) * MaxFails = q * MaxFails + MaxFails  BY Numbers, SMTT(20)
  <2> QED  BY <1>2, <2>2, <2>3, Numbers, SMTT(20)
<1> QED  BY <1>1, <1>2, Numbers

\* The server starts with nothing.
LEMMA InitInv == Init => Inv
<1> SUFFICES ASSUME Init PROVE Inv  OBVIOUS
<1> USE Numbers, IdleIsNothing DEF Init
<1>1. TypeOK  BY DEF TypeOK, Fresh
<1>2. ThrottleInv
  <2> SUFFICES ASSUME NEW i \in Addresses
               PROVE  /\ \E q \in Nat : Len(wrong[i]) = q * MaxFails + failures[i].count
                      /\ DOMAIN wrong[i] = {}
    BY DEF ThrottleInv
  <2>1. Len(wrong[i]) = 0 /\ failures[i].count = 0 /\ DOMAIN wrong[i] = {}  BY DEF Fresh
  <2>2. 0 = 0 * MaxFails + 0  OBVIOUS
  <2> QED  BY <2>1, <2>2
<1>3. BlockHolds /\ RefusedOnlyInRace  BY DEF BlockHolds, RefusedOnlyInRace, Idle
<1>4. KeyInv
  BY DEF KeyInv, PendingInv, Pending, MadeInv, ClientInv, CountInv, UsesCounted, Exists
<1> QED  BY <1>1, <1>2, <1>3, <1>4 DEF Inv

-----------------------------------------------------------------------------
(* Types.                                                                  *)

\* What a goroutine that does something, and a row that is there, look like.
LEMMA Shapes ==
  ASSUME TypeOK
  PROVE  /\ \A a \in Attempts : attempt[a] # Idle => attempt[a] \in Attempt
         /\ \A c \in Creators : creator[c] # Idle => creator[c] \in Creator
         /\ \A c \in Creators : creator[c].stage \in {"count", "insert", "select"} => creator[c] # Idle
         /\ \A c \in Clients : client[c] # Idle => client[c] \in Client
         /\ \A n \in Names : Exists(n) => table[n] \in Row
BY DEF TypeOK, Exists, Idle

\* A record of a failed login.
LEMMA FailedType ==
  ASSUME TypeOK, NEW i \in Addresses
  PROVE  Failed(failures[i]) \in [count : 0 .. MaxFails - 1, until : Nat]
<1>1. failures[i].count \in 0 .. MaxFails - 1 /\ failures[i].until \in Nat /\ now \in Nat
  BY DEF TypeOK
<1>2. failures[i] = [count |-> failures[i].count, until |-> failures[i].until]  BY DEF TypeOK
<1> QED  BY <1>1, <1>2, Numbers DEF Failed

LEMMA TypeStep == TypeOK /\ [Next]_vars => TypeOK'
<1> SUFFICES ASSUME TypeOK, [Next]_vars PROVE TypeOK'  OBVIOUS
<1> USE Numbers
<1>1. ASSUME NEW a \in Attempts, NEW i \in Addresses, Login(a, i) PROVE TypeOK'
  <2>1. [stage |-> "compare", address |-> i, barred |-> Barred(i)] \in Attempt
    BY DEF Attempt, Barred
  <2> QED  BY <1>1, <2>1 DEF Login, TypeOK, keyVars, clientVars
<1>2. ASSUME NEW a \in Attempts, WrongPassword(a) PROVE TypeOK'
  <2> DEFINE i == attempt[a].address
  <2>1. i \in Addresses  BY <1>2, Shapes DEF WrongPassword, Attempt
  <2>2. failures' \in [Addresses -> [count : 0 .. MaxFails - 1, until : Nat]]
    BY <1>2, <2>1, FailedType DEF WrongPassword, TypeOK
  <2>3. Append(wrong[i], now) \in Seq(Nat)  BY <2>1 DEF TypeOK
  <2>4. wrong' \in [Addresses -> Seq(Nat)]  BY <1>2, <2>1, <2>3 DEF WrongPassword, TypeOK
  <2> QED  BY <1>2, <2>2, <2>4 DEF WrongPassword, TypeOK, keyVars, clientVars
<1>3. ASSUME NEW a \in Attempts, RightPassword(a) PROVE TypeOK'
  <2>1. Fresh \in [count : 0 .. MaxFails - 1, until : Nat]  BY DEF Fresh
  <2>2. <<>> \in Seq(Nat)  OBVIOUS
  <2>3. now + SessionLife \in Nat  BY DEF TypeOK
  <2> QED  BY <1>3, <2>1, <2>2, <2>3 DEF RightPassword, TypeOK, keyVars, clientVars
<1>4. ASSUME NEW c \in Creators, CreateKey(c) PROVE TypeOK'
  <2>1. made + 1 \in Keys /\ made' \in 0 .. MaxKeys  BY <1>4 DEF CreateKey, TypeOK, Keys
  <2>2. [stage |-> "count", key |-> made + 1, name |-> 1, raced |-> FALSE] \in Creator
    BY <2>1 DEF Creator
  <2> QED  BY <1>4, <2>1, <2>2 DEF CreateKey, TypeOK, loginVars, clientVars
<1>5. ASSUME NEW c \in Creators, CountName(c) PROVE TypeOK'
  <2>1. creator[c] \in Creator  BY <1>5, Shapes DEF CountName
  <2>2. CASE creator' = [creator EXCEPT ![c].name = creator[c].name + 1]
             /\ creator[c].name < MaxNames
    <3>1. creator[c].name + 1 \in Names  BY <2>1, <2>2 DEF Creator, Names
    <3>2. [creator[c] EXCEPT !.name = creator[c].name + 1] \in Creator
      BY <2>1, <3>1 DEF Creator
    <3> QED  BY <1>5, <2>2, <3>2 DEF CountName, TypeOK, loginVars, clientVars
  <2>3. CASE creator' = [creator EXCEPT ![c].stage = "insert"]
    <3>1. [creator[c] EXCEPT !.stage = "insert"] \in Creator  BY <2>1 DEF Creator
    <3> QED  BY <1>5, <2>3, <3>1 DEF CountName, TypeOK, loginVars, clientVars
  <2> QED  BY <1>5, <2>2, <2>3 DEF CountName
<1>6. ASSUME NEW c \in Creators, Insert(c) PROVE TypeOK'
  <2> DEFINE n == creator[c].name k == creator[c].key
  <2>1. creator[c] \in Creator /\ n \in Names /\ k \in Keys
    BY <1>6, Shapes DEF Insert, Creator
  <2>2. [key |-> k, enabled |-> TRUE, uses |-> 0] \in Row  BY <2>1 DEF Row
  <2>3. table' \in [Names -> Row \cup {NoKey}]  BY <1>6, <2>1, <2>2 DEF Insert, TypeOK
  <2>4. \A d \in Creators : creator'[d] \in Creator \cup {Idle}
    <3> TAKE d \in Creators
    <3>1. CASE d = c
      BY <1>6, <2>1, <3>1 DEF Insert, Creator
    <3>2. CASE d # c /\ d \in Racing(n)
      <4>1. creator[d] \in Creator  BY <3>2, Shapes DEF Racing
      <4>2. [creator[d] EXCEPT !.raced = TRUE] \in Creator  BY <4>1 DEF Creator
      <4> QED  BY <1>6, <3>2, <4>2 DEF Insert
    <3>3. CASE d # c /\ d \notin Racing(n)
      BY <1>6, <3>3 DEF Insert, TypeOK
    <3> QED  BY <3>1, <3>2, <3>3
  <2>5. creator' \in [Creators -> Creator \cup {Idle}]  BY <1>6, <2>4 DEF Insert
  <2>6. inherited' \in SUBSET Keys  BY <1>6, <2>1 DEF Insert, TypeOK
  <2> QED  BY <1>6, <2>3, <2>5, <2>6 DEF Insert, TypeOK, loginVars, clientVars
<1>7. ASSUME NEW c \in Creators, InsertRefused(c) \/ ReadBack(c) PROVE TypeOK'
  BY <1>7 DEF InsertRefused, ReadBack, TypeOK, loginVars, clientVars
<1>8. ASSUME NEW n \in Names, NEW on \in BOOLEAN, SetEnabled(n, on) PROVE TypeOK'
  <2>1. [table[n] EXCEPT !.enabled = on] \in Row
    BY <1>8, Shapes DEF SetEnabled, Row
  <2> QED  BY <1>8, <2>1 DEF SetEnabled, TypeOK, loginVars, clientVars
<1>9. ASSUME NEW n \in Names, DeleteKey(n) PROVE TypeOK'
  BY <1>9 DEF DeleteKey, TypeOK, loginVars, clientVars
<1>10. ASSUME NEW c \in Clients, NEW k \in Keys, Authenticate(c, k) PROVE TypeOK'
  <2>1. \A n \in Names : [stage |-> "count", key |-> k, name |-> n] \in Client
    BY DEF Client
  <2> QED  BY <1>10, <2>1 DEF Authenticate, TypeOK, loginVars, keyVars
<1>11. ASSUME NEW c \in Clients, NEW ok \in BOOLEAN, CountUse(c, ok) PROVE TypeOK'
  <2> DEFINE n == client[c].name k == client[c].key
  <2>1. n \in Names /\ k \in Keys  BY <1>11, Shapes DEF CountUse, Client
  <2>2. Exists(n) => [table[n] EXCEPT !.uses = table[n].uses + 1] \in Row
    <3>1. SUFFICES ASSUME Exists(n) PROVE [table[n] EXCEPT !.uses = table[n].uses + 1] \in Row
      OBVIOUS
    <3>2. table[n] \in Row  BY <2>1, <3>1, Shapes
    <3> HIDE DEF n
    <3> QED  BY <3>2 DEF Row
  <2>3. table' \in [Names -> Row \cup {NoKey}]
    BY <1>11, <2>1, <2>2 DEF CountUse, Used, TypeOK
  <2>4. admitted' \in [Keys -> Nat]
    <3>1. admitted' = [admitted EXCEPT ![k] = admitted[k] + 1]  BY <1>11 DEF CountUse
    <3>2. admitted \in [Keys -> Nat]  BY DEF TypeOK
    <3> HIDE DEF k
    <3>3. admitted[k] + 1 \in Nat  BY <2>1, <3>2
    <3> QED  BY <3>1, <3>2, <3>3
  <2>5. uncounted' \in [Keys -> Nat]
    <3>1. /\ uncounted \in [Keys -> Nat]
          /\ \/ uncounted' = uncounted
             \/ uncounted' = [uncounted EXCEPT ![k] = uncounted[k] + 1]
      BY <1>11 DEF CountUse, TypeOK
    <3> HIDE DEF k
    <3>2. uncounted[k] + 1 \in Nat  BY <2>1, <3>1
    <3> QED  BY <3>1, <3>2
  <2> QED  BY <1>11, <2>3, <2>4, <2>5 DEF CountUse, TypeOK, loginVars
<1>12. CASE Tick
  BY <1>12 DEF Tick, TypeOK, loginVars, keyVars, clientVars
<1>13. CASE Restart
  <2>1. Fresh \in [count : 0 .. MaxFails - 1, until : Nat] /\ <<>> \in Seq(Nat)
    BY DEF Fresh
  <2> QED  BY <1>13, <2>1 DEF Restart, TypeOK
<1>14. CASE UNCHANGED vars
  BY <1>14 DEF vars, loginVars, keyVars, clientVars, TypeOK
<1> QED
  BY <1>1, <1>2, <1>3, <1>4, <1>5, <1>6, <1>7, <1>8, <1>9, <1>10, <1>11, <1>12, <1>13, <1>14
  DEF Next, LoginStep, CreatorStep, KeyStep, ClientStep

-----------------------------------------------------------------------------
(* The throttle.                                                           *)

\* An address that is barred is blocked.
LEMMA BarredBlocked ==
  ASSUME TypeOK, ThrottleInv, NEW i \in Addresses, Barred(i)
  PROVE  Blocked(i)
<1>1. PICK n \in DOMAIN wrong[i] : n % MaxFails = 0 /\ now < wrong[i][n] + Window
  BY DEF Barred
<1>2. wrong[i][n] + Window <= failures[i].until  BY <1>1 DEF ThrottleInv
<1>3. wrong[i][n] \in Nat /\ now \in Nat /\ failures[i].until \in Nat
  BY <1>1 DEF TypeOK
<1> QED  BY <1>1, <1>2, <1>3, Numbers DEF Blocked

\* One more wrong password of address i.
LEMMA WrongStep ==
  ASSUME TypeOK, ThrottleInv, NEW i \in Addresses,
         failures' = [failures EXCEPT ![i] = Failed(@)],
         wrong' = [wrong EXCEPT ![i] = Append(@, now)], now' = now
  PROVE  ThrottleInv'
<1> DEFINE w == wrong[i] f == failures[i]
<1>1. /\ w \in Seq(Nat) /\ now \in Nat /\ Len(w) \in Nat /\ DOMAIN w = 1 .. Len(w)
      /\ f.count \in 0 .. MaxFails - 1 /\ f.until \in Nat
  BY DEF TypeOK
<1>2. wrong'[i] = Append(w, now) /\ failures'[i] = Failed(f)  BY DEF TypeOK
<1>3. \A j \in Addresses : j # i => wrong'[j] = wrong[j] /\ failures'[j] = failures[j]
  BY DEF TypeOK
<1>4. PICK q \in Nat : Len(w) = q * MaxFails + f.count  BY DEF ThrottleInv
<1>5. \A n \in 1 .. Len(w) :
        /\ w[n] \in Nat /\ w[n] <= now
        /\ n % MaxFails = 0 => w[n] + Window <= f.until
  BY <1>1 DEF ThrottleInv
<1> HIDE DEF w, f
<1>6. /\ Len(Append(w, now)) = Len(w) + 1 /\ DOMAIN Append(w, now) = 1 .. Len(w) + 1
      /\ Append(w, now)[Len(w) + 1] = now
      /\ \A n \in 1 .. Len(w) : Append(w, now)[n] = w[n]
  BY <1>1
<1>7. \E p \in Nat : Len(w) + 1 = p * MaxFails + Failed(f).count
  <2>1. CASE f.count + 1 < MaxFails
    <3>1. Failed(f).count = f.count + 1  BY <1>1, <2>1, Numbers DEF Failed
    <3>2. Len(w) + 1 = q * MaxFails + (f.count + 1)  BY <1>1, <1>4, <2>1, OneMore
    <3> QED  BY <3>1, <3>2
  <2>2. CASE f.count + 1 >= MaxFails
    <3>1. Failed(f).count = 0  BY <2>2 DEF Failed
    <3>2. Len(w) + 1 = (q + 1) * MaxFails + 0  BY <1>1, <1>4, <2>2, OneMore
    <3>3. q + 1 \in Nat  OBVIOUS
    <3> QED  BY <3>1, <3>2, <3>3
  <2> QED  BY <1>1, <2>1, <2>2, Numbers
<1>8. ASSUME NEW n \in 1 .. Len(w) + 1
      PROVE  /\ Append(w, now)[n] <= now
             /\ n % MaxFails = 0 => Append(w, now)[n] + Window <= Failed(f).until
  <2>1. CASE n \in 1 .. Len(w)
    <3>1. Append(w, now)[n] = w[n]  BY <1>6, <2>1
    <3>2. n % MaxFails = 0 => w[n] + Window <= f.until  BY <1>5, <2>1
    <3>3. w[n] \in Nat /\ w[n] <= now  BY <1>5, <2>1
    <3>4. CASE f.count + 1 < MaxFails
      <4>1. ~(f.count + 1 >= MaxFails)  BY <1>1, <3>4, Numbers
      <4>2. Failed(f).until = f.until  BY <4>1 DEF Failed
      <4> QED  BY <3>1, <3>2, <3>3, <4>2
    <3>5. CASE f.count + 1 >= MaxFails
      <4>1. Failed(f).until = now + Window  BY <3>5 DEF Failed
      <4> QED  BY <1>1, <3>1, <3>3, <4>1, Numbers
    <3> QED  BY <1>1, <3>4, <3>5, Numbers
  <2>2. CASE n = Len(w) + 1
    <3>1. Append(w, now)[n] = now  BY <1>6, <2>2
    <3>2. CASE f.count + 1 < MaxFails
      <4>1. (Len(w) + 1) % MaxFails # 0  BY <1>1, <1>4, <3>2, OneMore
      <4> QED  BY <1>1, <2>2, <3>1, <4>1
    <3>3. CASE f.count + 1 >= MaxFails
      <4>1. Failed(f).until = now + Window  BY <3>3 DEF Failed
      <4> QED  BY <1>1, <3>1, <4>1, Numbers
    <3> QED  BY <1>1, <3>2, <3>3, Numbers
  <2> QED  BY <1>1, <2>1, <2>2
<1> SUFFICES ASSUME NEW j \in Addresses
             PROVE  /\ \E p \in Nat : Len(wrong'[j]) = p * MaxFails + failures'[j].count
                    /\ \A n \in DOMAIN wrong'[j] :
                         /\ wrong'[j][n] <= now'
                         /\ n % MaxFails = 0 => wrong'[j][n] + Window <= failures'[j].until
  BY DEF ThrottleInv
<1>9. CASE j = i
  <2>1. wrong'[j] = Append(w, now) /\ failures'[j] = Failed(f)  BY <1>2, <1>9 DEF w, f
  <2> QED  BY <1>6, <1>7, <1>8, <2>1
<1>10. CASE j # i
  BY <1>3, <1>10 DEF ThrottleInv
<1> QED  BY <1>9, <1>10

\* Addresses that are forgiven.
LEMMA ForgivenStep ==
  ASSUME TypeOK, ThrottleInv, now' = now, NEW S \in SUBSET Addresses,
         \A i \in Addresses :
           IF i \in S THEN failures'[i] = Fresh /\ wrong'[i] = <<>>
           ELSE failures'[i] = failures[i] /\ wrong'[i] = wrong[i]
  PROVE  ThrottleInv'
<1> SUFFICES ASSUME NEW i \in Addresses
             PROVE  /\ \E p \in Nat : Len(wrong'[i]) = p * MaxFails + failures'[i].count
                    /\ \A n \in DOMAIN wrong'[i] :
                         /\ wrong'[i][n] <= now'
                         /\ n % MaxFails = 0 => wrong'[i][n] + Window <= failures'[i].until
  BY DEF ThrottleInv
<1>1. CASE i \in S
  <2>1. Len(wrong'[i]) = 0 /\ DOMAIN wrong'[i] = {} /\ failures'[i].count = 0
    BY <1>1 DEF Fresh
  <2>2. 0 = 0 * MaxFails + 0  BY Numbers
  <2> QED  BY <2>1, <2>2
<1>2. CASE i \notin S
  BY <1>2 DEF ThrottleInv
<1> QED  BY <1>1, <1>2

LEMMA ThrottleStep ==
  TypeOK /\ ThrottleInv /\ BlockHolds /\ [Next]_vars => ThrottleInv' /\ BlockHolds'
<1> SUFFICES ASSUME TypeOK, ThrottleInv, BlockHolds, [Next]_vars
             PROVE  ThrottleInv' /\ BlockHolds'
  OBVIOUS
<1>1. ASSUME NEW a \in Attempts, NEW i \in Addresses, Login(a, i)
      PROVE  ThrottleInv' /\ BlockHolds'
  <2>1. ~Barred(i)  BY <1>1, BarredBlocked DEF Login
  <2> QED  BY <1>1, <2>1 DEF Login, ThrottleInv, BlockHolds, TypeOK
<1>2. ASSUME NEW a \in Attempts, WrongPassword(a) PROVE ThrottleInv' /\ BlockHolds'
  <2>1. attempt[a].address \in Addresses  BY <1>2, Shapes DEF WrongPassword, Attempt
  <2>2. ThrottleInv'  BY <1>2, <2>1, WrongStep DEF WrongPassword
  <2>3. BlockHolds'  BY <1>2 DEF WrongPassword, BlockHolds, TypeOK
  <2> QED  BY <2>2, <2>3
<1>3. ASSUME NEW a \in Attempts, RightPassword(a) PROVE ThrottleInv' /\ BlockHolds'
  <2>1. attempt[a].address \in Addresses  BY <1>3, Shapes DEF RightPassword, Attempt
  <2>2. \A i \in Addresses :
           IF i \in {attempt[a].address} THEN failures'[i] = Fresh /\ wrong'[i] = <<>>
           ELSE failures'[i] = failures[i] /\ wrong'[i] = wrong[i]
    BY <1>3, <2>1 DEF RightPassword, TypeOK
  <2>3. ThrottleInv'  BY <1>3, <2>1, <2>2, ForgivenStep DEF RightPassword
  <2>4. BlockHolds'  BY <1>3 DEF RightPassword, BlockHolds, TypeOK
  <2> QED  BY <2>3, <2>4
<1>4. CASE Tick
  <2>1. /\ now \in Nat /\ now' = now + 1
        /\ \A i \in Addresses : wrong[i] \in Seq(Nat) /\ \A n \in DOMAIN wrong[i] : wrong[i][n] \in Nat
    BY <1>4 DEF Tick, TypeOK
  <2>2. ThrottleInv'  BY <1>4, <2>1 DEF Tick, ThrottleInv, loginVars
  <2> QED  BY <1>4, <2>2 DEF Tick, BlockHolds, loginVars
<1>5. CASE Restart
  <2>1. \A i \in Addresses : failures'[i] = Fresh /\ wrong'[i] = <<>>  BY <1>5 DEF Restart
  <2>2. ThrottleInv'  BY <1>5, <2>1, ForgivenStep DEF Restart
  <2> QED  BY <1>5, <2>2 DEF Restart, BlockHolds
<1>6. CASE UNCHANGED <<now, loginVars>>
  BY <1>6 DEF loginVars, ThrottleInv, BlockHolds
<1> QED
  BY <1>1, <1>2, <1>3, <1>4, <1>5, <1>6
  DEF Next, LoginStep, CreatorStep, KeyStep, ClientStep, vars, CreateKey, CountName, Insert,
      InsertRefused, ReadBack, SetEnabled, DeleteKey, Authenticate, CountUse

-----------------------------------------------------------------------------
(* The keys.                                                               *)

\* Steps that change no row but for its use or its enabling, forget goroutines
\* or rows, and count no use.
LEMMA LessStep ==
  ASSUME TypeOK, KeyInv, RefusedOnlyInRace,
         made' = made, inherited' = inherited, admitted' = admitted, uncounted' = uncounted,
         \A n \in Names : Exists(n)' =>
           /\ Exists(n)
           /\ table'[n].key = table[n].key /\ table'[n].uses = table[n].uses,
         \A c \in Creators : creator'[c] = creator[c] \/ creator'[c] = Idle,
         \A c \in Clients : client'[c] = client[c] \/ client'[c] = Idle
  PROVE  KeyInv' /\ RefusedOnlyInRace'
<1>1. \A c \in Creators : Pending(c)' => Pending(c) /\ creator'[c] = creator[c]
  BY DEF Pending
<1>2. PendingInv'  BY <1>1 DEF KeyInv, PendingInv
<1>3. MadeInv'  BY DEF KeyInv, MadeInv
<1>4. ClientInv'
  <2> SUFFICES ASSUME NEW d \in Clients, client'[d] # Idle
               PROVE  /\ client'[d].key <= made
                      /\ \A n \in Names : Exists(n)' /\ table'[n].key = client'[d].key
                                            => n = client'[d].name
                      /\ table'[client'[d].name] # NoKey
                           /\ table'[client'[d].name].key # client'[d].key
                           => table'[client'[d].name].key \in inherited
    BY DEF ClientInv, Exists
  <2>1. client'[d] = client[d] /\ client[d].name \in Names  BY Shapes DEF Client
  <2>2. table'[client[d].name] # NoKey => Exists(client[d].name)
                                        /\ table'[client[d].name].key = table[client[d].name].key
    BY <2>1 DEF Exists
  <2> QED  BY <2>1, <2>2 DEF KeyInv, ClientInv
<1>5. UsesCounted' /\ CountInv'  BY DEF KeyInv, UsesCounted, CountInv
<1>6. RefusedOnlyInRace'
  <2> SUFFICES ASSUME NEW c \in Creators, creator'[c].stage = "insert",
                      table'[creator'[c].name] # NoKey
               PROVE  creator'[c].raced
    BY DEF RefusedOnlyInRace, Exists
  <2>1. creator'[c] = creator[c] /\ creator[c].name \in Names  BY Shapes DEF Idle, Creator
  <2> QED  BY <2>1 DEF RefusedOnlyInRace, Exists
<1> QED  BY <1>2, <1>3, <1>4, <1>5, <1>6 DEF KeyInv

\* A key is made.
LEMMA CreateStep ==
  ASSUME TypeOK, KeyInv, RefusedOnlyInRace, NEW c \in Creators, CreateKey(c)
  PROVE  KeyInv' /\ RefusedOnlyInRace'
<1> DEFINE k == made + 1
<1>1. /\ made \in Nat /\ made' = k /\ k \in Keys /\ k \in Nat /\ k > made
      /\ table' = table /\ client' = client /\ admitted' = admitted /\ inherited' = inherited
      /\ uncounted' = uncounted
  BY Numbers DEF CreateKey, TypeOK, Keys, clientVars
<1>2. /\ creator'[c] = [stage |-> "count", key |-> k, name |-> 1, raced |-> FALSE]
      /\ \A d \in Creators : d # c => creator'[d] = creator[d]
  BY DEF CreateKey, TypeOK
<1>3. \A d \in Creators : Pending(d)' /\ d # c => Pending(d) /\ creator'[d].key = creator[d].key
  BY <1>2 DEF Pending
<1>4. \A d \in Creators : Pending(d) => creator[d].key <= made /\ creator[d].key \in Nat
  BY Shapes, Numbers DEF KeyInv, PendingInv, Pending, Creator
<1>5. \A n \in Names : Exists(n) => table[n].key <= made /\ table[n].key \in Nat
  BY Shapes, Numbers DEF KeyInv, MadeInv, Row
<1>6. \A d \in Clients : client[d] # Idle => client[d].key <= made /\ client[d].key \in Nat
  BY Shapes, Numbers DEF KeyInv, ClientInv, Client
<1>7. k \notin inherited /\ admitted[k] = 0  BY <1>1 DEF KeyInv, MadeInv
<1> HIDE DEF k
<1>8. PendingInv'
  <2> SUFFICES ASSUME NEW e \in Creators, Pending(e)'
               PROVE  LET x == creator'[e].key IN
                        /\ x <= made'
                        /\ x \notin inherited
                        /\ \A d \in Creators : Pending(d)' /\ creator'[d].key = x => d = e
                        /\ \A n \in Names : Exists(n) => table[n].key # x
                        /\ \A d \in Clients : client[d] # Idle => client[d].key # x
                        /\ admitted[x] = 0
    BY <1>1 DEF PendingInv, Exists
  <2>1. CASE e = c
    <3>1. creator'[e].key = k  BY <1>2, <2>1
    <3>2. \A d \in Creators : Pending(d)' /\ creator'[d].key = k => d = c
      BY <1>1, <1>3, <1>4
    <3>3. \A n \in Names : Exists(n) => table[n].key # k  BY <1>1, <1>5
    <3>4. \A d \in Clients : client[d] # Idle => client[d].key # k  BY <1>1, <1>6
    <3>5. k <= made'  BY <1>1, Numbers
    <3> QED  BY <1>7, <2>1, <3>1, <3>2, <3>3, <3>4, <3>5
  <2>2. CASE e # c
    <3>1. Pending(e) /\ creator'[e].key = creator[e].key  BY <1>3, <2>2
    <3>2. creator[e].key <= made /\ creator[e].key # k  BY <1>1, <1>4, <3>1
    <3>3. \A d \in Creators : Pending(d)' /\ creator'[d].key = creator[e].key => d = e
      BY <1>2, <1>3, <3>1, <3>2 DEF KeyInv, PendingInv
    <3>4. creator[e].key <= made'  BY <1>1, <1>4, <3>1, Numbers
    <3> QED  BY <3>1, <3>3, <3>4 DEF KeyInv, PendingInv
  <2> QED  BY <2>1, <2>2
<1>9. MadeInv'
  <2>1. \A x \in Keys : x > made' => x > made  BY <1>1, Numbers
  <2>2. \A x \in Keys : x > made' => x \notin inherited' /\ admitted'[x] = 0
    BY <1>1, <2>1 DEF KeyInv, MadeInv
  <2>3. \A n \in Names : Exists(n)' => table'[n].key <= made'
    BY <1>1, <1>5, Numbers DEF Exists
  <2>4. \A n, m \in Names : Exists(n)' /\ Exists(m)' /\ table'[n].key = table'[m].key => n = m
    BY <1>1 DEF KeyInv, MadeInv, Exists
  <2> QED  BY <2>2, <2>3, <2>4 DEF MadeInv
<1>10. ClientInv'
  <2>1. \A d \in Clients : client[d] # Idle => client[d].key <= made'  BY <1>1, <1>6, Numbers
  <2> QED  BY <1>1, <2>1 DEF KeyInv, ClientInv, Exists
<1>11. UsesCounted' /\ CountInv'  BY <1>1 DEF KeyInv, UsesCounted, CountInv, Exists
<1>12. RefusedOnlyInRace'  BY <1>1, <1>2 DEF RefusedOnlyInRace, Exists
<1> QED  BY <1>8, <1>9, <1>10, <1>11, <1>12 DEF KeyInv

\* A name is looked for.
LEMMA CountStep ==
  ASSUME TypeOK, KeyInv, RefusedOnlyInRace, NEW c \in Creators, CountName(c)
  PROVE  KeyInv' /\ RefusedOnlyInRace'
<1>1. UNCHANGED <<table, made, client, admitted, uncounted, inherited>>
  BY DEF CountName, clientVars
<1>2. creator[c] \in Creator  BY Shapes DEF CountName
<1>3. /\ creator'[c].key = creator[c].key
      /\ creator'[c].stage = "insert" => ~Exists(creator'[c].name)
      /\ \A d \in Creators : d # c => creator'[d] = creator[d]
  BY <1>2 DEF CountName, TypeOK, Creator
<1>4. Pending(c)  BY DEF CountName, Pending, Idle
<1>5. \A d \in Creators : Pending(d)' => Pending(d) /\ creator'[d].key = creator[d].key
  BY <1>3, <1>4 DEF Pending
<1>6. PendingInv'  BY <1>1, <1>5 DEF KeyInv, PendingInv, Exists
<1>7. MadeInv' /\ ClientInv' /\ CountInv' /\ UsesCounted'
  BY <1>1 DEF KeyInv, MadeInv, ClientInv, CountInv, UsesCounted, Exists
<1>8. RefusedOnlyInRace'  BY <1>1, <1>3 DEF RefusedOnlyInRace, Exists
<1> QED  BY <1>6, <1>7, <1>8 DEF KeyInv

\* A key gets its row: nobody knew it, and whoever holds the name makes it an
\* inherited one.
LEMMA InsertStep ==
  ASSUME TypeOK, KeyInv, RefusedOnlyInRace, NEW c \in Creators, Insert(c)
  PROVE  KeyInv' /\ RefusedOnlyInRace'
<1> DEFINE n == creator[c].name k == creator[c].key
<1>1. /\ creator[c] \in Creator /\ n \in Names /\ k \in Keys /\ Pending(c)
      /\ creator[c].stage = "insert"
  BY Shapes DEF Insert, Creator, Pending, Idle
<1>2. ~Exists(n) /\ UNCHANGED <<made, client, admitted, uncounted>>  BY DEF Insert, clientVars
<1>3. table'[n] = [key |-> k, enabled |-> TRUE, uses |-> 0] /\ table'[n] # NoKey
  <2>1. table'[n] = [key |-> k, enabled |-> TRUE, uses |-> 0]  BY <1>1 DEF Insert, TypeOK
  <2>2. [key |-> k, enabled |-> TRUE, uses |-> 0] \in Row  BY <1>1 DEF Row
  <2> QED  BY <2>1, <2>2, NoKeyAssumption
<1>4. \A m \in Names : m # n => table'[m] = table[m]  BY <1>1 DEF Insert, TypeOK
<1>5. \A d \in Creators : Pending(d)' =>
        /\ d # c /\ Pending(d) /\ creator'[d].key = creator[d].key
  <2> SUFFICES ASSUME NEW d \in Creators, Pending(d)'
               PROVE  d # c /\ Pending(d) /\ creator'[d].key = creator[d].key
    OBVIOUS
  <2>1. d # c  BY <1>1 DEF Insert, TypeOK, Pending, Creator
  <2>2. CASE d \in Racing(n)
    <3>1. creator[d] \in Creator  BY <2>2, Shapes DEF Racing
    <3>2. creator'[d] = [creator[d] EXCEPT !.raced = TRUE]  BY <2>1, <2>2 DEF Insert
    <3> QED  BY <2>1, <2>2, <3>1, <3>2 DEF Pending, Creator, Racing, Idle
  <2>3. CASE d \notin Racing(n)
    <3>1. creator'[d] = creator[d]  BY <2>1, <2>3 DEF Insert
    <3> QED  BY <2>1, <3>1 DEF Pending
  <2> QED  BY <2>2, <2>3
<1>6. \A d \in Creators : creator'[d].stage = "insert" =>
        /\ creator[d].stage = "insert" /\ creator'[d].name = creator[d].name
        /\ creator[d].raced => creator'[d].raced
        /\ creator[d].name = n => creator'[d].raced
  <2> SUFFICES ASSUME NEW d \in Creators, creator'[d].stage = "insert"
               PROVE  /\ creator[d].stage = "insert" /\ creator'[d].name = creator[d].name
                      /\ creator[d].raced => creator'[d].raced
                      /\ creator[d].name = n => creator'[d].raced
    OBVIOUS
  <2>1. d # c  BY <1>1 DEF Insert, TypeOK, Creator
  <2>2. CASE d \in Racing(n)
    <3>1. creator[d] \in Creator  BY <2>2, Shapes DEF Racing
    <3>2. creator'[d] = [creator[d] EXCEPT !.raced = TRUE]  BY <2>1, <2>2 DEF Insert
    <3> QED  BY <2>2, <3>1, <3>2 DEF Creator, Racing
  <2>3. CASE d \notin Racing(n)
    <3>1. creator'[d] = creator[d]  BY <2>1, <2>3 DEF Insert
    <3> QED  BY <2>3, <3>1 DEF Racing
  <2> QED  BY <2>2, <2>3
<1>7. /\ inherited' = IF HeldName(n) THEN inherited \cup {k} ELSE inherited
      /\ k <= made /\ k \notin inherited /\ admitted[k] = 0
      /\ \A m \in Names : Exists(m) => table[m].key # k
      /\ \A d \in Clients : client[d] # Idle => client[d].key # k
      /\ \A d \in Creators : Pending(d) /\ creator[d].key = k => d = c
  BY <1>1 DEF Insert, KeyInv, PendingInv
<1>8. \A m \in Names : m # n /\ Exists(m)' => Exists(m) /\ table'[m] = table[m]
  BY <1>4 DEF Exists
<1>9. \A d \in Clients : client[d] # Idle /\ client[d].name = n => k \in inherited'
  BY <1>7 DEF HeldName
<1>10. made \in Nat /\ k \in Nat  BY <1>1, Numbers DEF TypeOK, Keys
<1> HIDE DEF n, k
<1>11. PendingInv'
  <2> SUFFICES ASSUME NEW e \in Creators, Pending(e)'
               PROVE  LET x == creator'[e].key IN
                        /\ x <= made
                        /\ x \notin inherited'
                        /\ \A d \in Creators : Pending(d)' /\ creator'[d].key = x => d = e
                        /\ \A m \in Names : Exists(m)' => table'[m].key # x
                        /\ \A d \in Clients : client[d] # Idle => client[d].key # x
                        /\ admitted[x] = 0
    BY <1>2 DEF PendingInv
  <2>1. e # c /\ Pending(e) /\ creator'[e].key = creator[e].key  BY <1>5
  <2>2. creator[e].key # k  BY <1>7, <2>1
  <2>3. creator[e].key \notin inherited'  BY <1>7, <2>1, <2>2 DEF KeyInv, PendingInv
  <2>4. \A d \in Creators : Pending(d)' /\ creator'[d].key = creator[e].key => d = e
    BY <1>5, <2>1 DEF KeyInv, PendingInv
  <2>5. \A m \in Names : Exists(m)' => table'[m].key # creator[e].key
    BY <1>3, <1>8, <2>1, <2>2 DEF KeyInv, PendingInv
  <2> QED  BY <2>1, <2>3, <2>4, <2>5 DEF KeyInv, PendingInv
<1>12. MadeInv'
  <2>1. \A x \in Keys : x > made => x \notin inherited' /\ admitted[x] = 0
    <3> SUFFICES ASSUME NEW x \in Keys, x > made
                 PROVE  x \notin inherited' /\ admitted[x] = 0
      OBVIOUS
    <3>1. x \notin inherited /\ admitted[x] = 0  BY DEF KeyInv, MadeInv
    <3>2. x \in Nat /\ k <= made  BY <1>7, Numbers
    <3>3. x # k  BY <3>2, <1>10
    <3>4. inherited' \subseteq inherited \cup {k}  BY <1>7
    <3> QED  BY <3>1, <3>3, <3>4
  <2>2. \A m \in Names : Exists(m)' => table'[m].key <= made
    BY <1>3, <1>7, <1>8 DEF KeyInv, MadeInv
  <2>3. \A m, l \in Names : Exists(m)' /\ Exists(l)' /\ table'[m].key = table'[l].key => m = l
    BY <1>3, <1>7, <1>8 DEF KeyInv, MadeInv
  <2> QED  BY <1>2, <2>1, <2>2, <2>3 DEF MadeInv
<1>13. ClientInv'
  <2> SUFFICES ASSUME NEW d \in Clients, client[d] # Idle
               PROVE  /\ client[d].key <= made
                      /\ \A m \in Names : Exists(m)' /\ table'[m].key = client[d].key
                                            => m = client[d].name
                      /\ table'[client[d].name] # NoKey
                           /\ table'[client[d].name].key # client[d].key
                           => table'[client[d].name].key \in inherited'
    BY <1>2 DEF ClientInv, Exists
  <2>1. client[d].name \in Names  BY Shapes DEF Client
  <2>2. \A m \in Names : Exists(m)' /\ table'[m].key = client[d].key => m = client[d].name
    BY <1>3, <1>7, <1>8 DEF KeyInv, ClientInv
  <2>3. CASE client[d].name = n
    BY <1>3, <1>9, <2>2, <2>3 DEF KeyInv, ClientInv
  <2>4. CASE client[d].name # n
    <3>1. table'[client[d].name] = table[client[d].name]  BY <1>4, <2>1, <2>4
    <3>2. Exists(client[d].name) /\ table[client[d].name].key # client[d].key
            => table[client[d].name].key \in inherited
      BY DEF KeyInv, ClientInv
    <3>3. client[d].key <= made  BY DEF KeyInv, ClientInv
    <3> QED  BY <1>7, <2>2, <3>1, <3>2, <3>3 DEF Exists
  <2> QED  BY <2>3, <2>4
<1>14. UsesCounted'
  <2> SUFFICES ASSUME NEW m \in Names, Exists(m)', table'[m].key \notin inherited'
               PROVE  table'[m].uses + uncounted[table'[m].key] = admitted[table'[m].key]
    BY <1>2 DEF UsesCounted
  <2>3. uncounted[k] = 0
    BY <1>1, <1>7 DEF TypeOK, KeyInv, CountInv
  <2>1. CASE m = n  BY <1>3, <1>7, <2>1, <2>3
  <2>2. CASE m # n  BY <1>7, <1>8, <2>2 DEF KeyInv, UsesCounted
  <2> QED  BY <2>1, <2>2
<1>15. RefusedOnlyInRace'
  BY <1>1, <1>6, <1>8, Shapes DEF RefusedOnlyInRace, Creator
<1>16. CountInv'  BY <1>2 DEF KeyInv, CountInv
<1> QED  BY <1>11, <1>12, <1>13, <1>14, <1>15, <1>16 DEF KeyInv

\* A client shows the key of a row.
LEMMA AuthenticateStep ==
  ASSUME TypeOK, KeyInv, RefusedOnlyInRace, NEW c \in Clients, NEW k \in Keys, Authenticate(c, k)
  PROVE  KeyInv' /\ RefusedOnlyInRace'
<1>1. PICK n \in Names :
        /\ Exists(n) /\ table[n].key = k
        /\ client' = [client EXCEPT ![c] = [stage |-> "count", key |-> k, name |-> n]]
  BY DEF Authenticate
<1>2. UNCHANGED <<table, made, creator, admitted, uncounted, inherited>>
  BY DEF Authenticate, keyVars
<1>3. /\ client'[c] = [stage |-> "count", key |-> k, name |-> n]
      /\ \A d \in Clients : d # c => client'[d] = client[d]
  BY <1>1 DEF TypeOK
<1>4. PendingInv'
  <2>1. \A e \in Creators : Pending(e) => creator[e].key # k
    BY <1>1 DEF KeyInv, PendingInv
  <2> QED  BY <1>2, <1>3, <2>1 DEF KeyInv, PendingInv, Pending, Exists
<1>5. MadeInv' /\ CountInv' /\ UsesCounted'
  BY <1>2 DEF KeyInv, MadeInv, CountInv, UsesCounted, Exists
<1>6. ClientInv'
  <2>1. k <= made /\ \A m \in Names : Exists(m) /\ table[m].key = k => m = n
    BY <1>1 DEF KeyInv, MadeInv
  <2> QED  BY <1>1, <1>2, <1>3, <2>1 DEF KeyInv, ClientInv, Exists
<1>7. RefusedOnlyInRace'  BY <1>2 DEF RefusedOnlyInRace, Exists
<1> QED  BY <1>4, <1>5, <1>6, <1>7 DEF KeyInv

\* A use is counted: for the key itself, or an inherited one.
LEMMA UseStep ==
  ASSUME TypeOK, KeyInv, RefusedOnlyInRace, NEW c \in Clients, NEW ok \in BOOLEAN, CountUse(c, ok)
  PROVE  KeyInv' /\ RefusedOnlyInRace'
<1> DEFINE n == client[c].name k == client[c].key
<1>1. client[c] # Idle /\ n \in Names /\ k \in Keys  BY Shapes DEF CountUse, Client
<1>2. UNCHANGED <<made, creator, inherited>>  BY DEF CountUse
<1>3. /\ client'[c] = Idle
      /\ \A d \in Clients : d # c => client'[d] = client[d]
  BY DEF CountUse, TypeOK
<1>4. /\ admitted'[k] = admitted[k] + 1
      /\ \A x \in Keys : x # k => admitted'[x] = admitted[x]
  BY <1>1 DEF CountUse, TypeOK
<1>17. /\ uncounted'[k] = IF ok THEN uncounted[k] ELSE uncounted[k] + 1
       /\ \A x \in Keys : x # k => uncounted'[x] = uncounted[x]
       /\ \A x \in Keys : uncounted[x] \in Nat /\ admitted[x] \in Nat
  BY <1>1 DEF CountUse, TypeOK
<1>5. /\ ok /\ Exists(n) => table'[n] = [table[n] EXCEPT !.uses = table[n].uses + 1]
      /\ \A m \in Names : m # n => table'[m] = table[m]
      /\ ~ok \/ ~Exists(n) => table'[n] = table[n]
  BY <1>1 DEF CountUse, Used, TypeOK, Exists
<1>6. \A m \in Names : Exists(m)' => Exists(m) /\ table'[m].key = table[m].key
                                    /\ (m # n => table'[m].uses = table[m].uses)
  <2> SUFFICES ASSUME NEW m \in Names, Exists(m)'
               PROVE  Exists(m) /\ table'[m].key = table[m].key
                      /\ (m # n => table'[m].uses = table[m].uses)
    OBVIOUS
  <2>1. Exists(m)  BY <1>5 DEF Exists
  <2>2. table[m] \in Row  BY <2>1, Shapes
  <2> QED  BY <1>5, <2>1, <2>2 DEF Row
<1>7. \A m \in Names : Exists(m) =>
        table[m] \in Row /\ table[m].key \in Keys /\ table[m].uses \in Nat
  BY Shapes DEF Row
<1>8. Exists(n) => table'[n].uses = IF ok THEN table[n].uses + 1 ELSE table[n].uses
  BY <1>1, <1>5, <1>7 DEF Row
<1>9. /\ k <= made
      /\ \A m \in Names : Exists(m) /\ table[m].key = k => m = n
      /\ Exists(n) /\ table[n].key # k => table[n].key \in inherited
  BY <1>1 DEF KeyInv, ClientInv
<1>10. \A e \in Creators : Pending(e) => creator[e].key # k /\ creator[e].key \in Keys
  BY <1>1, Shapes DEF KeyInv, PendingInv, Pending, Creator
<1>11. made \in Nat /\ k \in Nat  BY <1>1, Numbers DEF TypeOK, Keys
<1> HIDE DEF n, k
<1>12. PendingInv'
  BY <1>2, <1>3, <1>4, <1>6, <1>10 DEF KeyInv, PendingInv, Pending
<1>13. MadeInv'
  <2>1. \A x \in Keys : x > made => x \notin inherited /\ admitted'[x] = 0
    BY <1>4, <1>9, <1>11, Numbers DEF KeyInv, MadeInv
  <2> QED  BY <1>2, <1>6, <2>1 DEF KeyInv, MadeInv
<1>14. ClientInv'
  <2> SUFFICES ASSUME NEW d \in Clients, client'[d] # Idle
               PROVE  /\ client'[d].key <= made
                      /\ \A m \in Names : Exists(m)' /\ table'[m].key = client'[d].key
                                            => m = client'[d].name
                      /\ table'[client'[d].name] # NoKey
                           /\ table'[client'[d].name].key # client'[d].key
                           => table'[client'[d].name].key \in inherited
    BY <1>2 DEF ClientInv, Exists
  <2>1. d # c /\ client'[d] = client[d] /\ client[d] # Idle  BY <1>3
  <2>2. client[d].name \in Names  BY <2>1, Shapes DEF Client
  <2>3. table'[client[d].name] # NoKey => Exists(client[d].name)
                                        /\ table'[client[d].name].key = table[client[d].name].key
    BY <1>6, <2>2 DEF Exists
  <2> QED  BY <1>6, <2>1, <2>3 DEF KeyInv, ClientInv
<1>15. UsesCounted'
  <2> SUFFICES ASSUME NEW m \in Names, Exists(m)', table'[m].key \notin inherited
               PROVE  table'[m].uses + uncounted'[table'[m].key] = admitted'[table'[m].key]
    BY <1>2 DEF UsesCounted
  <2>1. Exists(m) /\ table'[m].key = table[m].key /\ table[m].key \in Keys
    BY <1>6, <1>7
  <2>2. table[m].uses + uncounted[table[m].key] = admitted[table[m].key]
    BY <1>2, <2>1 DEF KeyInv, UsesCounted
  <2>3. CASE m = n
    <3>1. table[n].key = k  BY <1>2, <1>9, <2>1, <2>3
    <3>2. table[n].uses + uncounted[k] = admitted[k] /\ Exists(n)  BY <2>1, <2>2, <2>3, <3>1
    <3>3. table'[n].uses + uncounted'[k] = admitted'[k]
      BY <1>1, <1>4, <1>7, <1>8, <1>17, <3>2
    <3> QED  BY <2>1, <2>3, <3>1, <3>3
  <2>4. CASE m # n
    <3>1. table[m].key # k  BY <1>9, <2>1, <2>4
    <3> QED  BY <1>4, <1>6, <1>17, <2>1, <2>2, <2>4, <3>1
  <2> QED  BY <2>3, <2>4
<1>16. RefusedOnlyInRace'
  BY <1>2, <1>6, Shapes DEF RefusedOnlyInRace, Creator
<1>18. CountInv'
  <2> SUFFICES ASSUME NEW x \in Keys PROVE uncounted'[x] <= admitted'[x]  BY DEF CountInv
  <2>1. uncounted[x] <= admitted[x]  BY DEF KeyInv, CountInv
  <2> QED  BY <1>4, <1>17, <2>1
<1> QED  BY <1>12, <1>13, <1>14, <1>15, <1>16, <1>18 DEF KeyInv

LEMMA KeyStepInv ==
  TypeOK /\ KeyInv /\ RefusedOnlyInRace /\ [Next]_vars => KeyInv' /\ RefusedOnlyInRace'
<1> SUFFICES ASSUME TypeOK, KeyInv, RefusedOnlyInRace, [Next]_vars
             PROVE  KeyInv' /\ RefusedOnlyInRace'
  OBVIOUS
<1>1. ASSUME NEW c \in Creators, CreatorStep(c) PROVE KeyInv' /\ RefusedOnlyInRace'
  <2>1. CASE InsertRefused(c) \/ ReadBack(c)
    BY <1>1, <2>1, LessStep DEF InsertRefused, ReadBack, TypeOK, Exists, clientVars
  <2> QED  BY <1>1, <2>1, CreateStep, CountStep, InsertStep DEF CreatorStep
<1>2. ASSUME NEW n \in Names, NEW on \in BOOLEAN, SetEnabled(n, on)
      PROVE  KeyInv' /\ RefusedOnlyInRace'
  <2>1. \A m \in Names : Exists(m)' =>
           Exists(m) /\ table'[m].key = table[m].key /\ table'[m].uses = table[m].uses
    <3> SUFFICES ASSUME NEW m \in Names, Exists(m)'
                 PROVE  Exists(m) /\ table'[m].key = table[m].key /\ table'[m].uses = table[m].uses
      OBVIOUS
    <3>1. Exists(m)  BY <1>2 DEF SetEnabled, TypeOK, Exists
    <3>2. table[m] \in Row  BY <3>1, Shapes
    <3> QED  BY <1>2, <3>1, <3>2 DEF SetEnabled, TypeOK, Row
  <2> QED  BY <1>2, <2>1, LessStep DEF SetEnabled, clientVars
<1>3. ASSUME NEW n \in Names, DeleteKey(n) PROVE KeyInv' /\ RefusedOnlyInRace'
  <2>1. \A m \in Names : Exists(m)' =>
           Exists(m) /\ table'[m].key = table[m].key /\ table'[m].uses = table[m].uses
    BY <1>3 DEF DeleteKey, TypeOK, Exists
  <2> QED  BY <1>3, <2>1, LessStep DEF DeleteKey, clientVars
<1>4. ASSUME NEW c \in Clients, ClientStep(c) PROVE KeyInv' /\ RefusedOnlyInRace'
  BY <1>4, AuthenticateStep, UseStep DEF ClientStep
<1>5. CASE Restart
  BY <1>5, LessStep DEF Restart, TypeOK, Exists
<1>6. CASE UNCHANGED <<keyVars, clientVars, inherited>>
  BY <1>6, LessStep DEF keyVars, clientVars, TypeOK, Exists
<1> QED
  BY <1>1, <1>2, <1>3, <1>4, <1>5, <1>6
  DEF Next, LoginStep, KeyStep, vars, Login, WrongPassword, RightPassword, Tick

-----------------------------------------------------------------------------
\* The invariant of the server's two doors, for any bounds.
THEOREM Invariance == Spec => []Inv
<1>1. Inv /\ [Next]_vars => Inv'  BY TypeStep, ThrottleStep, KeyStepInv DEF Inv
<1> QED  BY <1>1, InitInv, PTL DEF Spec

\* Every variable of Access stays in its range.
THEOREM AccessTypes == Spec => []TypeOK
BY Invariance, PTL DEF Inv

\* While an address is barred no password of it is compared, but for logins
\* that had passed the check (handleAdminLogin, loginThrottle).
THEOREM BlocksHold == Spec => []BlockHolds
BY Invariance, PTL DEF Inv

\* A local key is charged with what it let through, but for failed UPDATEs and
\* unless it inherited a name in use (AuthenticateLocalKey, CreateLocalKey, DeleteLocalKey).
THEOREM KeysAreCharged == Spec => []UsesCounted
BY Invariance, PTL DEF Inv, KeyInv

\* A creation is refused in a race only (CreateLocalKey).
THEOREM CreationsRace == Spec => []RefusedOnlyInRace
BY Invariance, PTL DEF Inv
=============================================================================
