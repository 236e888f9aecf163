-------------------------- MODULE DeviceAuthProofs --------------------------
(***************************************************************************)
(* DeviceAuth for any set of owners, any number of requests and any bound: *)
(* every credential ends in the row it was meant for, and none that was    *)
(* handed over gets lost on the way.                                       *)
(***************************************************************************)
EXTENDS DeviceAuth, TLAPS

\* Ids are never used again, so what was found out about an account stays true
\* as long as it exists; and two accounts have two addresses.
Meant(s, i, email) ==
  /\ i \in Ids /\ i < nextId
  /\ login[s].kind = "device" => i = login[s].account
  /\ login[s].kind = "oneclick" =>
       /\ email \in {MailOf(login[s].owner), FallbackOf(login[s].device)}
       /\ row[i] # NoRow => row[i].email = email

IdInv ==
  /\ \A i \in Ids : i >= nextId => row[i] = NoRow
  /\ \A i, j \in Accounts : i # j => row[i].email # row[j].email

\* A login is started once, approved once, and belongs to its account.
LoginInv ==
  \A s \in Logins :
    /\ s > started => login[s] = NoLogin
    /\ login[s].device \in {0, s}
    /\ login[s].kind = "device" =>
         LET i == login[s].account IN
           i \in Ids /\ i < nextId /\ (row[i] # NoRow => row[i].email = login[s].email)

\* The two maps hold logins of their kind.
MapInv ==
  /\ \A i \in Ids : pending[i] # 0 =>
       login[pending[i]].kind = "device" /\ login[pending[i]].account = i
  /\ \A s \in oneClick : login[s].kind = "oneclick"

\* What a request knows at each of its steps.
Knows(c) ==
  LET k == confirm[c] s == confirm[c].login IN
    /\ s \in Logins /\ login[s].kind \in {"device", "oneclick"}
    /\ login[s].kind = "device" =>
         k.step \in {"poll", "drop", "save", "import", "finish"} /\ Meant(s, k.id, k.email)
    /\ login[s].kind = "oneclick" =>
         /\ k.step # "drop"
         /\ k.step \in {"add", "find"} =>
              k.email \in {MailOf(login[s].owner), FallbackOf(login[s].device)}
         /\ k.step \in {"save", "import", "finish"} => Meant(s, k.id, k.email)
         /\ s \in oneClick \cup stored \cup lost
    /\ k.step # "poll" => login[s].owner # Nobody
    /\ k.step \in {"import", "finish"} =>
         s \in stored \cup lost /\ (s \in stored \/ row[k.id] = NoRow)

ConfirmInv == \A c \in Confirms : confirm[c].step # "idle" => Knows(c)

\* A credential in a row was approved and is where it was meant to be.
RowFine(i) ==
  /\ login[row[i].cred].kind \in {"device", "oneclick"}
  /\ login[row[i].cred].owner # Nobody
  /\ Meant(row[i].cred, i, row[i].email)

RowInv == \A i \in Accounts : row[i].cred # 0 => RowFine(i)

\* What the page was told.
ToldInv == \A t \in told : t[2] \in Ids /\ t[2] < nextId

Inv ==
  /\ TypeOK /\ IdInv /\ LoginInv /\ MapInv /\ ConfirmInv /\ RowInv /\ ToldInv
  /\ NothingBeforeTheCredential /\ HandedOverIsKept

-----------------------------------------------------------------------------
\* The bounds of ids and logins are numbers.
LEMMA Numbers ==
  /\ MaxId \in Nat /\ MaxLogins \in Nat /\ MaxEvents \in Nat
  /\ Ids \subseteq Int /\ Logins \subseteq Int /\ 0 \notin Ids /\ 0 \notin Logins
BY DeviceAuthAssumption DEF Ids, Logins

\* Addresses are addresses, and the ones of two owners differ from each other
\* and from all made-up ones.
LEMMA Addresses ==
  /\ NoAddress \in Address
  /\ \A o \in Owners : MailOf(o) \in Address
  /\ \A d \in 0 .. MaxLogins : FallbackOf(d) \in Address
  /\ \A o, p \in Owners : o # p => MailOf(o) # MailOf(p)
  /\ \A o \in Owners, d \in 0 .. MaxLogins : MailOf(o) # FallbackOf(d)
  /\ \A d, e \in 0 .. MaxLogins : d # e => FallbackOf(d) # FallbackOf(e)
BY DeviceAuthAssumption DEF Address, MailOf, FallbackOf, NoAddress

\* The records that stand for nothing are none of the real ones.
LEMMA NoRecords == NoRow \notin Row /\ NoLogin \notin Login /\ Idle \in Confirm
<1>1. NoAddress \in Address  BY Addresses
<1>2. 0 \in 0 .. MaxLogins /\ 0 \in 0 .. MaxId  BY Numbers
<1> QED  BY <1>1, <1>2, Numbers DEF NoRow, Row, NoLogin, Login, Idle, Confirm

\* An insertion makes a row nobody can have known about.
LEMMA Inserted ==
  ASSUME TypeOK, IdInv, NEW email \in Address, ~Known(email), Insert(email)
  PROVE  /\ nextId \in Ids /\ nextId' = nextId + 1 /\ row[nextId] = NoRow
         /\ row'[nextId] = [email |-> email, cred |-> 0]
         /\ \A i \in Ids : i # nextId => row'[i] = row[i]
         /\ row' \in [Ids -> Row \cup {NoRow}]
         /\ nextId' \in 1 .. MaxId + 1
         /\ IdInv'
<1>1. nextId \in Ids /\ nextId' = nextId + 1 /\ row[nextId] = NoRow
  BY Numbers DEF Insert, IdInv
<1>2. [email |-> email, cred |-> 0] \in Row  BY Numbers DEF Row
<1>3. /\ row'[nextId] = [email |-> email, cred |-> 0]
      /\ \A i \in Ids : i # nextId => row'[i] = row[i]
      /\ row' \in [Ids -> Row \cup {NoRow}]
  BY <1>1, <1>2 DEF Insert, TypeOK
<1>4. nextId' \in 1 .. MaxId + 1  BY <1>1, Numbers DEF Ids
<1>5. \A i \in Ids : i >= nextId' => row'[i] = NoRow
  BY <1>1, <1>3, Numbers DEF IdInv, TypeOK
<1>6. \A i, j \in Ids : row'[i] # NoRow /\ row'[j] # NoRow /\ i # j => row'[i].email # row'[j].email
  <2>1. row'[nextId].email = email  BY <1>3
  <2>2. \A i \in Ids : i # nextId /\ row'[i] # NoRow => row'[i].email # email
    BY <1>3 DEF Known, Accounts
  <2> QED  BY <1>3, <2>1, <2>2 DEF IdInv, Accounts
<1> QED  BY <1>1, <1>3, <1>4, <1>5, <1>6 DEF IdInv, Accounts

\* The server starts with nothing.
LEMMA InitInv == Init => Inv
<1> SUFFICES ASSUME Init PROVE Inv  OBVIOUS
<1> USE Numbers, NoRecords DEF Init
<1>1. TypeOK  BY DEF TypeOK
<1>2. Accounts = {}  BY DEF Accounts
<1>3. IdInv /\ RowInv  BY <1>2 DEF IdInv, RowInv
<1>4. LoginInv  BY DEF LoginInv, NoLogin
<1>5. MapInv /\ ToldInv /\ NothingBeforeTheCredential /\ HandedOverIsKept
  BY DEF MapInv, ToldInv, NothingBeforeTheCredential, HandedOverIsKept
<1>6. ConfirmInv  BY DEF ConfirmInv, Idle
<1> QED  BY <1>1, <1>3, <1>4, <1>5, <1>6 DEF Inv

-----------------------------------------------------------------------------
\* The records of requests.
LEMMA ConfirmRecords ==
  /\ \A step \in {"poll", "drop", "me", "add", "find"}, s \in 0 .. MaxLogins,
         i \in 0 .. MaxId, email \in Address :
       [step |-> step, login |-> s, id |-> i, email |-> email] \in Confirm
  /\ \A step \in {"save", "import", "finish"}, s \in Logins, i \in Ids, email \in Address :
       [step |-> step, login |-> s, id |-> i, email |-> email] \in Confirm
BY DEF Confirm

\* A request that takes a step is somewhere, and what it holds has its types.
LEMMA ConfirmTypes ==
  ASSUME TypeOK, ConfirmInv, NEW c \in Confirms
  PROVE  /\ confirm[c] \in Confirm
         /\ confirm[c].step # "idle" => TheLogin(c) \in Logins
         /\ confirm[c].login \in 0 .. MaxLogins /\ confirm[c].id \in 0 .. MaxId
         /\ confirm[c].email \in Address
         /\ \A step \in {"poll", "drop", "me", "add", "find"} :
              TheLogin(c) \in Logins =>
                [confirm[c] EXCEPT !.step = step] \in Confirm
         /\ \A step \in {"save", "import", "finish"} :
              TheLogin(c) \in Logins /\ confirm[c].id \in Ids =>
                [confirm[c] EXCEPT !.step = step] \in Confirm
<1>1. confirm[c] \in Confirm  BY DEF TypeOK
<1>2. /\ confirm[c].login \in 0 .. MaxLogins /\ confirm[c].id \in 0 .. MaxId
      /\ confirm[c].email \in Address
  BY <1>1, Numbers DEF Confirm, Ids, Logins
<1>3. confirm[c] = [step |-> confirm[c].step, login |-> confirm[c].login,
                    id |-> confirm[c].id, email |-> confirm[c].email]
  BY <1>1 DEF Confirm
<1>4. \A step \in {"poll", "drop", "me", "add", "find"} :
        [confirm[c] EXCEPT !.step = step] \in Confirm
  BY <1>2, <1>3 DEF Confirm
<1>5. \A step \in {"save", "import", "finish"} :
        TheLogin(c) \in Logins /\ confirm[c].id \in Ids =>
          [confirm[c] EXCEPT !.step = step] \in Confirm
  BY <1>2, <1>3 DEF Confirm, TheLogin
<1> QED  BY <1>1, <1>2, <1>4, <1>5 DEF ConfirmInv, Knows, TheLogin

\* A new login is a login.
LEMMA NewTypes ==
  ASSUME TypeOK, NEW l \in Login, New(l)
  PROVE  /\ started + 1 \in Logins /\ started' = started + 1
         /\ started' \in 0 .. MaxLogins
         /\ login' = [login EXCEPT ![started + 1] = l]
         /\ login' \in [Logins -> Login \cup {NoLogin}]
         /\ recent' \in SUBSET Logins
<1>1. started + 1 \in Logins /\ started' = started + 1 /\ started' \in 0 .. MaxLogins
  BY Numbers DEF New, TypeOK, Logins
<1> QED  BY <1>1 DEF New, TypeOK

\* The records of the two kinds of logins.
LEMMA LoginTypes ==
  /\ \A i \in Ids, email \in Address :
       [NoLogin EXCEPT !.kind = "device", !.account = i, !.email = email] \in Login
  /\ [NoLogin EXCEPT !.kind = "oneclick"] \in Login
<1>1. 0 \in 0 .. MaxLogins /\ 0 \in 0 .. MaxId /\ Ids \subseteq 0 .. MaxId
  BY Numbers DEF Ids
<1> QED  BY <1>1, Addresses DEF NoLogin, Login

\* A step keeps the types.
LEMMA TypeStep == Inv /\ [Next]_vars => TypeOK'
<1> SUFFICES ASSUME Inv, [Next]_vars PROVE TypeOK'  OBVIOUS
<1>0. TypeOK /\ IdInv /\ ConfirmInv  BY DEF Inv
<1> USE DEF history, server
<1>1. CASE UNCHANGED vars  BY <1>0, <1>1 DEF vars, TypeOK
<1>2. ASSUME NEW o \in Owners, AddAccount(o) PROVE TypeOK'
  <2>1. MailOf(o) \in Address  BY Addresses
  <2>2. row' \in [Ids -> Row \cup {NoRow}] /\ nextId' \in 1 .. MaxId + 1
    BY <1>0, <1>2, <2>1, Inserted DEF AddAccount
  <2> QED  BY <1>0, <1>2, <2>2 DEF AddAccount, TypeOK
<1>3. ASSUME NEW i \in Ids, DeleteAccount(i) PROVE TypeOK'
  BY <1>0, <1>3, Numbers DEF DeleteAccount, Happens, TypeOK
<1>4. ASSUME NEW i \in Ids, DeviceStart(i) PROVE TypeOK'
  <2>1. row[i].email \in Address  BY <1>0, <1>4 DEF DeviceStart, TypeOK, Row
  <2>2. [NoLogin EXCEPT !.kind = "device", !.account = i, !.email = row[i].email] \in Login
    BY <2>1, LoginTypes
  <2>3. /\ started + 1 \in Logins /\ started' \in 0 .. MaxLogins
        /\ login' \in [Logins -> Login \cup {NoLogin}] /\ recent' \in SUBSET Logins
    BY <1>0, <1>4, <2>2, NewTypes DEF DeviceStart
  <2>4. pending' \in [Ids -> 0 .. MaxLogins]
    BY <1>0, <1>4, <2>3, Numbers DEF DeviceStart, TypeOK, Logins
  <2> QED  BY <1>0, <1>4, <2>3, <2>4 DEF DeviceStart, TypeOK
<1>5. CASE OneClickStart
  <2>1. /\ started + 1 \in Logins /\ started' \in 0 .. MaxLogins
        /\ login' \in [Logins -> Login \cup {NoLogin}] /\ recent' \in SUBSET Logins
    BY <1>0, <1>5, LoginTypes, NewTypes DEF OneClickStart
  <2> QED  BY <1>0, <1>5, <2>1 DEF OneClickStart, TypeOK
<1>6. ASSUME NEW s \in Logins, NEW o \in Owners, NEW d \in {0, s}, Approve(s, o, d)
      PROVE  TypeOK'
  <2>1. d \in 0 .. MaxLogins  BY Numbers DEF Logins
  <2>2. [login[s] EXCEPT !.owner = o, !.device = d] \in Login
    <3>1. login[s] \in Login  BY <1>0, <1>6 DEF Approve, TypeOK
    <3> QED  BY <2>1, <3>1 DEF Login
  <2>3. login' \in [Logins -> Login \cup {NoLogin}]
    BY <1>0, <1>6, <2>2 DEF Approve, TypeOK
  <2> QED  BY <1>0, <1>6, <2>3 DEF Approve, TypeOK
<1>7. ASSUME NEW c \in Confirms, ConfirmStep(c) PROVE TypeOK'
  <2>0. /\ confirm[c] \in Confirm
        /\ confirm[c].step # "idle" => TheLogin(c) \in Logins
        /\ \A step \in {"poll", "drop", "me", "add", "find"} :
             TheLogin(c) \in Logins => [confirm[c] EXCEPT !.step = step] \in Confirm
        /\ \A step \in {"save", "import", "finish"} :
             TheLogin(c) \in Logins /\ confirm[c].id \in Ids =>
               [confirm[c] EXCEPT !.step = step] \in Confirm
        /\ confirm[c].step \in {"save", "import", "finish"} => confirm[c].id \in Ids
        /\ confirm[c].email \in Address /\ confirm[c].id \in 0 .. MaxId
    <3>1. confirm[c].step \in {"save", "import", "finish"} => confirm[c].id \in Ids
      BY <1>0 DEF TypeOK, Confirm
    <3> QED  BY <1>0, <3>1, ConfirmTypes
  <2>1. ASSUME NEW i \in Ids, DeviceConfirm(c, i) PROVE TypeOK'
    <3>1. pending[i] \in Logins /\ i \in 0 .. MaxId
      BY <1>0, <2>1, Numbers DEF DeviceConfirm, TypeOK, Logins, Ids
    <3>2. [step |-> "poll", login |-> pending[i], id |-> i, email |-> NoAddress] \in Confirm
      <4>1. pending[i] \in 0 .. MaxLogins  BY <3>1, Numbers DEF Logins
      <4> QED  BY <3>1, <4>1, Addresses, ConfirmRecords
    <3> QED  BY <1>0, <2>1, <3>2 DEF DeviceConfirm, TypeOK
  <2>2. ASSUME NEW s \in Logins, OneClickConfirm(c, s) PROVE TypeOK'
    <3>1. [step |-> "poll", login |-> s, id |-> 0, email |-> NoAddress] \in Confirm
      <4>1. s \in 0 .. MaxLogins /\ 0 \in 0 .. MaxId  BY Numbers DEF Logins
      <4> QED  BY <4>1, Addresses, ConfirmRecords
    <3> QED  BY <1>0, <2>2, <3>1 DEF OneClickConfirm, TypeOK
  <2>3. CASE PollInVain(c)
    BY <1>0, <2>3, NoRecords DEF PollInVain, Return, TypeOK
  <2>4. CASE PollApproved(c)
    <3>1. TheLogin(c) \in Logins  BY <2>0, <2>4 DEF PollApproved, At
    <3>2. confirm' \in [Confirms -> Confirm]
      BY <1>0, <2>0, <2>4, <3>1 DEF PollApproved, To, TypeOK
    <3> QED  BY <1>0, <2>4, <3>1, <3>2 DEF PollApproved, TypeOK
  <2>5. CASE Drop(c)
    <3>1. TheLogin(c) \in Logins /\ confirm[c].id \in Ids
      <4>1. confirm[c].step = "drop"  BY <2>5 DEF Drop, At
      <4>2. login[TheLogin(c)].kind = "device"  BY <1>0, <4>1 DEF ConfirmInv, Knows, TheLogin
      <4> QED  BY <1>0, <2>0, <4>1, <4>2 DEF ConfirmInv, Knows, Meant, TheLogin
    <3>2. confirm' \in [Confirms -> Confirm]
      BY <1>0, <2>0, <2>5, <3>1 DEF Drop, To, TypeOK
    <3>3. pending' \in [Ids -> 0 .. MaxLogins]
      <4>1. 0 \in 0 .. MaxLogins  BY Numbers
      <4> QED  BY <1>0, <2>5, <4>1 DEF Drop, TypeOK
    <3> QED  BY <1>0, <2>5, <3>2, <3>3 DEF Drop, TypeOK
  <2>6. CASE AskOwner(c)
    <3>1. /\ TheLogin(c) \in Logins /\ confirm[c].step = "me"
      BY <2>0, <2>6 DEF AskOwner, At
    <3>2. login[TheLogin(c)].owner \in Owners /\ login[TheLogin(c)].device \in 0 .. MaxLogins
      <4>1. login[TheLogin(c)].owner # Nobody  BY <1>0, <3>1 DEF ConfirmInv, Knows, TheLogin
      <4>2. login[TheLogin(c)] \in Login  BY <1>0, <3>1, <4>1 DEF TypeOK, NoLogin
      <4> QED  BY <4>1, <4>2 DEF Login
    <3>3. PICK email \in Address :
            confirm' = [confirm EXCEPT ![c].step = "add", ![c].email = email]
      BY <2>6, <3>2, Addresses DEF AskOwner, Fallback
    <3>4. [confirm[c] EXCEPT !.step = "add", !.email = email] \in Confirm
      <4>1. confirm[c] \in [step : {"idle", "poll", "drop", "me", "add", "find"},
                            login : 0 .. MaxLogins, id : 0 .. MaxId, email : Address]
        BY <2>0, <3>1 DEF Confirm
      <4>2. [confirm[c] EXCEPT !.step = "add", !.email = email]
              \in [step : {"idle", "poll", "drop", "me", "add", "find"},
                   login : 0 .. MaxLogins, id : 0 .. MaxId, email : Address]
        BY <4>1
      <4> QED  BY <4>2 DEF Confirm
    <3> QED  BY <1>0, <2>6, <3>3, <3>4 DEF AskOwner, TypeOK
  <2>7. CASE MakeAccount(c)
    <3>1. TheLogin(c) \in Logins  BY <2>0, <2>7 DEF MakeAccount, At
    <3>2. row' \in [Ids -> Row \cup {NoRow}] /\ nextId' \in 1 .. MaxId + 1
      BY <1>0, <2>0, <2>7, Inserted DEF MakeAccount, InsertOrIgnore, TypeOK
    <3>3. confirm' \in [Confirms -> Confirm]
      BY <1>0, <2>0, <2>7, <3>1 DEF MakeAccount, To, TypeOK
    <3> QED  BY <1>0, <2>7, <3>2, <3>3 DEF MakeAccount, TypeOK
  <2>8. CASE FindAccount(c)
    <3>1. TheLogin(c) \in Logins  BY <2>0, <2>8 DEF FindAccount, At
    <3>2. PICK i \in Accounts : confirm' = [confirm EXCEPT ![c].step = "save", ![c].id = i]
      BY <2>8 DEF FindAccount
    <3>3. [confirm[c] EXCEPT !.step = "save", !.id = i] \in Confirm
      <4>1. confirm[c] \in [step : {"idle", "poll", "drop", "me", "add", "find"},
                            login : 0 .. MaxLogins, id : 0 .. MaxId, email : Address]
        BY <2>0, <2>8 DEF Confirm, FindAccount, At
      <4>2. i \in Ids  BY DEF Accounts
      <4>3. [confirm[c] EXCEPT !.step = "save", !.id = i]
              \in [step : {"save", "import", "finish"}, login : Logins, id : Ids,
                   email : Address]
        BY <3>1, <4>1, <4>2 DEF TheLogin
      <4> QED  BY <4>3 DEF Confirm
    <3> QED  BY <1>0, <2>8, <3>2, <3>3 DEF FindAccount, TypeOK
  <2>9. CASE FindNothing(c)
    BY <1>0, <2>9, NoRecords DEF FindNothing, Return, TypeOK
  <2>10. CASE SaveFails(c)
    <3>1. TheLogin(c) \in Logins  BY <2>0, <2>10 DEF SaveFails, At
    <3>2. lost' \in SUBSET Logins  BY <1>0, <2>10, <3>1 DEF SaveFails, TypeOK
    <3>3. confirm' \in [Confirms -> Confirm]
      BY <1>0, <2>10, NoRecords DEF SaveFails, Return, TypeOK
    <3>4. events' \in 0 .. MaxEvents  BY <1>0, <2>10, Numbers DEF SaveFails, Happens, TypeOK
    <3> QED  BY <1>0, <2>10, <3>2, <3>3, <3>4 DEF SaveFails, TypeOK
  <2>11. CASE Save(c)
    <3>1. TheLogin(c) \in Logins /\ confirm[c].id \in Ids  BY <2>0, <2>11 DEF Save, At
    <3>2. confirm' \in [Confirms -> Confirm]
      BY <1>0, <2>0, <2>11, <3>1 DEF Save, To, TypeOK
    <3>3. row' \in [Ids -> Row \cup {NoRow}] /\ stored' \in SUBSET Logins /\ lost' \in SUBSET Logins
      <4>1. CASE row[confirm[c].id] # NoRow
        <5>1. [row[confirm[c].id] EXCEPT !.cred = TheLogin(c)] \in Row
          BY <1>0, <3>1, <4>1, Numbers DEF TypeOK, Row, Logins
        <5> QED  BY <1>0, <2>11, <3>1, <4>1, <5>1 DEF Save, TypeOK
      <4>2. CASE row[confirm[c].id] = NoRow
        BY <1>0, <2>11, <3>1, <4>2 DEF Save, TypeOK
      <4> QED  BY <4>1, <4>2
    <3> QED  BY <1>0, <2>11, <3>2, <3>3 DEF Save, TypeOK
  <2>12. CASE Import(c) \/ ImportFails(c)
    <3>1. TheLogin(c) \in Logins /\ confirm[c].id \in Ids
      BY <2>0, <2>12 DEF Import, ImportFails, At
    <3>2. confirm' \in [Confirms -> Confirm]
      BY <1>0, <2>0, <2>12, <3>1 DEF Import, ImportFails, To, TypeOK
    <3>3. events' \in 0 .. MaxEvents
      BY <1>0, <2>12, Numbers DEF Import, ImportFails, Happens, TypeOK
    <3> QED  BY <1>0, <2>12, <3>1, <3>2, <3>3 DEF Import, ImportFails, TypeOK
  <2>13. CASE Finish(c)
    <3>1. TheLogin(c) \in Logins /\ confirm[c].id \in 0 .. MaxId  BY <2>0, <2>13 DEF Finish, At
    <3> QED  BY <1>0, <2>13, <3>1, NoRecords DEF Finish, Return, TypeOK
  <2> QED  BY <1>7, <2>1, <2>2, <2>3, <2>4, <2>5, <2>6, <2>7, <2>8, <2>9, <2>10, <2>11,
              <2>12, <2>13 DEF ConfirmStep
<1>8. CASE Restart
  BY <1>0, <1>8, NoRecords, Numbers DEF Restart, Happens, TypeOK
<1> QED  BY <1>1, <1>2, <1>3, <1>4, <1>5, <1>6, <1>7, <1>8 DEF Next

-----------------------------------------------------------------------------
\* The steps that touch the accounts are an insertion, a deletion and a save.
LEMMA RowChanges ==
  ASSUME TypeOK, Next
  PROVE  \/ UNCHANGED <<row, nextId>>
         \/ /\ \E email \in Address : ~Known(email) /\ Insert(email)
            /\ UNCHANGED login
         \/ \E i \in Ids : DeleteAccount(i)
         \/ \E c \in Confirms : Save(c) /\ row[confirm[c].id] # NoRow
<1>1. ASSUME NEW o \in Owners, AddAccount(o)
      PROVE  (\E email \in Address : ~Known(email) /\ Insert(email)) /\ UNCHANGED login
  BY <1>1, Addresses DEF AddAccount
<1>2. ASSUME NEW c \in Confirms, MakeAccount(c)
      PROVE  \/ UNCHANGED <<row, nextId>>
             \/ (\E email \in Address : ~Known(email) /\ Insert(email)) /\ UNCHANGED login
  <2>1. confirm[c].email \in Address  BY DEF TypeOK, Confirm
  <2> QED  BY <1>2, <2>1 DEF MakeAccount, InsertOrIgnore
<1>3. ASSUME NEW c \in Confirms, Save(c)
      PROVE  UNCHANGED <<row, nextId>> \/ row[confirm[c].id] # NoRow
  BY <1>3 DEF Save
<1>4. ASSUME NEW i \in Ids, DeviceStart(i) PROVE UNCHANGED <<row, nextId>>
  BY <1>4 DEF DeviceStart
<1>5. CASE OneClickStart  BY <1>5 DEF OneClickStart
<1>6. ASSUME NEW t \in Logins, NEW o \in Owners, NEW d \in {0, t}, Approve(t, o, d)
      PROVE  UNCHANGED <<row, nextId>>
  BY <1>6 DEF Approve
<1>7. ASSUME NEW c \in Confirms, ConfirmStep(c), ~MakeAccount(c), ~Save(c)
      PROVE  UNCHANGED <<row, nextId>>
  BY <1>7 DEF ConfirmStep, DeviceConfirm, OneClickConfirm, PollInVain, PollApproved, Drop,
              AskOwner, FindAccount, FindNothing, SaveFails, Import, ImportFails, Finish
<1>8. CASE Restart  BY <1>8 DEF Restart
<1>9. ASSUME NEW c \in Confirms, ConfirmStep(c)
      PROVE  \/ UNCHANGED <<row, nextId>>
             \/ (\E email \in Address : ~Known(email) /\ Insert(email)) /\ UNCHANGED login
             \/ Save(c) /\ row[confirm[c].id] # NoRow
  BY <1>2, <1>3, <1>7, <1>9
<1> QED  BY <1>1, <1>4, <1>5, <1>6, <1>8, <1>9 DEF Next

\* No step uses an id again or renames an account.
LEMMA RowsStable ==
  ASSUME Inv, [Next]_vars
  PROVE  /\ IdInv' /\ nextId \in Int /\ nextId' \in Int /\ nextId' >= nextId
         /\ \A i \in Ids : i < nextId /\ row'[i] # NoRow =>
              row[i] # NoRow /\ row'[i].email = row[i].email
<1>0. TypeOK /\ IdInv /\ nextId \in Int /\ ConfirmInv  BY Numbers DEF Inv, TypeOK
<1>1. CASE UNCHANGED <<row, nextId>>  BY <1>0, <1>1 DEF IdInv, Accounts
<1>2. ASSUME NEW email \in Address, ~Known(email), Insert(email)
      PROVE  /\ IdInv' /\ nextId' \in Int /\ nextId' >= nextId
             /\ \A i \in Ids : i < nextId => row'[i] = row[i]
  <2>1. /\ nextId' = nextId + 1 /\ IdInv'
        /\ \A i \in Ids : i # nextId => row'[i] = row[i]
    BY <1>0, <1>2, Inserted
  <2> QED  BY <1>0, <2>1, Numbers
<1>3. ASSUME NEW i \in Ids, DeleteAccount(i)
      PROVE  /\ IdInv' /\ nextId' = nextId
             /\ \A j \in Ids : row'[j] # NoRow => row'[j] = row[j]
  <2>1. nextId' = nextId /\ \A j \in Ids : row'[j] = NoRow \/ row'[j] = row[j]
    BY <1>0, <1>3 DEF DeleteAccount, TypeOK
  <2> QED  BY <1>0, <2>1 DEF IdInv, Accounts
<1>4. ASSUME NEW c \in Confirms, Save(c), row[confirm[c].id] # NoRow
      PROVE  /\ IdInv' /\ nextId' = nextId
             /\ \A j \in Ids : row'[j] # NoRow => row[j] # NoRow /\ row'[j].email = row[j].email
  <2>1. confirm[c].id \in Ids  BY <1>0, <1>4 DEF Save, At, TypeOK, Confirm
  <2>2. row[confirm[c].id] \in Row  BY <1>0, <1>4, <2>1 DEF TypeOK
  <2>3. row'[confirm[c].id].email = row[confirm[c].id].email
    BY <1>0, <1>4, <2>1, <2>2 DEF Save, TypeOK, Row
  <2>4. nextId' = nextId /\ \A j \in Ids : j # confirm[c].id => row'[j] = row[j]
    BY <1>0, <1>4 DEF Save, TypeOK
  <2>5. \A j \in Ids : row'[j] # NoRow => row[j] # NoRow /\ row'[j].email = row[j].email
    BY <1>4, <2>3, <2>4
  <2> QED  BY <1>0, <2>4, <2>5, <1>4 DEF IdInv, Accounts
<1>5. CASE UNCHANGED vars  BY <1>1, <1>5 DEF vars
<1> QED  BY <1>0, <1>1, <1>2, <1>3, <1>4, <1>5, RowChanges

\* No step takes back what was said of a login.
LEMMA LoginsStable ==
  ASSUME Inv, [Next]_vars
  PROVE  /\ \A s \in Logins : login[s] # NoLogin =>
              /\ login'[s].kind = login[s].kind /\ login'[s].account = login[s].account
              /\ login'[s].email = login[s].email
         /\ \A s \in Logins : login[s].owner # Nobody => login'[s] = login[s]
         /\ \A s \in Logins : login'[s].device \in {login[s].device, 0, s}
         /\ started' >= started /\ started \in Int /\ started' \in Int
         /\ \A s \in Logins : s > started' => login'[s] = NoLogin
<1>0. TypeOK /\ LoginInv /\ started \in Int  BY Numbers DEF Inv, TypeOK
<1>1. CASE UNCHANGED <<login, started>>  BY <1>0, <1>1 DEF LoginInv
<1>2. ASSUME NEW l \in Login, New(l), l.device = 0
      PROVE  /\ started' >= started /\ started' \in Int
             /\ \A s \in Logins : login[s] # NoLogin => login'[s] = login[s]
             /\ \A s \in Logins : s > started' => login'[s] = NoLogin
             /\ \A s \in Logins : login'[s].device \in {login[s].device, 0}
  <2>1. started' = started + 1 /\ login' = [login EXCEPT ![started + 1] = l]
    BY <1>0, <1>2, NewTypes
  <2>2. \A s \in Logins : s # started + 1 => login'[s] = login[s]  BY <1>0, <2>1 DEF TypeOK
  <2>3. \A s \in Logins : s > started => login[s] = NoLogin  BY <1>0 DEF LoginInv
  <2>4. login'[started + 1] = l  BY <1>0, <1>2, <2>1, NewTypes DEF TypeOK
  <2> QED  BY <1>0, <1>2, <2>1, <2>2, <2>3, <2>4, Numbers
<1>3. ASSUME NEW s \in Logins, NEW o \in Owners, NEW d \in {0, s}, Approve(s, o, d)
      PROVE  /\ started' = started
             /\ \A t \in Logins : t # s => login'[t] = login[t]
             /\ login[s] # NoLogin /\ login[s].owner = Nobody
             /\ login'[s].kind = login[s].kind /\ login'[s].account = login[s].account
             /\ login'[s].email = login[s].email /\ login'[s].device = d
  <2>1. login[s] \in Login  BY <1>0, <1>3 DEF Approve, TypeOK
  <2> QED  BY <1>0, <1>3, <2>1 DEF Approve, TypeOK, Login
<1>4. ASSUME NEW c \in Confirms, ConfirmStep(c) PROVE UNCHANGED <<login, started>>
  BY <1>4 DEF ConfirmStep, DeviceConfirm, OneClickConfirm, PollInVain, PollApproved, Drop,
              AskOwner, MakeAccount, FindAccount, FindNothing, SaveFails, Save, Import,
              ImportFails, Finish
<1>5. ASSUME NEW i \in Ids, DeviceStart(i) PROVE \E l \in Login : New(l) /\ l.device = 0
  <2>1. row[i].email \in Address  BY <1>0, <1>5 DEF DeviceStart, TypeOK, Row
  <2> QED  BY <1>5, <2>1, LoginTypes DEF DeviceStart, NoLogin
<1>6. CASE OneClickStart
  <2>1. \E l \in Login : New(l) /\ l.device = 0
    BY <1>6, LoginTypes DEF OneClickStart, NoLogin
  <2> QED  BY <1>0, <1>2, <2>1, NoRecords DEF NoLogin
<1>7. CASE \E i \in Ids : DeviceStart(i)  BY <1>0, <1>2, <1>5, <1>7 DEF NoLogin
<1>8. CASE \E s \in Logins, o \in Owners : \E d \in {0, s} : Approve(s, o, d)
  BY <1>0, <1>3, <1>8 DEF LoginInv
<1>9. CASE \/ \E o \in Owners : AddAccount(o)
           \/ \E i \in Ids : DeleteAccount(i)
           \/ \E c \in Confirms : ConfirmStep(c)
           \/ Restart \/ UNCHANGED vars
  BY <1>1, <1>4, <1>9 DEF AddAccount, DeleteAccount, Restart, vars
<1> QED  BY <1>6, <1>7, <1>8, <1>9 DEF Next

\* What was meant for an account stays meant for it.
LEMMA MeantStable ==
  ASSUME Inv, [Next]_vars, NEW s \in Logins, NEW i, NEW email, Meant(s, i, email),
         login[s] # NoLogin, login[s].kind = "oneclick" => login[s].owner # Nobody
  PROVE  Meant(s, i, email)'
<1>1. i < nextId' /\ (row'[i] # NoRow => row[i] # NoRow /\ row'[i].email = row[i].email)
  BY RowsStable, Numbers DEF Meant
<1>2. login'[s].kind = login[s].kind /\ login'[s].account = login[s].account  BY LoginsStable
<1>3. login[s].owner # Nobody => login'[s] = login[s]  BY LoginsStable
<1> QED  BY <1>1, <1>2, <1>3 DEF Meant

\* Logins stay with their accounts.
LEMMA LoginStep == Inv /\ [Next]_vars => LoginInv'
<1> SUFFICES ASSUME Inv, [Next]_vars, NEW s \in Logins
             PROVE  /\ s > started' => login'[s] = NoLogin
                    /\ login'[s].device \in {0, s}
                    /\ login'[s].kind = "device" =>
                         LET i == login'[s].account IN
                           i \in Ids /\ i < nextId'
                           /\ (row'[i] # NoRow => row'[i].email = login'[s].email)
  BY DEF LoginInv
<1>0. TypeOK /\ IdInv /\ LoginInv  BY DEF Inv
<1>1. (s > started' => login'[s] = NoLogin) /\ login'[s].device \in {0, s}
  BY <1>0, LoginsStable DEF LoginInv
<1>2. ASSUME login[s] # NoLogin, login'[s].kind = "device"
      PROVE  LET i == login'[s].account IN
               i \in Ids /\ i < nextId' /\ (row'[i] # NoRow => row'[i].email = login'[s].email)
  <2> DEFINE i == login[s].account
  <2>1. /\ login[s].kind = "device" /\ login'[s].account = i
        /\ login'[s].email = login[s].email
    BY <1>2, LoginsStable
  <2>2. i \in Ids /\ i < nextId /\ (row[i] # NoRow => row[i].email = login[s].email)
    BY <1>0, <2>1 DEF LoginInv
  <2>3. /\ nextId \in Int /\ nextId' \in Int /\ nextId' >= nextId
        /\ row'[i] # NoRow => row[i] # NoRow /\ row'[i].email = row[i].email
    BY <2>2, RowsStable
  <2>4. i < nextId'
    <3>1. i \in Int  BY <2>2, Numbers
    <3>2. i < nextId /\ nextId \in Int  BY <2>2, RowsStable
    <3> HIDE DEF i
    <3> QED  BY <2>3, <3>1, <3>2
  <2> QED  BY <2>1, <2>2, <2>3, <2>4
<1>3. ASSUME login[s] = NoLogin, login'[s].kind = "device"
      PROVE  LET i == login'[s].account IN
               i \in Ids /\ i < nextId' /\ (row'[i] # NoRow => row'[i].email = login'[s].email)
  <2>1. PICK i \in Ids : DeviceStart(i)
    <3>1. login' # login  BY <1>3 DEF NoLogin
    <3>2. ~OneClickStart
      <4>1. ASSUME OneClickStart PROVE login'[s] = login[s] \/ login'[s].kind = "oneclick"
        BY <1>0, <4>1 DEF OneClickStart, New, TypeOK, NoLogin
      <4> QED  BY <1>3, <4>1 DEF NoLogin
    <3>3. \A t \in Logins, o \in Owners : \A d \in {0, t} : ~Approve(t, o, d)
      <4>1. ASSUME NEW t \in Logins, NEW o \in Owners, NEW d, Approve(t, o, d)
            PROVE  login'[s] = login[s]
        BY <1>0, <1>3, <4>1 DEF Approve, TypeOK
      <4> QED  BY <1>3, <4>1 DEF NoLogin
    <3>4. \A c \in Confirms : ~ConfirmStep(c)
      BY <3>1 DEF ConfirmStep, DeviceConfirm, OneClickConfirm, PollInVain, PollApproved, Drop,
                  AskOwner, MakeAccount, FindAccount, FindNothing, SaveFails, Save, Import,
                  ImportFails, Finish
    <3> QED  BY <3>1, <3>2, <3>3, <3>4 DEF Next, vars, AddAccount, DeleteAccount, Restart
  <2>2. login'[s] = [NoLogin EXCEPT !.kind = "device", !.account = i, !.email = row[i].email]
    BY <1>0, <1>3, <2>1 DEF DeviceStart, New, TypeOK, NoLogin
  <2>3. login'[s].account = i /\ login'[s].email = row[i].email  BY <2>2 DEF NoLogin
  <2>4. row[i] # NoRow /\ UNCHANGED <<row, nextId>>  BY <2>1 DEF DeviceStart
  <2>5. i < nextId  BY <1>0, <2>4, Numbers DEF IdInv, TypeOK
  <2> QED  BY <2>3, <2>4, <2>5
<1> QED  BY <1>1, <1>2, <1>3

\* The maps keep to logins of their kind.
LEMMA MapStep == Inv /\ [Next]_vars => MapInv'
<1> SUFFICES ASSUME Inv, [Next]_vars PROVE MapInv'  OBVIOUS
<1>0. TypeOK /\ LoginInv /\ MapInv  BY DEF Inv
<1>1. ASSUME NEW s \in Logins, login[s].kind \in {"device", "oneclick"}
      PROVE  login'[s].kind = login[s].kind /\ login'[s].account = login[s].account
  BY <1>1, LoginsStable DEF NoLogin
<1>2. ASSUME \A i \in Ids : pending'[i] \in {0, pending[i]}, oneClick' \subseteq oneClick
      PROVE  MapInv'
  <2>1. \A i \in Ids : pending[i] # 0 => pending[i] \in Logins
    BY <1>0, Numbers DEF TypeOK, Logins
  <2> QED  BY <1>0, <1>1, <1>2, <2>1 DEF MapInv, TypeOK
<1>3. ASSUME NEW i \in Ids, DeviceStart(i) PROVE MapInv'
  <2>1. started + 1 \in Logins  BY <1>0, <1>3, Numbers DEF DeviceStart, New, TypeOK, Logins
  <2>2. login'[started + 1] = [NoLogin EXCEPT !.kind = "device", !.account = i, !.email = row[i].email]
    BY <1>0, <1>3, <2>1 DEF DeviceStart, New, TypeOK
  <2>3. login'[started + 1].kind = "device" /\ login'[started + 1].account = i
    BY <2>2 DEF NoLogin
  <2>4. pending'[i] = started + 1 /\ \A j \in Ids : j # i => pending'[j] = pending[j]
    BY <1>0, <1>3 DEF DeviceStart, TypeOK
  <2>5. \A j \in Ids : pending[j] # 0 => pending[j] \in Logins
    BY <1>0, Numbers DEF TypeOK, Logins
  <2>6. oneClick' = oneClick  BY <1>3 DEF DeviceStart
  <2> QED  BY <1>0, <1>1, <2>3, <2>4, <2>5, <2>6 DEF MapInv, TypeOK
<1>4. CASE OneClickStart
  <2>1. started + 1 \in Logins  BY <1>0, <1>4, Numbers DEF OneClickStart, New, TypeOK, Logins
  <2>2. login'[started + 1].kind = "oneclick"
    BY <1>0, <1>4, <2>1 DEF OneClickStart, New, TypeOK, NoLogin
  <2>3. \A j \in Ids : pending[j] # 0 => pending[j] \in Logins
    BY <1>0, Numbers DEF TypeOK, Logins
  <2> QED  BY <1>0, <1>1, <1>4, <2>2, <2>3 DEF OneClickStart, MapInv, TypeOK
<1>5. ASSUME NEW c \in Confirms, ConfirmStep(c)
      PROVE  (\A i \in Ids : pending'[i] \in {0, pending[i]}) /\ oneClick' \subseteq oneClick
  BY <1>0, <1>5 DEF TypeOK, ConfirmStep, DeviceConfirm, OneClickConfirm, PollInVain,
                    PollApproved, Drop, AskOwner, MakeAccount, FindAccount, FindNothing,
                    SaveFails, Save, Import, ImportFails, Finish
<1>6. CASE Restart  BY <1>2, <1>6 DEF Restart
<1>7. CASE UNCHANGED <<pending, oneClick>>  BY <1>2, <1>7
<1> QED  BY <1>2, <1>3, <1>4, <1>5, <1>6, <1>7
         DEF Next, vars, server, AddAccount, DeleteAccount, Approve

\* Rows keep the credentials meant for them.
LEMMA RowStep == Inv /\ [Next]_vars => RowInv'
<1> SUFFICES ASSUME Inv, [Next]_vars, NEW i \in Ids, row'[i] # NoRow, row'[i].cred # 0
             PROVE  RowFine(i)'
  BY DEF RowInv, Accounts
<1>0. TypeOK /\ IdInv /\ RowInv /\ ConfirmInv /\ LoginInv  BY DEF Inv
<1>1. CASE row'[i] = row[i]
  <2> DEFINE s == row[i].cred
  <2>1. s \in Logins  BY <1>0, <1>1, Numbers DEF TypeOK, Row, Logins
  <2>2. RowFine(i)  BY <1>0, <1>1 DEF RowInv, Accounts
  <2>3. login'[s] = login[s]  BY <2>1, <2>2, LoginsStable DEF RowFine
  <2>4. i < nextId'
    <3>1. i \in Int /\ i < nextId  BY <2>2, Numbers DEF RowFine, Meant
    <3>2. nextId \in Int /\ nextId' \in Int /\ nextId' >= nextId  BY RowsStable
    <3> QED  BY <3>1, <3>2
  <2> QED  BY <1>1, <2>2, <2>3, <2>4 DEF RowFine, Meant
<1>2. ASSUME NEW c \in Confirms, Save(c), row[confirm[c].id] # NoRow, confirm[c].id = i
      PROVE  RowFine(i)'
  <2>1. row[i] \in Row  BY <1>0, <1>2 DEF TypeOK
  <2>2. row'[i].cred = TheLogin(c) /\ row'[i].email = row[i].email
    BY <1>0, <1>2, <2>1 DEF Save, TypeOK, Row
  <2>3. Knows(c) /\ confirm[c].step = "save"  BY <1>0, <1>2 DEF Save, At, ConfirmInv
  <2>4. UNCHANGED <<login, nextId>>  BY <1>2 DEF Save
  <2>5. /\ login[TheLogin(c)].kind \in {"device", "oneclick"}
        /\ login[TheLogin(c)].owner # Nobody
        /\ Meant(TheLogin(c), i, confirm[c].email)
    BY <1>2, <2>3 DEF Knows, TheLogin
  <2>6. login[TheLogin(c)].kind = "oneclick" => row[i].email = confirm[c].email
    BY <1>2, <2>5 DEF Meant
  <2> QED  BY <2>2, <2>4, <2>5, <2>6 DEF RowFine, Meant
<1>3. ASSUME NEW email \in Address, ~Known(email), Insert(email)
      PROVE  row'[i] = row[i]
  <2>1. row'[nextId] = [email |-> email, cred |-> 0]
        /\ \A j \in Ids : j # nextId => row'[j] = row[j]
    BY <1>0, <1>3, Inserted
  <2>2. row'[nextId].cred = 0  BY <2>1
  <2> QED  BY <2>1, <2>2
<1>4. ASSUME NEW j \in Ids, DeleteAccount(j) PROVE row'[i] = row[i]
  BY <1>0, <1>4 DEF DeleteAccount, TypeOK
<1>5. ASSUME NEW c \in Confirms, Save(c), row[confirm[c].id] # NoRow, confirm[c].id # i
      PROVE  row'[i] = row[i]
  BY <1>0, <1>5 DEF Save, TypeOK
<1> QED  BY <1>0, <1>1, <1>2, <1>3, <1>4, <1>5, RowChanges DEF vars

\* History only grows.
LEMMA HistoryGrows ==
  ASSUME [Next]_vars
  PROVE  stored \subseteq stored' /\ lost \subseteq lost' /\ handed \subseteq handed'
<1>1. ASSUME NEW c \in Confirms, ConfirmStep(c)
      PROVE  stored \subseteq stored' /\ lost \subseteq lost' /\ handed \subseteq handed'
  BY <1>1 DEF ConfirmStep, DeviceConfirm, OneClickConfirm, PollInVain, PollApproved, Drop,
              AskOwner, MakeAccount, FindAccount, FindNothing, SaveFails, Save, Import,
              ImportFails, Finish, history
<1> QED  BY <1>1 DEF Next, vars, history, AddAccount, DeleteAccount, DeviceStart, OneClickStart,
                     Approve, Restart

\* While a request does nothing, what it knows stays true.
LEMMA KnowsStable ==
  ASSUME Inv, [Next]_vars, NEW c \in Confirms, confirm[c].step # "idle",
         confirm'[c] = confirm[c],
         confirm[c].login \in oneClick => confirm[c].login \in oneClick' \cup stored' \cup lost'
  PROVE  Knows(c)'
<1> DEFINE s == confirm[c].login
           i == confirm[c].id
           email == confirm[c].email
<1>1. Knows(c)  BY DEF Inv, ConfirmInv
<1>2. s \in Logins /\ login[s] # NoLogin /\ login'[s].kind = login[s].kind
  BY <1>1, LoginsStable DEF Knows, NoLogin
<1>3. login[s].owner # Nobody => login'[s] = login[s]  BY <1>2, LoginsStable
<1>4. stored \subseteq stored' /\ lost \subseteq lost'  BY HistoryGrows
<1>5. ASSUME Meant(s, i, email), login[s].kind = "oneclick" => login[s].owner # Nobody
      PROVE  /\ i \in Ids /\ i < nextId'
             /\ login'[s].kind = "device" => i = login'[s].account
             /\ login'[s].kind = "oneclick" =>
                  /\ email \in {MailOf(login'[s].owner), FallbackOf(login'[s].device)}
                  /\ row'[i] # NoRow => row'[i].email = email
             /\ row[i] = NoRow => row'[i] = NoRow
  <2>1. i \in Int /\ i \in Ids /\ i < nextId  BY <1>5, Numbers DEF Meant
  <2>2. /\ nextId \in Int /\ nextId' \in Int /\ nextId' >= nextId
        /\ row'[i] # NoRow => row[i] # NoRow /\ row'[i].email = row[i].email
    BY <2>1, RowsStable
  <2>3. i < nextId'
    <3> HIDE DEF i
    <3> QED  BY <2>1, <2>2
  <2>4. login'[s].account = login[s].account  BY <1>2, LoginsStable
  <2> QED  BY <1>2, <1>3, <1>5, <2>1, <2>2, <2>3, <2>4 DEF Meant
<1>6. /\ login[s].kind = "device" => Meant(s, i, email)
      /\ confirm[c].step \in {"save", "import", "finish"} => Meant(s, i, email)
      /\ login[s].kind = "oneclick" /\ confirm[c].step # "poll" => login[s].owner # Nobody
  BY <1>1 DEF Knows
<1>7. s \in stored \cup lost => s \in stored' \cup lost'  BY <1>4
<1> QED  BY <1>1, <1>2, <1>3, <1>4, <1>5, <1>6, <1>7 DEF Knows, Meant

\* Requests know at every step what they did before.
LEMMA ConfirmInvStep == Inv /\ [Next]_vars => ConfirmInv'
<1> SUFFICES ASSUME Inv, [Next]_vars, NEW d \in Confirms, confirm'[d].step # "idle"
             PROVE  Knows(d)'
  BY DEF ConfirmInv
<1>0. TypeOK /\ IdInv /\ LoginInv /\ MapInv /\ ConfirmInv  BY DEF Inv
<1>1. CASE UNCHANGED <<confirm, oneClick>>  BY <1>1, KnowsStable
<1>2. CASE OneClickStart  BY <1>2, KnowsStable DEF OneClickStart
<1>3. CASE Restart  BY <1>3 DEF Restart, Idle
<1>4. ASSUME NEW c \in Confirms, ConfirmStep(c), d # c PROVE Knows(d)'
  <2>1. confirm'[d] = confirm[d]
    BY <1>0, <1>4 DEF TypeOK, ConfirmStep, DeviceConfirm, OneClickConfirm, PollInVain,
                      PollApproved, Drop, AskOwner, MakeAccount, FindAccount, FindNothing,
                      SaveFails, Save, Import, ImportFails, Finish, To, Return
  <2>2. CASE UNCHANGED oneClick  BY <2>1, <2>2, KnowsStable
  <2>3. CASE Finish(c)
    <3>1. TheLogin(c) \in stored \cup lost /\ oneClick' = oneClick \ {TheLogin(c)}
      BY <1>0, <2>3 DEF Finish, At, ConfirmInv, Knows, TheLogin
    <3>2. TheLogin(c) \in stored' \cup lost'  BY <3>1, HistoryGrows
    <3> QED  BY <2>1, <3>1, <3>2, KnowsStable
  <2> QED  BY <1>4, <2>2, <2>3
           DEF ConfirmStep, DeviceConfirm, OneClickConfirm, PollInVain, PollApproved, Drop,
               AskOwner, MakeAccount, FindAccount, FindNothing, SaveFails, Save, Import,
               ImportFails
<1>5. ASSUME ConfirmStep(d) PROVE Knows(d)'
  <2> DEFINE s == TheLogin(d)
             k == confirm[d]
  <2>0. /\ k \in Confirm
        /\ k.step # "idle" => Knows(d) /\ s \in Logins /\ login[s].kind \in {"device", "oneclick"}
    BY <1>0 DEF TypeOK, ConfirmInv, Knows, TheLogin
  <2>1. ASSUME NEW i \in Ids, DeviceConfirm(d, i) PROVE Knows(d)'
    <3>1. confirm'[d] = [step |-> "poll", login |-> pending[i], id |-> i, email |-> NoAddress]
      BY <1>0, <2>1 DEF DeviceConfirm, TypeOK
    <3>2. pending[i] \in Logins /\ login[pending[i]].kind = "device"
          /\ login[pending[i]].account = i
      BY <1>0, <2>1, Numbers DEF DeviceConfirm, MapInv, TypeOK, Logins
    <3>3. i < nextId  BY <1>0, <3>2 DEF LoginInv
    <3>4. UNCHANGED <<login, nextId>>  BY <2>1 DEF DeviceConfirm
    <3> QED  BY <3>1, <3>2, <3>3, <3>4 DEF Knows, Meant
  <2>2. ASSUME NEW t \in Logins, OneClickConfirm(d, t) PROVE Knows(d)'
    <3>1. confirm'[d] = [step |-> "poll", login |-> t, id |-> 0, email |-> NoAddress]
      BY <1>0, <2>2 DEF OneClickConfirm, TypeOK
    <3>2. login[t].kind = "oneclick" /\ t \in oneClick  BY <1>0, <2>2 DEF OneClickConfirm, MapInv
    <3> QED  BY <2>2, <3>1, <3>2 DEF OneClickConfirm, Knows
  <2>3. CASE PollInVain(d) \/ FindNothing(d) \/ SaveFails(d) \/ Finish(d)
    BY <1>0, <2>3 DEF PollInVain, FindNothing, SaveFails, Finish, Return, Idle, TypeOK
  <2>4. CASE PollApproved(d)
    <3>1. /\ confirm'[d].step = (IF IsDevice(d) THEN "drop" ELSE "me")
          /\ confirm'[d].login = s /\ confirm'[d].id = k.id /\ confirm'[d].email = k.email
      BY <1>0, <2>0, <2>4 DEF PollApproved, To, TypeOK, Confirm, TheLogin
    <3>2. Knows(d) /\ login[s].owner # Nobody  BY <2>0, <2>4 DEF PollApproved, At
    <3>3. UNCHANGED <<login, nextId, row, oneClick, stored, lost>>  BY <2>4 DEF PollApproved
    <3> QED  BY <3>1, <3>2, <3>3 DEF Knows, Meant, IsDevice, TheLogin
  <2>5. CASE Drop(d)
    <3>1. /\ confirm'[d].step = "save" /\ k.step = "drop"
          /\ confirm'[d].login = s /\ confirm'[d].id = k.id /\ confirm'[d].email = k.email
      BY <1>0, <2>0, <2>5 DEF Drop, At, To, TypeOK, Confirm, TheLogin
    <3>2. Knows(d)  BY <2>0, <3>1
    <3>3. UNCHANGED <<login, nextId, row, oneClick, stored, lost>>  BY <2>5 DEF Drop, history
    <3> QED  BY <3>1, <3>2, <3>3 DEF Knows, Meant, TheLogin
  <2>6. CASE AskOwner(d)
    <3>1. PICK email \in {MailOf(login[s].owner), Fallback(d)} :
            confirm' = [confirm EXCEPT ![d].step = "add", ![d].email = email]
      BY <2>6 DEF AskOwner
    <3>2. /\ confirm'[d].step = "add" /\ k.step = "me"
          /\ confirm'[d].login = s /\ confirm'[d].email = email
      BY <1>0, <2>0, <2>6, <3>1 DEF AskOwner, At, TypeOK, Confirm, TheLogin
    <3>3. Knows(d)  BY <2>0, <3>2
    <3>4. UNCHANGED <<login, nextId, row, oneClick, stored, lost>>  BY <2>6 DEF AskOwner, history
    <3> QED  BY <3>1, <3>2, <3>3, <3>4 DEF Knows, Fallback, TheLogin
  <2>7. CASE MakeAccount(d)
    <3>1. /\ confirm'[d].step = "find" /\ k.step = "add"
          /\ confirm'[d].login = s /\ confirm'[d].email = k.email
      BY <1>0, <2>0, <2>7 DEF MakeAccount, At, To, TypeOK, Confirm, TheLogin
    <3>2. Knows(d)  BY <2>0, <3>1
    <3>3. UNCHANGED <<login, oneClick, stored, lost>>  BY <2>7 DEF MakeAccount, history
    <3> QED  BY <3>1, <3>2, <3>3 DEF Knows, TheLogin
  <2>8. CASE FindAccount(d)
    <3>1. PICK i \in Accounts :
            row[i].email = k.email
            /\ confirm' = [confirm EXCEPT ![d].step = "save", ![d].id = i]
      BY <2>8 DEF FindAccount
    <3>2. /\ confirm'[d].step = "save" /\ k.step = "find"
          /\ confirm'[d].login = s /\ confirm'[d].id = i /\ confirm'[d].email = k.email
      BY <1>0, <2>0, <2>8, <3>1 DEF FindAccount, At, TypeOK, Confirm, TheLogin
    <3>3. Knows(d)  BY <2>0, <3>2
    <3>4. UNCHANGED <<login, nextId, row, oneClick, stored, lost>>
      BY <2>8 DEF FindAccount, history
    <3>5. i \in Ids /\ i < nextId  BY <1>0, Numbers DEF Accounts, IdInv, TypeOK
    <3>6. login[s].kind = "oneclick"  BY <3>2, <3>3 DEF Knows, TheLogin
    <3> QED  BY <3>1, <3>2, <3>3, <3>4, <3>5, <3>6 DEF Knows, Meant, TheLogin
  <2>9. CASE Save(d)
    <3>1. /\ confirm'[d].step = "import" /\ k.step = "save"
          /\ confirm'[d].login = s /\ confirm'[d].id = k.id /\ confirm'[d].email = k.email
      BY <1>0, <2>0, <2>9 DEF Save, At, To, TypeOK, Confirm, TheLogin
    <3>2. Knows(d) /\ s \in Logins  BY <2>0, <3>1
    <3>3. UNCHANGED <<login, nextId, oneClick>>  BY <2>9 DEF Save
    <3>4. Meant(s, k.id, k.email)  BY <3>1, <3>2 DEF Knows, TheLogin
    <3>5. k.id \in Ids  BY <3>4 DEF Meant
    <3>6. s \in stored' \/ (s \in lost' /\ row'[k.id] = NoRow)
      BY <2>9 DEF Save
    <3>7. row'[k.id] # NoRow => row[k.id] # NoRow /\ row'[k.id].email = row[k.id].email
      <4>1. k.id < nextId  BY <3>4 DEF Meant
      <4> QED  BY <3>5, <4>1, RowsStable
    <3>8. stored \subseteq stored' /\ lost \subseteq lost'  BY HistoryGrows
    <3> QED  BY <3>1, <3>2, <3>3, <3>4, <3>5, <3>6, <3>7, <3>8 DEF Knows, Meant, TheLogin
  <2>10. CASE Import(d) \/ ImportFails(d)
    <3>1. /\ confirm'[d].step = "finish" /\ k.step = "import"
          /\ confirm'[d].login = s /\ confirm'[d].id = k.id /\ confirm'[d].email = k.email
      BY <1>0, <2>0, <2>10 DEF Import, ImportFails, At, To, TypeOK, Confirm, TheLogin
    <3>2. Knows(d)  BY <2>0, <3>1
    <3>3. UNCHANGED <<login, nextId, row, oneClick, stored, lost>>
      BY <2>10 DEF Import, ImportFails, history
    <3> QED  BY <3>1, <3>2, <3>3 DEF Knows, Meant, TheLogin
  <2> QED  BY <1>5, <2>1, <2>2, <2>3, <2>4, <2>5, <2>6, <2>7, <2>8, <2>9, <2>10 DEF ConfirmStep
<1> QED  BY <1>1, <1>2, <1>3, <1>4, <1>5
         DEF Next, vars, server, AddAccount, DeleteAccount, DeviceStart, Approve

\* Answers and imports come after the credential.
LEMMA ToldStep == Inv /\ [Next]_vars => ToldInv' /\ NothingBeforeTheCredential'
<1> SUFFICES ASSUME Inv, [Next]_vars PROVE ToldInv' /\ NothingBeforeTheCredential'  OBVIOUS
<1>0. TypeOK /\ ConfirmInv /\ ToldInv /\ NothingBeforeTheCredential  BY DEF Inv
<1>1. stored \subseteq stored' /\ lost \subseteq lost'  BY HistoryGrows
<1>2. \A i \in Ids : i < nextId => i < nextId' /\ (row[i] = NoRow => row'[i] = NoRow)
  <2> TAKE i \in Ids
  <2>1. i \in Int /\ nextId \in Int /\ nextId' \in Int /\ nextId' >= nextId
    BY Numbers, RowsStable
  <2> QED  BY <2>1, RowsStable
<1>3. ASSUME \A t \in told' \ told : t[2] \in Ids /\ t[2] < nextId /\ (t[1] \in stored \/ row[t[2]] = NoRow),
             keys' \subseteq keys \cup stored \cup lost
      PROVE  ToldInv' /\ NothingBeforeTheCredential'
  BY <1>0, <1>1, <1>2, <1>3 DEF ToldInv, NothingBeforeTheCredential
<1>4. ASSUME NEW c \in Confirms, Import(c) PROVE ToldInv' /\ NothingBeforeTheCredential'
  <2>1. TheLogin(c) \in stored \cup lost
    BY <1>0, <1>4 DEF Import, At, ConfirmInv, Knows, TheLogin
  <2> QED  BY <1>3, <1>4, <2>1 DEF Import, history
<1>5. ASSUME NEW c \in Confirms, Finish(c) PROVE ToldInv' /\ NothingBeforeTheCredential'
  <2>1. Knows(c) /\ confirm[c].step = "finish"  BY <1>0, <1>5 DEF Finish, At, ConfirmInv
  <2>2. /\ confirm[c].id \in Ids /\ confirm[c].id < nextId
        /\ TheLogin(c) \in stored \/ row[confirm[c].id] = NoRow
    BY <2>1 DEF Knows, Meant, TheLogin
  <2> QED  BY <1>3, <1>5, <2>2 DEF Finish
<1>6. ASSUME NEW c \in Confirms, ConfirmStep(c), ~Import(c), ~Finish(c)
      PROVE  UNCHANGED <<told, keys>>
  BY <1>6 DEF ConfirmStep, DeviceConfirm, OneClickConfirm, PollInVain, PollApproved, Drop,
              AskOwner, MakeAccount, FindAccount, FindNothing, SaveFails, Save, ImportFails,
              history
<1>7. CASE UNCHANGED <<told, keys>>  BY <1>3, <1>7
<1> QED  BY <1>4, <1>5, <1>6, <1>7
         DEF Next, vars, history, AddAccount, DeleteAccount, DeviceStart, OneClickStart,
             Approve, Restart

\* Whoever has a credential in hand passes it on.
LEMMA KeptStep == Inv /\ [Next]_vars => HandedOverIsKept'
<1> SUFFICES ASSUME Inv, [Next]_vars, NEW s \in handed', s \notin stored', s \notin lost'
             PROVE  s \in oneClick' \/ \E c \in Confirms : InHand(c, s)'
  BY DEF HandedOverIsKept
<1>0. TypeOK /\ ConfirmInv /\ HandedOverIsKept  BY DEF Inv
<1>1. s \notin stored /\ s \notin lost  BY HistoryGrows
<1>2. CASE UNCHANGED <<handed, confirm>> /\ oneClick \subseteq oneClick'
  BY <1>0, <1>1, <1>2 DEF HandedOverIsKept, InHand, At, TheLogin
<1>3. CASE Restart  BY <1>3 DEF Restart
<1>4. ASSUME NEW c \in Confirms, ConfirmStep(c)
      PROVE  s \in oneClick' \/ \E d \in Confirms : InHand(d, s)'
  <2>1. \A d \in Confirms : d # c => confirm'[d] = confirm[d]
    BY <1>0, <1>4 DEF TypeOK, ConfirmStep, DeviceConfirm, OneClickConfirm, PollInVain,
                      PollApproved, Drop, AskOwner, MakeAccount, FindAccount, FindNothing,
                      SaveFails, Save, Import, ImportFails, Finish, To, Return
  <2>2. CASE PollApproved(c)
    <3>1. /\ confirm'[c].login = confirm[c].login
          /\ confirm'[c].step \in {"drop", "me"}
      BY <1>0, <2>2 DEF PollApproved, To, TypeOK, Confirm
    <3>2. CASE s = TheLogin(c)  BY <3>1, <3>2 DEF InHand, At, TheLogin
    <3>3. CASE s # TheLogin(c)
      <4>1. s \in oneClick \/ \E d \in Confirms : InHand(d, s)
        BY <1>0, <1>1, <2>2, <3>3 DEF PollApproved, HandedOverIsKept
      <4>2. ~InHand(c, s)  BY <3>3 DEF InHand
      <4> QED  BY <2>1, <2>2, <4>1, <4>2 DEF PollApproved, InHand, At, TheLogin
    <3> QED  BY <3>2, <3>3
  <2>3. CASE ~PollApproved(c)
    <3>1. handed' = handed
      BY <1>4, <2>3 DEF ConfirmStep, DeviceConfirm, OneClickConfirm, PollInVain, Drop, AskOwner,
                        MakeAccount, FindAccount, FindNothing, SaveFails, Save, Import,
                        ImportFails, Finish, history
    <3>2. s \in oneClick \/ \E d \in Confirms : InHand(d, s)
      BY <1>0, <1>1, <3>1 DEF HandedOverIsKept
    <3>3. s \in oneClick => s \in oneClick'
      <4>1. CASE Finish(c)
        <5>1. TheLogin(c) \in stored \cup lost
          BY <1>0, <4>1 DEF Finish, At, ConfirmInv, Knows, TheLogin
        <5> QED  BY <1>1, <4>1, <5>1 DEF Finish
      <4> QED  BY <1>4, <2>3, <4>1
               DEF ConfirmStep, DeviceConfirm, OneClickConfirm, PollInVain, Drop, AskOwner,
                   MakeAccount, FindAccount, FindNothing, SaveFails, Save, Import, ImportFails
    <3>4. ASSUME NEW d \in Confirms, InHand(d, s), d # c PROVE InHand(d, s)'
      BY <2>1, <3>4 DEF InHand, At, TheLogin
    <3>5. ASSUME InHand(c, s) PROVE s \in oneClick' \/ InHand(c, s)'
      <4>1. Knows(c) /\ confirm[c] \in Confirm
        BY <1>0, <3>5 DEF InHand, At, ConfirmInv, TypeOK
      <4>2. CASE FindNothing(c) \/ SaveFails(c) \/ Finish(c)
        <5>1. s = confirm[c].login  BY <3>5 DEF InHand, TheLogin
        <5>2. login[s].kind = "device" => SaveFails(c) \/ Finish(c)
          BY <4>1, <4>2, <5>1 DEF Knows, FindNothing, At
        <5>3. login[s].kind = "device" => ~SaveFails(c)
          BY <5>1 DEF SaveFails, IsDevice, TheLogin
        <5>4. ~Finish(c)
          BY <1>1, <4>1, <5>1 DEF Finish, At, Knows
        <5>5. login[s].kind = "oneclick" => s \in oneClick
          BY <1>1, <4>1, <5>1 DEF Knows
        <5> QED  BY <3>3, <4>1, <5>1, <5>2, <5>3, <5>4, <5>5 DEF Knows
      <4>3. CASE Drop(c) \/ AskOwner(c) \/ MakeAccount(c) \/ FindAccount(c) \/ Save(c)
                 \/ Import(c) \/ ImportFails(c)
        <5>1. /\ confirm'[c].login = confirm[c].login
              /\ confirm'[c].step \in {"add", "find", "save", "import", "finish"}
          BY <1>0, <4>1, <4>3 DEF Drop, AskOwner, MakeAccount, FindAccount, Save, Import,
                                  ImportFails, To, TypeOK, Confirm
        <5> QED  BY <3>5, <5>1 DEF InHand, At, TheLogin
      <4>4. ~PollInVain(c) /\ (\A i : ~DeviceConfirm(c, i)) /\ (\A t : ~OneClickConfirm(c, t))
        BY <3>5 DEF InHand, PollInVain, DeviceConfirm, OneClickConfirm
      <4> QED  BY <1>4, <2>3, <4>2, <4>3, <4>4 DEF ConfirmStep
    <3> QED  BY <3>2, <3>3, <3>4, <3>5
  <2> QED  BY <2>2, <2>3
<1>5. CASE UNCHANGED vars  BY <1>2, <1>5 DEF vars, server, history
<1> QED  BY <1>2, <1>3, <1>4, <1>5
         DEF Next, server, history, AddAccount, DeleteAccount, DeviceStart, OneClickStart, Approve

-----------------------------------------------------------------------------
LEMMA DeviceAuthInvariant == Spec => []Inv
<1>1. Inv /\ [Next]_vars => Inv'
  BY TypeStep, RowsStable, LoginStep, MapStep, ConfirmInvStep, RowStep, ToldStep, KeptStep
  DEF Inv
<1> QED  BY InitInv, <1>1, PTL DEF Spec

\* The variables have their types, and no request stores a credential without
\* an account to store it for (oneclick.go:180).
THEOREM AuthTypes == Spec => []TypeOK
<1>1. Inv => TypeOK  BY DEF Inv
<1> QED  BY DeviceAuthInvariant, <1>1, PTL

\* However starts, approvals, confirms, deletions and crashes interleave, a
\* credential ends in the row it was meant for
\* (SaveAccountDeviceCredential by id, accounts.id AUTOINCREMENT).
THEOREM CredentialsLandWhereMeant == Spec => []CredentialOnItsAccount
<1>1. Inv => CredentialOnItsAccount
  <2> SUFFICES ASSUME Inv, NEW i \in Accounts, row[i].cred # 0
               PROVE  LET l == login[row[i].cred] IN
                        IF l.kind = "device"
                        THEN l.account = i /\ row[i].email = l.email
                        ELSE row[i].email \in {MailOf(l.owner), FallbackOf(l.device)}
    BY DEF CredentialOnItsAccount
  <2>1. RowFine(i) /\ row[i] # NoRow  BY DEF Inv, RowInv, Accounts
  <2>2. row[i].cred \in Logins
    BY <2>1, Numbers DEF Inv, TypeOK, Row, Logins, Accounts
  <2>3. LoginInv  BY DEF Inv
  <2> QED  BY <2>1, <2>2, <2>3 DEF RowFine, Meant, LoginInv
<1> QED  BY DeviceAuthInvariant, <1>1, PTL

\* Neither the answer "authorized" nor the import of the API key is ahead of
\* the credential (handleDeviceConfirm, handleOneClickConfirm).
THEOREM AuthorizedMeansStored == Spec => []NothingBeforeTheCredential
<1>1. Inv => NothingBeforeTheCredential  BY DEF Inv
<1> QED  BY DeviceAuthInvariant, <1>1, PTL

\* No interleaving loses a credential the gateway has handed over: a one-click
\* session is forgotten only after its credential was stored, a device login
\* is dropped only by the request that has its credential.
THEOREM NothingHandedOverIsLost == Spec => []HandedOverIsKept
<1>1. Inv => HandedOverIsKept  BY DEF Inv
<1> QED  BY DeviceAuthInvariant, <1>1, PTL

\* Two accounts share a device only if the owner's address was known to one
\* request and not to another (accounts.email UNIQUE, INSERT OR IGNORE).
THEOREM OneDeviceInOneAccount == Spec => []OneDeviceOneAccount
<1>1. Inv => OneDeviceOneAccount
  <2> SUFFICES ASSUME Inv, NEW i \in Accounts, NEW j \in Accounts, i # j,
                      row[i].cred = row[j].cred, row[i].cred # 0
               PROVE  login[row[i].cred].kind = "oneclick" /\ row[i].email # row[j].email
    BY DEF OneDeviceOneAccount
  <2>1. RowFine(i) /\ RowFine(j)  BY DEF Inv, RowInv
  <2>2. login[row[i].cred].kind # "device"  BY <2>1 DEF RowFine, Meant
  <2> QED  BY <2>1, <2>2 DEF RowFine, Inv, IdInv
<1> QED  BY DeviceAuthInvariant, <1>1, PTL

\* A one-click login replaces the credential of a device approved by somebody
\* else only when neither device came with an id (oneclick.go:158).
THEOREM OwnersStayApart == Spec => OwnersKeptApart
<1> DEFINE Apart ==
      \A i \in Ids :
        LET old == login[row[i].cred] new == login[row'[i].cred] IN
          /\ row[i] # NoRow /\ row[i].cred # 0
          /\ row'[i] # NoRow /\ row'[i].cred # row[i].cred
          /\ old.kind = "oneclick" /\ new.kind = "oneclick"
          /\ old.owner # new.owner
          => old.device = 0 /\ new.device = 0
<1>1. Inv /\ [Next]_vars => [Apart]_vars
  <2> SUFFICES ASSUME Inv, [Next]_vars, NEW i \in Ids,
                      row[i] # NoRow, row[i].cred # 0,
                      row'[i] # NoRow, row'[i].cred # row[i].cred,
                      login[row[i].cred].kind = "oneclick",
                      login[row'[i].cred].kind = "oneclick",
                      login[row[i].cred].owner # login[row'[i].cred].owner
               PROVE  login[row[i].cred].device = 0 /\ login[row'[i].cred].device = 0
    OBVIOUS
  <2>0. TypeOK /\ IdInv /\ LoginInv /\ ConfirmInv  BY DEF Inv
  <2> DEFINE s == row[i].cred
             t == row'[i].cred
  <2>1. RowFine(i) /\ s \in Logins
    BY Numbers DEF Inv, RowInv, Accounts, TypeOK, Row, Logins
  <2>2. PICK c \in Confirms : Save(c) /\ confirm[c].id = i
    <3>1. ASSUME NEW c \in Confirms, Save(c), confirm[c].id # i PROVE row'[i] = row[i]
      BY <2>0, <3>1 DEF Save, TypeOK
    <3>2. ASSUME NEW email \in Address, ~Known(email), Insert(email) PROVE row'[i] = row[i]
      BY <2>0, <3>2, Inserted
    <3>3. ASSUME NEW j \in Ids, DeleteAccount(j) PROVE row'[i] = row[i]
      BY <2>0, <3>3 DEF DeleteAccount, TypeOK
    <3> QED  BY <2>0, <3>1, <3>2, <3>3, RowChanges DEF vars
  <2>3. t = TheLogin(c)
    <3>1. row[i] \in Row  BY <2>0 DEF TypeOK
    <3> QED  BY <2>0, <2>2, <3>1 DEF Save, TypeOK, Row
  <2>4. Knows(c) /\ confirm[c].step = "save"  BY <2>0, <2>2 DEF Save, At, ConfirmInv
  <2>5. /\ t \in Logins /\ login[t].owner # Nobody
        /\ row[i].email \in {MailOf(login[t].owner), FallbackOf(login[t].device)}
    BY <2>2, <2>3, <2>4 DEF Knows, Meant, TheLogin
  <2>6. /\ login[s].owner # Nobody
        /\ row[i].email \in {MailOf(login[s].owner), FallbackOf(login[s].device)}
    BY <2>1 DEF RowFine, Meant
  <2>7. /\ login[s].owner \in Owners /\ login[t].owner \in Owners
        /\ login[s].device \in 0 .. MaxLogins /\ login[t].device \in 0 .. MaxLogins
    <3>1. login[s] \in Login /\ login[t] \in Login
      BY <2>0, <2>1, <2>5, <2>6 DEF TypeOK, NoLogin
    <3> QED  BY <2>5, <2>6, <3>1 DEF Login
  <2>8. login[s].device = login[t].device
    <3> DEFINE oldOwner == login[s].owner
               newOwner == login[t].owner
               oldDevice == login[s].device
               newDevice == login[t].device
               email == row[i].email
    <3>1. oldOwner # newOwner  OBVIOUS
    <3>2. email \in {MailOf(oldOwner), FallbackOf(oldDevice)}  BY <2>6
    <3>3. email \in {MailOf(newOwner), FallbackOf(newDevice)}  BY <2>5
    <3>4. oldOwner # Nobody /\ newOwner # Nobody  BY <2>5, <2>6
    <3>5. oldDevice = newDevice
      <4> HIDE DEF oldOwner, newOwner, oldDevice, newDevice, email
      <4> QED  BY <3>1, <3>2, <3>3, <3>4 DEF MailOf, FallbackOf
    <3> QED  BY <3>5
  <2>9. login[s].device \in {0, s} /\ login[t].device \in {0, t} /\ s # t
    BY <2>0, <2>1, <2>5 DEF LoginInv
  <2> QED  BY <2>8, <2>9
<1> QED  BY DeviceAuthInvariant, <1>1, PTL DEF Spec, OwnersKeptApart

-----------------------------------------------------------------------------
(* The login in progress.                                                  *)

\* What the process knows, it has started itself; a request about to remove
\* the login in progress has been handed a credential.
RecentInv ==
  /\ \A s \in recent : s <= started /\ login[s].kind \in {"device", "oneclick"}
  /\ \A i \in Ids : pending[i] # 0 => pending[i] \in recent
  /\ \A c \in Confirms : confirm[c].step # "idle" =>
       /\ login[confirm[c].login].kind = "device" => confirm[c].login \in recent
       /\ confirm[c].step = "drop" => confirm[c].login \in handed

ProgressInv == RecentInv /\ InProgressUnlessOlderHanded

LEMMA ProgressInit == Init => ProgressInv
BY DEF Init, ProgressInv, RecentInv, InProgressUnlessOlderHanded, Idle

\* What a step of a request does to the maps and to what it works on.
LEMMA RequestSteps ==
  ASSUME Inv, NEW c \in Confirms, ConfirmStep(c)
  PROVE  /\ UNCHANGED <<login, started, recent>> /\ handed \subseteq handed'
         /\ \A d \in Confirms : d # c => confirm'[d] = confirm[d]
         /\ \/ pending' = pending
            \/ confirm[c].step = "drop" /\ pending' = [pending EXCEPT ![confirm[c].id] = 0]
         /\ confirm'[c].step # "idle" =>
              \/ confirm'[c].login = confirm[c].login /\ confirm[c].step # "idle"
              \/ login[confirm'[c].login].kind = "oneclick" /\ confirm'[c].step = "poll"
              \/ \E i \in Ids : /\ pending[i] # 0 /\ confirm'[c].login = pending[i]
                                /\ confirm'[c].step = "poll"
         /\ confirm'[c].step = "drop" => confirm'[c].login \in handed'
<1>0. TypeOK /\ MapInv  BY DEF Inv
<1>1. confirm[c] \in Confirm /\ confirm \in [Confirms -> Confirm]  BY <1>0 DEF TypeOK
<1>2. Idle.step = "idle"  BY DEF Idle
<1>3. CASE \E i \in Ids : DeviceConfirm(c, i)
  BY <1>1, <1>3 DEF DeviceConfirm, At, history
<1>4. CASE \E s \in Logins : OneClickConfirm(c, s)
  BY <1>0, <1>1, <1>4 DEF OneClickConfirm, At, history, MapInv
<1>5. CASE PollInVain(c) \/ FindNothing(c) \/ SaveFails(c) \/ Finish(c)
  BY <1>1, <1>2, <1>5 DEF PollInVain, FindNothing, SaveFails, Finish, Return, history
<1>6. CASE PollApproved(c)
  <2>1. /\ confirm'[c].login = confirm[c].login /\ confirm[c].step = "poll"
        /\ \A d \in Confirms : d # c => confirm'[d] = confirm[d]
    BY <1>1, <1>6 DEF PollApproved, To, At, Confirm
  <2> QED  BY <1>6, <2>1 DEF PollApproved, TheLogin
<1>7. CASE Drop(c)
  <2>1. /\ confirm'[c].login = confirm[c].login /\ confirm'[c].step = "save"
        /\ \A d \in Confirms : d # c => confirm'[d] = confirm[d]
    BY <1>1, <1>7 DEF Drop, To, At, Confirm
  <2> QED  BY <1>7, <2>1 DEF Drop, At, history
<1>8. ASSUME NEW step \in {"add", "find", "save", "import", "finish"}, NEW old \in Confirm,
             confirm[c].step # "idle", confirm' = [confirm EXCEPT ![c] = old],
             old.step = step, old.login = confirm[c].login,
             UNCHANGED <<login, started, recent, handed, pending>>
      PROVE  /\ UNCHANGED <<login, started, recent>> /\ handed \subseteq handed'
             /\ \A d \in Confirms : d # c => confirm'[d] = confirm[d]
             /\ pending' = pending
             /\ confirm'[c].login = confirm[c].login /\ confirm[c].step # "idle"
             /\ confirm'[c].step # "drop"
  BY <1>1, <1>8
<1>9. CASE AskOwner(c) \/ MakeAccount(c) \/ FindAccount(c) \/ Save(c) \/ Import(c) \/ ImportFails(c)
  <2>1. confirm[c].step # "idle" /\ UNCHANGED <<login, started, recent, handed, pending>>
    BY <1>9 DEF AskOwner, MakeAccount, FindAccount, Save, Import, ImportFails, At, history
  <2>2. /\ \A d \in Confirms : d # c => confirm'[d] = confirm[d]
        /\ confirm'[c].login = confirm[c].login /\ confirm'[c].step # "drop"
    BY <1>1, <1>9 DEF AskOwner, MakeAccount, FindAccount, Save, Import, ImportFails, To, Confirm
  <2> QED  BY <2>1, <2>2
<1> QED  BY <1>3, <1>4, <1>5, <1>6, <1>7, <1>9 DEF ConfirmStep

\* No login is new: the one in progress is the same, or removed by the request
\* of another login of its account that was handed over.
LEMMA ProgressKept ==
  ASSUME Inv, [Next]_vars, ProgressInv, recent' = recent, handed \subseteq handed',
         \A i \in Ids : \/ pending'[i] = pending[i]
                        \/ \E t \in recent \cap handed : login[t].account = i
  PROVE  InProgressUnlessOlderHanded'
<1> SUFFICES ASSUME NEW s \in recent, s \notin handed', login'[s].kind = "device",
                    \A t \in recent : t > s => login'[t].account # login'[s].account
             PROVE  \/ pending'[login'[s].account] = s
                    \/ \E t \in recent \cap handed' : t < s /\ login'[t].account = login'[s].account
  BY DEF InProgressUnlessOlderHanded
<1>1. recent \subseteq Logins /\ Logins \subseteq Int  BY Numbers DEF Inv, TypeOK
<1>2. \A t \in recent : login'[t].kind = login[t].kind /\ login'[t].account = login[t].account
  BY <1>1, LoginsStable DEF ProgressInv, RecentInv, NoLogin
<1>3. \/ pending[login[s].account] = s
      \/ \E t \in recent \cap handed : t < s /\ login[t].account = login[s].account
  BY <1>2 DEF ProgressInv, InProgressUnlessOlderHanded
<1>4. login[s].account \in Ids  BY <1>1, <1>2 DEF Inv, LoginInv
<1>5. ASSUME NEW t \in recent \cap handed, login[t].account = login[s].account
      PROVE  t < s
  <2>1. t # s /\ ~(t > s)  BY <1>2, <1>5
  <2> QED  BY <1>1, <2>1
<1> QED  BY <1>2, <1>3, <1>4, <1>5

\* A login that is new is in progress.
LEMMA ProgressBegins ==
  ASSUME Inv, [Next]_vars, ProgressInv, NEW l \in Login, New(l), handed' = handed,
         IF l.kind = "device"
         THEN l.account \in Ids /\ pending' = [pending EXCEPT ![l.account] = started + 1]
         ELSE l.kind = "oneclick" /\ l.account = 0 /\ pending' = pending
  PROVE  InProgressUnlessOlderHanded'
<1> DEFINE n == started + 1
<1>1. recent \subseteq Logins /\ Logins \subseteq Int /\ started \in Int
  BY Numbers DEF Inv, TypeOK
<1>2. recent' = recent \cup {n} /\ login' = [login EXCEPT ![n] = l] /\ n \in Logins
  BY <1>1, Numbers DEF New, Inv, TypeOK, Logins
<1>3. login'[n] = l /\ \A t \in recent : t < n /\ login'[t] = login[t]
  BY <1>1, <1>2 DEF Inv, TypeOK, ProgressInv, RecentInv
<1>4. \A i \in Ids : i # l.account => pending'[i] = pending[i]  BY DEF Inv, TypeOK
<1>5. l.kind = "device" => pending'[l.account] = n  BY DEF Inv, TypeOK
<1> HIDE DEF n
<1> SUFFICES ASSUME NEW s \in recent', s \notin handed, login'[s].kind = "device",
                    \A t \in recent' : t > s => login'[t].account # login'[s].account
             PROVE  \/ pending'[login'[s].account] = s
                    \/ \E t \in recent' \cap handed : t < s /\ login'[t].account = login'[s].account
  BY DEF InProgressUnlessOlderHanded
<1>6. CASE s = n  BY <1>3, <1>5, <1>6
<1>7. CASE s # n
  <2>1. s \in recent /\ n > s  BY <1>1, <1>2, <1>3, <1>7, Numbers
  <2>2. login[s].account \in Ids /\ login[s].account # l.account
    BY <1>1, <1>2, <1>3, <2>1 DEF Inv, LoginInv
  <2>3. \/ pending[login[s].account] = s
        \/ \E t \in recent \cap handed : t < s /\ login[t].account = login[s].account
    BY <1>2, <1>3, <2>1 DEF ProgressInv, InProgressUnlessOlderHanded
  <2> QED  BY <1>2, <1>3, <1>4, <2>1, <2>2, <2>3
<1> QED  BY <1>6, <1>7

\* A request keeps what is known of the process's own logins.
LEMMA RequestProgress ==
  ASSUME Inv, [Next]_vars, ProgressInv, NEW c \in Confirms, ConfirmStep(c)
  PROVE  ProgressInv'
<1>1. /\ UNCHANGED <<login, started, recent>> /\ handed \subseteq handed'
      /\ \A d \in Confirms : d # c => confirm'[d] = confirm[d]
  BY RequestSteps
<1>2. \A i \in Ids : \/ pending'[i] = pending[i]
                     \/ pending'[i] = 0 /\ \E t \in recent \cap handed : login[t].account = i
  <2>1. CASE pending' = pending  BY <2>1
  <2>2. CASE /\ confirm[c].step = "drop"
             /\ pending' = [pending EXCEPT ![confirm[c].id] = 0]
    <3> DEFINE t == confirm[c].login
    <3>1. Knows(c) /\ t \in handed  BY <2>2 DEF Inv, ConfirmInv, ProgressInv, RecentInv
    <3>2. login[t].kind = "device" /\ login[t].account = confirm[c].id
      BY <2>2, <3>1 DEF Knows, Meant
    <3>3. t \in recent  BY <2>2, <3>2 DEF ProgressInv, RecentInv
    <3> QED  BY <2>2, <3>1, <3>2, <3>3 DEF Inv, TypeOK
  <2> QED  BY <2>1, <2>2, RequestSteps
<1>3. InProgressUnlessOlderHanded'  BY <1>1, <1>2, ProgressKept
<1>4. \A s \in recent' : s <= started' /\ login'[s].kind \in {"device", "oneclick"}
  BY <1>1 DEF ProgressInv, RecentInv
<1>5. \A i \in Ids : pending'[i] # 0 => pending'[i] \in recent'
  BY <1>1, <1>2 DEF ProgressInv, RecentInv
<1>6. confirm'[c].step # "idle" /\ login[confirm'[c].login].kind = "device"
        => confirm'[c].login \in recent
  BY RequestSteps DEF ProgressInv, RecentInv
<1>7. confirm'[c].step = "drop" => confirm'[c].login \in handed'  BY RequestSteps
<1>8. \A d \in Confirms : confirm'[d].step # "idle" =>
        /\ login'[confirm'[d].login].kind = "device" => confirm'[d].login \in recent'
        /\ confirm'[d].step = "drop" => confirm'[d].login \in handed'
  <2> SUFFICES ASSUME NEW d \in Confirms, confirm'[d].step # "idle"
               PROVE  /\ login[confirm'[d].login].kind = "device" => confirm'[d].login \in recent
                      /\ confirm'[d].step = "drop" => confirm'[d].login \in handed'
    BY <1>1
  <2>1. CASE d = c  BY <1>6, <1>7, <2>1
  <2>2. CASE d # c  BY <1>1, <2>2 DEF ProgressInv, RecentInv
  <2> QED  BY <2>1, <2>2
<1> QED  BY <1>3, <1>4, <1>5, <1>8 DEF ProgressInv, RecentInv

LEMMA ProgressStep == Inv /\ ProgressInv /\ [Next]_vars => ProgressInv'
<1> SUFFICES ASSUME Inv, ProgressInv, [Next]_vars PROVE ProgressInv'  OBVIOUS
<1>1. \A c \in Confirms : confirm[c].step # "idle" =>
        /\ login'[confirm[c].login].kind = login[confirm[c].login].kind
        /\ login'[confirm[c].login].account = login[confirm[c].login].account
  BY LoginsStable DEF Inv, ConfirmInv, Knows, NoLogin
<1>2. \A s \in recent : login'[s].kind = login[s].kind
  BY LoginsStable DEF Inv, TypeOK, ProgressInv, RecentInv, NoLogin
<1>3. started' >= started /\ started \in Int /\ started' \in Int  BY LoginsStable
<1>4. \A s \in recent : s \in Int  BY Numbers DEF Inv, TypeOK
<1>5. CASE UNCHANGED <<recent, handed, pending, confirm>>
  <2>1. InProgressUnlessOlderHanded'  BY <1>5, ProgressKept
  <2>2. RecentInv'  BY <1>1, <1>2, <1>3, <1>4, <1>5 DEF ProgressInv, RecentInv
  <2> QED  BY <2>1, <2>2 DEF ProgressInv
<1>6. CASE \/ \E o \in Owners : AddAccount(o)
           \/ \E i \in Ids : DeleteAccount(i)
           \/ \E s \in Logins, o \in Owners : \E d \in {0, s} : Approve(s, o, d)
           \/ UNCHANGED vars
  BY <1>5, <1>6 DEF AddAccount, DeleteAccount, Approve, vars, server, history
<1>7. ASSUME NEW l \in Login, New(l), UNCHANGED <<handed, confirm>>,
             IF l.kind = "device"
             THEN l.account \in Ids /\ pending' = [pending EXCEPT ![l.account] = started + 1]
             ELSE l.kind = "oneclick" /\ l.account = 0 /\ pending' = pending
      PROVE  ProgressInv'
  <2>1. InProgressUnlessOlderHanded'  BY <1>7, ProgressBegins
  <2>2. started + 1 \in Logins  BY <1>3, <1>7, Numbers DEF New, Inv, TypeOK, Logins
  <2>3. /\ recent' = recent \cup {started + 1} /\ started' = started + 1
        /\ login'[started + 1] = l
    BY <1>7, <2>2 DEF New, Inv, TypeOK
  <2>4. \A s \in recent' : s <= started' /\ login'[s].kind \in {"device", "oneclick"}
    BY <1>2, <1>3, <1>4, <1>7, <2>3 DEF ProgressInv, RecentInv
  <2>5. \A i \in Ids : pending'[i] # 0 => pending'[i] \in recent'
    BY <1>7, <2>3 DEF ProgressInv, RecentInv, Inv, TypeOK
  <2>6. \A c \in Confirms : confirm'[c].step # "idle" =>
          /\ login'[confirm'[c].login].kind = "device" => confirm'[c].login \in recent'
          /\ confirm'[c].step = "drop" => confirm'[c].login \in handed'
    BY <1>1, <1>7, <2>3 DEF ProgressInv, RecentInv
  <2> QED  BY <2>1, <2>4, <2>5, <2>6 DEF ProgressInv, RecentInv
<1>8. ASSUME NEW i \in Ids, DeviceStart(i) PROVE ProgressInv'
  <2> DEFINE l == [NoLogin EXCEPT !.kind = "device", !.account = i, !.email = row[i].email]
  <2>1. l \in Login /\ l.kind = "device" /\ l.account = i
    <3>1. row[i].email \in Address  BY <1>8 DEF DeviceStart, Inv, TypeOK, Row
    <3> QED  BY <3>1, LoginTypes DEF NoLogin
  <2>2. New(l) /\ pending' = [pending EXCEPT ![i] = started + 1] /\ UNCHANGED <<handed, confirm>>
    BY <1>8 DEF DeviceStart
  <2> HIDE DEF l
  <2> QED  BY <1>7, <2>1, <2>2
<1>9. CASE OneClickStart
  <2> DEFINE l == [NoLogin EXCEPT !.kind = "oneclick"]
  <2>1. l \in Login /\ l.kind = "oneclick" /\ l.account = 0  BY LoginTypes DEF NoLogin
  <2>2. New(l) /\ UNCHANGED <<pending, handed, confirm>>  BY <1>9 DEF OneClickStart
  <2> HIDE DEF l
  <2> QED  BY <1>7, <2>1, <2>2
<1>10. CASE Restart
  <2>1. recent' = {} /\ \A i \in Ids : pending'[i] = 0  BY <1>10 DEF Restart
  <2>2. \A c \in Confirms : confirm'[c].step = "idle"  BY <1>10 DEF Restart, Idle
  <2> QED  BY <2>1, <2>2 DEF ProgressInv, RecentInv, InProgressUnlessOlderHanded
<1> QED  BY <1>6, <1>8, <1>9, <1>10, RequestProgress DEF Next

\* The page is told that no login is in progress only if there is none, or if
\* an older one of the account was handed over (handleDeviceConfirm, pending).
THEOREM LoginInProgress == Spec => []InProgressUnlessOlderHanded
<1>1. ProgressInv => InProgressUnlessOlderHanded  BY DEF ProgressInv
<1> QED  BY DeviceAuthInvariant, ProgressInit, ProgressStep, <1>1, PTL DEF Spec
=============================================================================
