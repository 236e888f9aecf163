----------------------------- MODULE DeviceAuth -----------------------------
(***************************************************************************)
(* How a device credential comes into the accounts table.  The             *)
(* administrator starts a login, for an account (server/device_flow.go) or *)
(* for an account yet unknown (server/oneclick.go); somebody approves it   *)
(* at the gateway; the page asks the server over and over again to confirm *)
(* it; and one of these requests gets the credential and stores it.        *)
(*                                                                         *)
(*   device:    poll -> drop -> save -> import -> finish                   *)
(*   one-click: poll -> me -> add -> find -> save -> import -> finish      *)
(*                                                                         *)
(* Every step is one statement of SQL, one critical section of the map of  *)
(* logins or one call of the gateway.  Accounts are added and deleted, and *)
(* the process may stop, between any two of them.  A credential, its API   *)
(* key and its device are named by the number of the login.                *)
(***************************************************************************)
EXTENDS Integers, FiniteSets

CONSTANTS
  Owners,    \* the people who can approve a login
  Nobody,    \* not one of them
  Confirms,  \* goroutines that serve a confirm request
  MaxId,     \* bound: accounts ever made
  MaxLogins, \* bound: logins ever started
  MaxEvents  \* bound: deletions, crashes and failures of the database

ASSUME DeviceAuthAssumption ==
  /\ Nobody \notin Owners
  /\ MaxId \in Nat /\ MaxLogins \in Nat /\ MaxEvents \in Nat

VARIABLES
  row,      \* [Ids -> Row \cup {NoRow}]: table accounts
  nextId,   \* the id of the next account (AUTOINCREMENT)
  login,    \* [Logins -> Login \cup {NoLogin}]: what the gateway knows
  started,  \* logins started so far
  pending,  \* [Ids -> 0 .. MaxLogins]: pendingDeviceMap, 0 is no entry
  oneClick, \* SUBSET Logins: oneClickMap
  confirm,  \* [Confirms -> Confirm]: the requests being served
  keys,     \* SUBSET Logins: API keys in table upstream_keys
  events,   \* deletions, crashes and failures so far
  handed,   \* history: credentials the gateway has handed over
  stored,   \* history: credentials that have been in a row
  lost,     \* history: credentials lost for a reason the code cannot help
  told,     \* history: <<login, account>> of the answers "authorized"
  recent    \* history: logins started since the process did

server == <<pending, oneClick, confirm>>
history == <<handed, stored, lost, told, recent>>
vars == <<row, nextId, login, started, server, keys, events, history>>

-----------------------------------------------------------------------------
Ids == 1 .. MaxId
Logins == 1 .. MaxLogins

\* An e-mail address: a person's, or the one made up from a device's id.  A
\* device whose id is no positive number is device 0.
Address == [mail : Owners \cup {Nobody}, device : 0 .. MaxLogins]
MailOf(o) == [mail |-> o, device |-> 0]
FallbackOf(d) == [mail |-> Nobody, device |-> d]
NoAddress == FallbackOf(0)

\* cred: the login the stored credential comes from, 0 before the first.
NoRow == [email |-> NoAddress, cred |-> -1]
Row == [email : Address, cred : 0 .. MaxLogins]

\* email: what the account was called when the login started.
NoLogin == [kind |-> "none", account |-> 0, email |-> NoAddress, owner |-> Nobody, device |-> 0]
Login == [kind : {"device", "oneclick"}, account : 0 .. MaxId, email : Address,
          owner : Owners \cup {Nobody}, device : 0 .. MaxLogins]

Idle == [step |-> "idle", login |-> 0, id |-> 0, email |-> NoAddress]
Confirm ==
  [step : {"idle", "poll", "drop", "me", "add", "find"},
   login : 0 .. MaxLogins, id : 0 .. MaxId, email : Address]
  \cup [step : {"save", "import", "finish"}, login : Logins, id : Ids, email : Address]

Accounts == {i \in Ids : row[i] # NoRow}

Init ==
  /\ row = [i \in Ids |-> NoRow]
  /\ nextId = 1
  /\ login = [s \in Logins |-> NoLogin]
  /\ started = 0
  /\ pending = [i \in Ids |-> 0]
  /\ oneClick = {}
  /\ confirm = [c \in Confirms |-> Idle]
  /\ keys = {}
  /\ events = 0
  /\ handed = {} /\ stored = {} /\ lost = {} /\ told = {} /\ recent = {}

-----------------------------------------------------------------------------
(* The accounts table.                                                     *)

\* Faulty: without AUTOINCREMENT the id of the last row is used again.
FaultyInsert(email) ==
  \E i \in Ids :
    /\ \A j \in Ids : (j >= i => row[j] = NoRow) /\ (j = i - 1 => row[j] # NoRow)
    /\ row' = [row EXCEPT ![i] = [email |-> email, cred |-> 0]]
    /\ nextId' = i + 1

\* A row for a new address; ids are never used again.
Insert(email) ==
  /\ nextId \in Ids
  /\ row' = [row EXCEPT ![nextId] = [email |-> email, cred |-> 0]]
  /\ nextId' = nextId + 1

Known(email) == \E i \in Accounts : row[i].email = email

\* Faulty: the column email is not UNIQUE.
FaultyInsertOrIgnore(email) == Insert(email)

\* AddAccount: INSERT OR IGNORE.
InsertOrIgnore(email) ==
  IF Known(email) THEN UNCHANGED <<row, nextId>> ELSE Insert(email)

\* handleAddAccount.
AddAccount(o) ==
  /\ ~Known(MailOf(o))
  /\ Insert(MailOf(o))
  /\ UNCHANGED <<login, started, server, keys, events, history>>

Happens == events < MaxEvents /\ events' = events + 1

\* handleDeleteAccount: the row goes, a login in progress stays.
DeleteAccount(i) ==
  /\ Happens
  /\ row[i] # NoRow
  /\ row' = [row EXCEPT ![i] = NoRow]
  /\ UNCHANGED <<nextId, login, started, server, keys, history>>

-----------------------------------------------------------------------------
(* A login is started and approved.                                        *)

New(l) ==
  /\ started < MaxLogins
  /\ started' = started + 1
  /\ login' = [login EXCEPT ![started + 1] = l]
  /\ recent' = recent \cup {started + 1}

\* handleDeviceStart: one login in progress per account, the last one.
DeviceStart(i) ==
  /\ row[i] # NoRow
  /\ New([NoLogin EXCEPT !.kind = "device", !.account = i, !.email = row[i].email])
  /\ pending' = [pending EXCEPT ![i] = started + 1]
  /\ UNCHANGED <<row, nextId, oneClick, confirm, keys, events, handed, stored, lost, told>>

\* handleOneClickStart.
OneClickStart ==
  /\ New([NoLogin EXCEPT !.kind = "oneclick"])
  /\ oneClick' = oneClick \cup {started + 1}
  /\ UNCHANGED <<row, nextId, pending, confirm, keys, events, handed, stored, lost, told>>

\* The gateway: somebody signs in and approves, whoever it is.
Approve(s, o, d) ==
  /\ login[s] # NoLogin /\ login[s].owner = Nobody
  /\ login' = [login EXCEPT ![s].owner = o, ![s].device = d]
  /\ UNCHANGED <<row, nextId, started, server, keys, events, history>>

-----------------------------------------------------------------------------
(* Confirm requests.                                                       *)

At(c, step) == confirm[c].step = step
To(c, step) == confirm' = [confirm EXCEPT ![c].step = step]
Return(c) == confirm' = [confirm EXCEPT ![c] = Idle]
TheLogin(c) == confirm[c].login
IsDevice(c) == login[TheLogin(c)].kind = "device"

\* handleDeviceConfirm: is a login in progress?
DeviceConfirm(c, i) ==
  /\ At(c, "idle")
  /\ pending[i] # 0
  /\ confirm' = [confirm EXCEPT ![c] =
                   [step |-> "poll", login |-> pending[i], id |-> i, email |-> NoAddress]]
  /\ UNCHANGED <<row, nextId, login, started, pending, oneClick, keys, events, history>>

\* handleOneClickConfirm.
OneClickConfirm(c, s) ==
  /\ At(c, "idle")
  /\ s \in oneClick
  /\ confirm' = [confirm EXCEPT ![c] =
                   [step |-> "poll", login |-> s, id |-> 0, email |-> NoAddress]]
  /\ UNCHANGED <<row, nextId, login, started, pending, oneClick, keys, events, history>>

\* Faulty: a login that failed is taken for one that is over.
FaultyPollInVain(c) ==
  /\ At(c, "poll")
  /\ IF IsDevice(c) THEN pending' = [pending EXCEPT ![confirm[c].id] = 0] ELSE UNCHANGED pending
  /\ Return(c)
  /\ UNCHANGED <<row, nextId, login, started, oneClick, keys, events, history>>

\* PollDeviceLoginOnce: an error, or not (or no longer) approved.
PollInVain(c) ==
  /\ At(c, "poll")
  /\ Return(c)
  /\ UNCHANGED <<row, nextId, login, started, pending, oneClick, keys, events, history>>

\* PollDeviceLoginOnce: approved, with the credential.
PollApproved(c) ==
  /\ At(c, "poll")
  /\ login[TheLogin(c)].owner # Nobody
  /\ handed' = handed \cup {TheLogin(c)}
  /\ To(c, IF IsDevice(c) THEN "drop" ELSE "me")
  /\ UNCHANGED <<row, nextId, login, started, pending, oneClick, keys, events, stored, lost, told, recent>>

\* pending.del: whichever login of the account is in progress.
Drop(c) ==
  /\ At(c, "drop")
  /\ pending' = [pending EXCEPT ![confirm[c].id] = 0]
  /\ To(c, "save")
  /\ UNCHANGED <<row, nextId, login, started, oneClick, keys, events, history>>

\* Faulty: devices without an account of their own share one.
FaultyFallback(c) == NoAddress

Fallback(c) == FallbackOf(login[TheLogin(c)].device)

\* DeviceMe: the address of who approved, or one made up for the device.
AskOwner(c) ==
  /\ At(c, "me")
  /\ \E email \in {MailOf(login[TheLogin(c)].owner), Fallback(c)} :
       confirm' = [confirm EXCEPT ![c].step = "add", ![c].email = email]
  /\ UNCHANGED <<row, nextId, login, started, pending, oneClick, keys, events, history>>

\* Faulty: the session is forgotten before its credential is stored.
FaultyMakeAccount(c) ==
  /\ At(c, "add")
  /\ InsertOrIgnore(confirm[c].email)
  /\ To(c, "find")
  /\ oneClick' = oneClick \ {TheLogin(c)}
  /\ UNCHANGED <<login, started, pending, keys, events, history>>

\* AddAccount.
MakeAccount(c) ==
  /\ At(c, "add")
  /\ InsertOrIgnore(confirm[c].email)
  /\ To(c, "find")
  /\ UNCHANGED <<login, started, pending, oneClick, keys, events, history>>

\* GetAccountByEmail, with the account there.
FindAccount(c) ==
  /\ At(c, "find")
  /\ \E i \in Accounts :
       /\ row[i].email = confirm[c].email
       /\ confirm' = [confirm EXCEPT ![c].step = "save", ![c].id = i]
  /\ UNCHANGED <<row, nextId, login, started, pending, oneClick, keys, events, history>>

\* GetAccountByEmail, with the account deleted meanwhile.
FindNothing(c) ==
  /\ At(c, "find")
  /\ ~Known(confirm[c].email)
  /\ Return(c)
  /\ UNCHANGED <<row, nextId, login, started, pending, oneClick, keys, events, history>>

\* Faulty: the key is imported and the answer prepared whether or not the
\* credential was stored.
FaultySaveFails(c) ==
  /\ Happens
  /\ At(c, "add") \/ At(c, "save")
  /\ To(c, "import")
  /\ UNCHANGED <<row, nextId, login, started, pending, oneClick, keys, history>>

\* AddAccount, GetAccountByEmail or SaveAccountDeviceCredential fails: a
\* device login has been dropped by then, a one-click login can be confirmed
\* again.
SaveFails(c) ==
  /\ Happens
  /\ At(c, "add") \/ At(c, "find") \/ At(c, "save")
  /\ Return(c)
  /\ lost' = IF IsDevice(c) THEN lost \cup {TheLogin(c)} ELSE lost
  /\ UNCHANGED <<row, nextId, login, started, pending, oneClick, keys, handed, stored, told, recent>>

\* SaveAccountDeviceCredential: an UPDATE of the row, if there is one.
Save(c) ==
  /\ At(c, "save")
  /\ LET i == confirm[c].id IN
       IF row[i] # NoRow
       THEN /\ row' = [row EXCEPT ![i].cred = TheLogin(c)]
            /\ stored' = stored \cup {TheLogin(c)}
            /\ UNCHANGED lost
       ELSE /\ lost' = lost \cup {TheLogin(c)}
            /\ UNCHANGED <<row, stored>>
  /\ To(c, "import")
  /\ UNCHANGED <<nextId, login, started, pending, oneClick, keys, events, handed, told, recent>>

\* AddUpstreamKey and Reload.
Import(c) ==
  /\ At(c, "import")
  /\ keys' = keys \cup {TheLogin(c)}
  /\ To(c, "finish")
  /\ UNCHANGED <<row, nextId, login, started, pending, oneClick, events, history>>

\* AddUpstreamKey fails, which is only logged.
ImportFails(c) ==
  /\ Happens
  /\ At(c, "import")
  /\ To(c, "finish")
  /\ UNCHANGED <<row, nextId, login, started, pending, oneClick, keys, history>>

\* The check-in, whose result is not looked at; oneClick.del; "authorized".
Finish(c) ==
  /\ At(c, "finish")
  /\ oneClick' = oneClick \ {TheLogin(c)}
  /\ told' = told \cup {<<TheLogin(c), confirm[c].id>>}
  /\ Return(c)
  /\ UNCHANGED <<row, nextId, login, started, pending, keys, events, handed, stored, lost, recent>>

-----------------------------------------------------------------------------
\* The process stops and starts again: what is in memory is gone.
Restart ==
  /\ Happens
  /\ pending' = [i \in Ids |-> 0]
  /\ oneClick' = {}
  /\ confirm' = [c \in Confirms |-> Idle]
  /\ recent' = {}
  /\ lost' = lost \cup (handed \ stored)
  /\ UNCHANGED <<row, nextId, login, started, keys, handed, stored, told>>

ConfirmStep(c) ==
  \/ \E i \in Ids : DeviceConfirm(c, i)
  \/ \E s \in Logins : OneClickConfirm(c, s)
  \/ PollInVain(c) \/ PollApproved(c) \/ Drop(c) \/ AskOwner(c)
  \/ MakeAccount(c) \/ FindAccount(c) \/ FindNothing(c)
  \/ SaveFails(c) \/ Save(c) \/ Import(c) \/ ImportFails(c) \/ Finish(c)

Next ==
  \/ \E o \in Owners : AddAccount(o)
  \/ \E i \in Ids : DeleteAccount(i) \/ DeviceStart(i)
  \/ OneClickStart
  \/ \E s \in Logins, o \in Owners : \E d \in {0, s} : Approve(s, o, d)
  \/ \E c \in Confirms : ConfirmStep(c)
  \/ Restart

Spec == Init /\ [][Next]_vars

-----------------------------------------------------------------------------
(* Properties.                                                             *)

\* Types; a request that stores a credential knows for which account.
TypeOK ==
  /\ row \in [Ids -> Row \cup {NoRow}]
  /\ nextId \in 1 .. MaxId + 1
  /\ login \in [Logins -> Login \cup {NoLogin}]
  /\ started \in 0 .. MaxLogins
  /\ pending \in [Ids -> 0 .. MaxLogins]
  /\ oneClick \subseteq Logins
  /\ confirm \in [Confirms -> Confirm]
  /\ keys \subseteq Logins
  /\ events \in 0 .. MaxEvents
  /\ handed \subseteq Logins /\ stored \subseteq Logins
  /\ lost \subseteq Logins /\ recent \subseteq Logins
  /\ told \subseteq Logins \X (0 .. MaxId)

\* A credential is in the row it was meant for: the account the login was
\* started for, and not another one that came to have its id; or the account
\* of who approved, or of the device that was approved.
CredentialOnItsAccount ==
  \A i \in Accounts : row[i].cred # 0 =>
    LET l == login[row[i].cred] IN
      IF l.kind = "device"
      THEN l.account = i /\ row[i].email = l.email
      ELSE row[i].email \in {MailOf(l.owner), FallbackOf(l.device)}

\* When the page is told "authorized", or the API key of a login is in the
\* pool, the credential has been stored, unless the account was deleted before
\* it could be: the UPDATE then finds no row and reports no error.
NothingBeforeTheCredential ==
  /\ \A t \in told : t[1] \in stored \/ row[t[2]] = NoRow
  /\ keys \subseteq stored \cup lost

InHand(c, s) == TheLogin(c) = s /\ ~At(c, "idle") /\ ~At(c, "poll")

\* A credential that the gateway has handed over is stored, or a request has
\* it in hand, or the login can be confirmed once more; else the process
\* stopped, the account was deleted, or the write of a device login failed.
HandedOverIsKept ==
  \A s \in handed \ (stored \cup lost) :
    s \in oneClick \/ \E c \in Confirms : InHand(c, s)

\* One device is in two rows only if the owner's address could be asked for
\* once and could not another time.
OneDeviceOneAccount ==
  \A i, j \in Accounts :
    i # j /\ row[i].cred = row[j].cred /\ row[i].cred # 0 =>
      /\ login[row[i].cred].kind = "oneclick"
      /\ row[i].email # row[j].email

\* A one-click login takes the place of somebody else's one-click login only
\* if the gateway has given no usable id for either device.
OwnersKeptApart ==
  [][\A i \in Ids :
       LET old == login[row[i].cred] new == login[row'[i].cred] IN
         /\ row[i] # NoRow /\ row[i].cred # 0
         /\ row'[i] # NoRow /\ row'[i].cred # row[i].cred
         /\ old.kind = "oneclick" /\ new.kind = "oneclick"
         /\ old.owner # new.owner
         => old.device = 0 /\ new.device = 0]_vars

\* The last login started for an account is in progress until its credential
\* is handed over or the process stops (so device_flow.go:124 tells the page
\* the truth), unless an older login of the account was approved and handed
\* over: its confirm request removes whichever login is in progress.
InProgressUnlessOlderHanded ==
  \A s \in recent \ handed :
    /\ login[s].kind = "device"
    /\ \A t \in recent : t > s => login[t].account # login[s].account
    => \/ pending[login[s].account] = s
       \/ \E t \in recent \cap handed : t < s /\ login[t].account = login[s].account
=============================================================================
