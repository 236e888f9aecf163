--------------------------- MODULE DeviceIdentity ---------------------------
(***************************************************************************)
(* Which identity the requests of a device show.  The one in force can be  *)
(* switched at any time (Settings); an account keeps the one it was        *)
(* authorised under, as a snapshot in its row (server/identity.go).  Rows  *)
(* of older versions have no snapshot: they are pinned when the process    *)
(* starts (main.go), and, should that fail, by the first request.  A login *)
(* tells the gateway the name of the device, made of the identity in force *)
(* (device_flow.go) or fixed (oneclick.go).                                *)
(*                                                                         *)
(*   login:    begin -> confirm                                            *)
(*   request:  list -> credential (-> backfill) -> send                    *)
(*                                                                         *)
(* A device is named by the number of its login; 0 is the device that an   *)
(* older version has authorised.                                           *)
(***************************************************************************)
EXTENDS Settings

CONSTANTS
  Accounts,
  Requests,  \* goroutines that use an account
  OneClickName, \* "u1s12api-oneclick", the name of every one-click login
  MaxLogins  \* bound: logins ever begun

ASSUME IdentityAssumption ==
  MaxLogins \in Nat /\ OneClickName \notin Identities \cup {None}

VARIABLES
  device,   \* [Accounts -> Device]: the columns of table accounts
  login,    \* [Logins -> Login \cup {NoLogin}]: logins not yet confirmed
  logins,   \* logins begun so far
  told,     \* history: [Logins -> name the gateway was told, or None]
  request,  \* [Requests -> Request \cup {NoRequest}]
  shown,    \* history: [Devices -> SUBSET Identities]: what requests have shown
  exposed   \* history: devices yet without a snapshot when the identity changed

deviceVars == <<device, login, logins, told, request, shown, exposed>>
allVars == <<vars, deviceVars>>

-----------------------------------------------------------------------------
Logins == 1 .. MaxLogins
Devices == 0 .. MaxLogins

\* identity: device_identity.  name: the identity that device_name is made of.
\* A row of device None is not authorised.
Device == [device : Devices \cup {None}, identity : Identities \cup {None},
           name : Identities \cup {None}]
Unauthorised == [device |-> None, identity |-> None, name |-> None]

NoLogin == [account |-> None]
Login == [account : Accounts, name : Identities]

\* identity: of the listed row; shows: what the request will show.
NoRequest == [stage |-> "idle"]
Request == [stage : {"credential", "backfill", "send"}, account : Accounts,
            device : Devices, identity : Identities \cup {None}, shows : Identities]

Authorised(d) == [Unauthorised EXCEPT !.device = d]

\* Nothing is authorised yet, or an older version has authorised one account.
InitDevice ==
  /\ Init
  /\ login = [l \in Logins |-> NoLogin]
  /\ logins = 0
  /\ told = [l \in Logins |-> None]
  /\ request = [r \in Requests |-> NoRequest]
  /\ exposed = {}
  /\ \/ /\ device = [a \in Accounts |-> Unauthorised]
        /\ shown = [d \in Devices |-> {}]
     \/ /\ state # None
        /\ \E old \in Accounts :
             device = [a \in Accounts |-> IF a = old THEN Authorised(0) ELSE Unauthorised]
        /\ shown = [d \in Devices |-> IF d = 0 THEN {state} ELSE {}]

-----------------------------------------------------------------------------
(* The start of the process pins what it finds authorised.                 *)

Pinned(old, identity) ==
  IF old.device # None /\ old.identity = None THEN [old EXCEPT !.identity = identity] ELSE old

\* What has no snapshot in its row or in the hands of a request, and the
\* logins under way.
Unpinned ==
  {d \in Devices :
     \/ d \in Logins /\ login[d] # NoLogin
     \/ \E a \in Accounts : device[a].device = d /\ device[a].identity = None
     \/ \E r \in Requests : /\ request[r].stage \in {"credential", "backfill"}
                            /\ request[r].device = d /\ request[r].identity = None}

StartAndPin(variable, ok) ==
  /\ Start(variable)
  /\ device' = IF ok THEN [a \in Accounts |-> Pinned(device[a], current')] ELSE device
  /\ exposed' = IF current' # current THEN exposed \cup Unpinned ELSE exposed
  /\ UNCHANGED <<login, logins, told, request, shown>>

\* A start that fails later on has pinned the rows already, or has not.
StopAtStart(pins) ==
  /\ StartStops
  /\ LET identity == IdentityAtStart(Settled(file, 0, None).profile)
     IN /\ pins => state' = identity
        /\ device' = IF pins THEN [a \in Accounts |-> Pinned(device[a], identity)] ELSE device
        /\ exposed' = IF pins /\ identity # current THEN exposed \cup Unpinned ELSE exposed
  /\ UNCHANGED <<login, logins, told, request, shown>>

SwitchIdentity(s) ==
  /\ Switch(s)
  /\ exposed' = IF current' # current THEN exposed \cup Unpinned ELSE exposed
  /\ UNCHANGED <<device, login, logins, told, request, shown>>

\* Logins and requests live in memory only.
CrashAll ==
  /\ Crash
  /\ login' = [l \in Logins |-> NoLogin]
  /\ request' = [r \in Requests |-> NoRequest]
  /\ UNCHANGED <<device, logins, told, shown, exposed>>

-----------------------------------------------------------------------------
(* handleDeviceStart and handleDeviceConfirm, or the same of oneclick.go.   *)

\* The gateway is told the name that is stored, or that of a one-click login.
BeginLogin(a, name) ==
  /\ up
  /\ logins < MaxLogins
  /\ logins' = logins + 1
  /\ login' = [login EXCEPT ![logins + 1] = [account |-> a, name |-> current]]
  /\ told' = [told EXCEPT ![logins + 1] = name]
  /\ UNCHANGED <<vars, device, request, shown, exposed>>

\* Faulty: the credential is stored, and its snapshot left for later.
FaultyConfirmLogin(l) ==
  /\ login[l] # NoLogin
  /\ device' = [device EXCEPT ![login[l].account] =
                  [device |-> l, identity |-> None, name |-> login[l].name]]
  /\ login' = [login EXCEPT ![l] = NoLogin]
  /\ UNCHANGED <<vars, logins, told, request, shown, exposed>>

\* SaveAccountDeviceCredential: the snapshot is of the identity in force now,
\* the name of the one in force when the login began.
ConfirmLogin(l) ==
  /\ login[l] # NoLogin
  /\ device' = [device EXCEPT ![login[l].account] =
                  [device |-> l, identity |-> current, name |-> login[l].name]]
  /\ login' = [login EXCEPT ![l] = NoLogin]
  /\ UNCHANGED <<vars, logins, told, request, shown, exposed>>

-----------------------------------------------------------------------------
(* accountCredential and what is sent with the credential.                 *)

List(r, a) ==
  /\ up /\ request[r] = NoRequest
  /\ device[a].device # None
  /\ request' = [request EXCEPT ![r] =
                   [stage |-> "credential", account |-> a, device |-> device[a].device,
                    identity |-> device[a].identity, shows |-> Native]]
  /\ UNCHANGED <<vars, device, login, logins, told, shown, exposed>>

\* Faulty: requests show the identity in force.
FaultyShows(identity) == current

\* AccountToCredential: the snapshot, or the identity in force without one.
Shows(identity) == Or(identity, current)

Credential(r) ==
  /\ request[r].stage = "credential"
  /\ request' = [request EXCEPT
                   ![r].shows = Shows(request[r].identity),
                   ![r].stage = IF request[r].identity = None THEN "backfill" ELSE "send"]
  /\ UNCHANGED <<vars, device, login, logins, told, shown, exposed>>

\* Faulty: the snapshot is overwritten though the row has got one meanwhile.
FaultyBackfilled(old) == [old EXCEPT !.identity = current]

\* SetAccountDeviceIdentity: WHERE device_identity=''.
Backfilled(old) == IF old.identity = None THEN [old EXCEPT !.identity = current] ELSE old

\* backfillIdentity asks for the identity in force once more; a failure is
\* ignored.
Backfill(r, ok) ==
  /\ request[r].stage = "backfill"
  /\ device' = IF ok THEN [device EXCEPT ![request[r].account] = Backfilled(@)] ELSE device
  /\ request' = [request EXCEPT ![r].stage = "send"]
  /\ UNCHANGED <<vars, login, logins, told, shown, exposed>>

\* ChatFingerprintHeaders: User-Agent, platform and X-Stainless-*.
Send(r) ==
  /\ request[r].stage = "send"
  /\ shown' = [shown EXCEPT ![request[r].device] = @ \cup {request[r].shows}]
  /\ request' = [request EXCEPT ![r] = NoRequest]
  /\ UNCHANGED <<vars, device, login, logins, told, exposed>>

-----------------------------------------------------------------------------
RequestStep(r) == Credential(r) \/ (\E ok \in BOOLEAN : Backfill(r, ok)) \/ Send(r)

OtherSaverStep(s) ==
  \/ Remember(s) \/ Persist(s) \/ NotPersisted(s)
  \/ Save(s) \/ NotSaved(s) \/ Publish(s) \/ Rebuild(s)
  \/ \E body \in Bodies : Read(s, body)

NextDevice ==
  \/ \E s \in Savers : SwitchIdentity(s) \/ (OtherSaverStep(s) /\ UNCHANGED deviceVars)
  \/ \E variable \in EnvPasswords \cup {None}, ok \in BOOLEAN : StartAndPin(variable, ok)
  \/ \E pins \in BOOLEAN : StopAtStart(pins)
  \/ CrashAll
  \/ \E a \in Accounts : \/ \E name \in {current, OneClickName} : BeginLogin(a, name)
                          \/ \E r \in Requests : List(r, a)
  \/ \E l \in Logins : ConfirmLogin(l)
  \/ \E r \in Requests : RequestStep(r)

DeviceSpec == InitDevice /\ [][NextDevice]_allVars

-----------------------------------------------------------------------------
(* Correctness.                                                            *)

\* Every variable stays in its range.
DeviceTypeOK ==
  /\ device \in [Accounts -> Device]
  /\ login \in [Logins -> Login \cup {NoLogin}]
  /\ logins \in 0 .. MaxLogins
  /\ told \in [Logins -> Identities \cup {OneClickName, None}]
  /\ request \in [Requests -> Request \cup {NoRequest}]
  /\ shown \in [Devices -> SUBSET Identities]
  /\ exposed \in SUBSET Devices

\* A device never shows two identities, whatever is switched, restarted or
\* authorised again, unless the identity changed while it had no snapshot;
\* and that only happens to a device of an older version whose pinning at the
\* start failed, or before which a start was cut short and lost the state file
\* (design D-06: the identity belongs to the device).
OneIdentityPerDevice ==
  \A d \in Devices :
    \/ d \in exposed /\ d = 0
    \/ \A i, j \in shown[d] : i = j

\* The platform in the name that the gateway was told at a login, and in the
\* one its row has, is that of all requests of the device (fingerprint.go,
\* DeviceName: the gateway compares the two), unless the identity was switched
\* between the begin and the end of the login.  A one-click login tells a name
\* without a platform, so only the row can be compared there.
NameSameSourceButOneClick ==
  /\ \A l \in Logins \ exposed :
       told[l] # OneClickName => shown[l] \subseteq {told[l]}
  /\ \A a \in Accounts :
       device[a].device \in Logins \ exposed =>
         shown[device[a].device] \subseteq {device[a].name}
=============================================================================
