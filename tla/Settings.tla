------------------------------ MODULE Settings ------------------------------
(***************************************************************************)
(* The settings: the file .env (config/config.go), the settings in memory  *)
(* and the client built from them (server/server.go), the identity the     *)
(* requests show and its state file (fingerprint/fingerprint.go), and the  *)
(* handler that saves them (server/admin.go):                              *)
(*                                                                         *)
(*   read -> (switch -> remember -> persist) -> save -> publish -> rebuild *)
(*                                                                         *)
(* Nothing keeps two saves apart, and the process may stop between any two *)
(* steps and inside a write, those of its own start included: os.WriteFile *)
(* truncates the file first.  Three settings stand for the rest: the       *)
(* password of the admin page, which the environment may override; the     *)
(* proxy, of which the client is built; the profile, whose state is also   *)
(* kept elsewhere.  A value goes into .env as it is, and comes out of it   *)
(* without the quotes and without what follows a line break.               *)
(***************************************************************************)
EXTENDS Integers, FiniteSets

CONSTANTS
  Savers,       \* goroutines that serve PUT /admin/api/settings
  Passwords,    \* passwords that can be chosen
  EnvPasswords, \* passwords U1S12API_ADMIN_PASSWORD can have
  Proxies,      \* outbound proxies, Direct (none) among them
  Direct,
  BadProxies,   \* proxies no client can be built for
  Blank,        \* the empty password
  AsRead,       \* what .env gives back of a password or a proxy put into it
  Profiles,     \* identities that can be chosen
  Native,       \* profile "auto": the machine's own; or keep the one in force
  None,         \* no value: a line, a variable or a client that is missing
  Bodies,       \* bound: what the requests to save may set
  MaxSaves,     \* bound: saves ever begun
  MaxStarts     \* bound: starts of the process

ASSUME SettingsAssumption ==
  /\ EnvPasswords \subseteq Passwords
  /\ Direct \in Proxies
  /\ BadProxies \subseteq Proxies \ {Direct}
  /\ Native \notin Profiles
  /\ Blank \notin Passwords \cup Proxies \cup Nat \cup {None}
  /\ \A p \in Passwords : AsRead[p] \in Passwords \cup {Blank}
  /\ \A q \in Proxies : AsRead[q] \in Proxies
  /\ AsRead[Direct] = Direct
  /\ Proxies \cap Nat = {}
  /\ None \notin Passwords \cup Proxies \cup Profiles \cup {Native}
  /\ Passwords \cap Nat = {} /\ None \notin Nat
  /\ MaxSaves \in Nat /\ MaxStarts \in Nat

VARIABLES
  file,     \* .env, a value or None for each setting
  state,    \* data/fingerprint.json: an identity, or None
  up,       \* the process runs
  env,      \* U1S12API_ADMIN_PASSWORD, or None
  settings, \* the settings in memory; what they were while it is down
  current,  \* the identity in force; what it was while it is down
  client,   \* the proxy of the upstream client, or None
  saver,    \* [Savers -> Saver \cup {NoSaver}]
  saves,    \* saves begun so far
  starts,   \* starts so far
  agreed,   \* history: the settings as the answers have confirmed them, and .env
            \* gives them back; None once two saves overlapped, or one failed,
            \* since the start
  lost      \* history: a start that was cut short has emptied the state file

vars == <<file, state, up, env, settings, current, client, saver, saves, starts,
          agreed, lost>>

-----------------------------------------------------------------------------
\* A random password is named by the number of the start that has made it.
AllPasswords == Passwords \cup {Blank} \cup Nat
Identities == Profiles \cup {Native}

Value == [password : AllPasswords, proxy : Proxies, profile : Identities]
Lines == [password : AllPasswords \cup {None}, proxy : Proxies \cup {None},
          profile : Identities \cup {None}]

\* A file that is missing, or was truncated: Load puts comments into it.
Empty == [password |-> None, proxy |-> None, profile |-> None]

\* What a request sets; None is a field it leaves out.
Body == [password : Passwords \cup {None}, proxy : Proxies \cup {None},
         profile : Identities \cup {None}]

ASSUME BodiesAssumption == Bodies \subseteq Body

Or(value, default) == IF value = None THEN default ELSE value

\* PatchableFields and the body of the request over it.
Patched(old, body) ==
  [password |-> Or(body.password, old.password), proxy |-> Or(body.proxy, old.proxy),
   profile |-> Or(body.profile, old.profile)]

\* readEnvFile and getStr.  A random password has nothing that would be lost.
ReadBack(value) == IF value \in Passwords \cup Proxies THEN AsRead[value] ELSE value

\* Faulty: every start makes a password.
FaultySettled(lines, random, variable) ==
  [password |-> Or(variable, random),
   proxy |-> Or(ReadBack(lines.proxy), Direct), profile |-> Or(lines.profile, Native)]

\* The settings of a file; the environment goes before it (applyOSEnv), and
\* is not read from a file.
Settled(lines, random, variable) ==
  [password |-> Or(variable, Or(ReadBack(lines.password), random)),
   proxy |-> Or(ReadBack(lines.proxy), Direct), profile |-> Or(lines.profile, Native)]

\* body: what the request sets; all: the settings that Save will write, then
\* those that it has returned; seen: the identity for the state file.
NoSaver == [stage |-> "idle"]
Saver == [stage : {"switch", "remember", "persist", "save", "publish", "rebuild"},
          body : Body, all : Value, seen : Identities]

Quiet == \A s \in Savers : saver[s] = NoSaver

-----------------------------------------------------------------------------
(* Load, NewManager and New: the process starts.                           *)

\* Faulty: a profile that was chosen is kept only while .env names it.
FaultyIdentityAtStart(profile) == profile

\* .env may force an identity; otherwise the last one stays in force, and
\* only a new installation takes the machine's own.
IdentityAtStart(profile) == IF profile # Native THEN profile ELSE Or(state, Native)

ClientFor(proxy, old) == IF proxy \in BadProxies THEN old ELSE proxy

\* What a start should find: the settings agreed on, but for a password that
\* was never written or that the environment has a hand in.
AgreedAtStart(new, variable) ==
  IF agreed = None THEN new
  ELSE [agreed EXCEPT !.password =
          IF file.password = None \/ env # None \/ variable # None
          THEN new.password ELSE @]

Start(variable) ==
  /\ ~up
  /\ starts < MaxStarts
  /\ LET new == Settled(file, starts + 1, variable)
     IN /\ settings' = new
        /\ current' = IdentityAtStart(new.profile)
        /\ client' = ClientFor(new.proxy, None)
        /\ agreed' = AgreedAtStart(new, variable)
  /\ state' = current'
  /\ up' = TRUE
  /\ env' = variable
  /\ starts' = starts + 1
  /\ lost' = FALSE
  /\ UNCHANGED <<file, saver, saves>>

\* The start fails, or the process stops, on the way: before NewManager has
\* written the state file, in the middle of it, or after it.
StartStops ==
  /\ ~up
  /\ state' \in {state, None, IdentityAtStart(Settled(file, 0, None).profile)}
  /\ lost' = (lost \/ state' = None)
  /\ UNCHANGED <<file, up, env, settings, current, client, saver, saves, starts, agreed>>

\* A new installation, or one that an older version has left: it had picked a
\* profile and shown it ever since.
Init ==
  /\ file = Empty
  /\ state \in Profiles \cup {None}
  /\ up = FALSE
  /\ env = None
  /\ settings = Settled(Empty, 0, None)
  /\ current = Or(state, Native)
  /\ client = None
  /\ saver = [s \in Savers |-> NoSaver]
  /\ saves = 0
  /\ starts = 0
  /\ agreed = None
  /\ lost = FALSE

-----------------------------------------------------------------------------
(* handleSaveSettings.                                                     *)

Go(s, stage) == saver' = [saver EXCEPT ![s].stage = stage]

Leave(s) == saver' = [saver EXCEPT ![s] = NoSaver]

\* The settings are read; the rest of the request works on this copy.
Read(s, body) ==
  /\ up /\ saver[s] = NoSaver
  /\ saves < MaxSaves
  /\ saves' = saves + 1
  /\ saver' = [saver EXCEPT ![s] =
                 [stage |-> IF body.profile \in Profiles THEN "switch" ELSE "save",
                  body |-> body, all |-> Patched(settings, body), seen |-> Native]]
  /\ agreed' = IF Quiet THEN agreed ELSE None
  /\ UNCHANGED <<file, state, up, env, settings, current, client, starts, lost>>

\* SetProfile: the identity is in force at once ...
Switch(s) ==
  /\ saver[s].stage = "switch"
  /\ current' = saver[s].all.profile
  /\ Go(s, "remember")
  /\ UNCHANGED <<file, state, up, env, settings, client, saves, starts, agreed, lost>>

\* ... and persist writes down the one it finds.
Remember(s) ==
  /\ saver[s].stage = "remember"
  /\ saver' = [saver EXCEPT ![s].stage = "persist", ![s].seen = current]
  /\ UNCHANGED <<file, state, up, env, settings, current, client, saves, starts, agreed, lost>>

Persist(s) ==
  /\ saver[s].stage = "persist"
  /\ state' = saver[s].seen
  /\ saver' = [saver EXCEPT ![s].stage = "save", ![s].seen = Native]
  /\ UNCHANGED <<file, up, env, settings, current, client, saves, starts, agreed, lost>>

\* A failed write leaves the old file or an empty one; the answer is 500.
NotPersisted(s) ==
  /\ saver[s].stage = "persist"
  /\ state' \in {state, None}
  /\ Leave(s)
  /\ agreed' = None
  /\ UNCHANGED <<file, up, env, settings, current, client, saves, starts, lost>>

\* config.Save: all settings are written as they are, and read back.
Save(s) ==
  /\ saver[s].stage = "save"
  /\ file' = saver[s].all
  /\ saver' = [saver EXCEPT ![s].stage = "publish", ![s].all = Settled(file', 0, env)]
  /\ UNCHANGED <<state, up, env, settings, current, client, saves, starts, agreed, lost>>

NotSaved(s) ==
  /\ saver[s].stage = "save"
  /\ file' \in {file, Empty}
  /\ Leave(s)
  /\ agreed' = None
  /\ UNCHANGED <<state, up, env, settings, current, client, saves, starts, lost>>

\* Faulty: what was saved is used after the next start only.
FaultyPublish(s) ==
  /\ saver[s].stage = "publish"
  /\ Go(s, "rebuild")
  /\ UNCHANGED <<file, state, up, env, settings, current, client, saves, starts, agreed, lost>>

Publish(s) ==
  /\ saver[s].stage = "publish"
  /\ settings' = saver[s].all
  /\ Go(s, "rebuild")
  /\ UNCHANGED <<file, state, up, env, current, client, saves, starts, agreed, lost>>

\* The answer is 200: every setting has been through the file once more.
Confirmed(body) ==
  IF agreed = None THEN None
  ELSE [Patched(agreed, body) EXCEPT !.password = ReadBack(@), !.proxy = ReadBack(@)]

\* Faulty: the client is built from the settings this request has saved.
FaultyRebuild(s) ==
  /\ saver[s].stage = "rebuild"
  /\ client' = ClientFor(saver[s].all.proxy, client)
  /\ Leave(s)
  /\ agreed' = Confirmed(saver[s].body)
  /\ UNCHANGED <<file, state, up, env, settings, current, saves, starts, lost>>

\* rebuildClientLocked builds it from the settings it finds; without one for
\* them the old client stays.  The answer is 200 either way.
Rebuild(s) ==
  /\ saver[s].stage = "rebuild"
  /\ client' = ClientFor(settings.proxy, client)
  /\ Leave(s)
  /\ agreed' = Confirmed(saver[s].body)
  /\ UNCHANGED <<file, state, up, env, settings, current, saves, starts, lost>>

-----------------------------------------------------------------------------
\* The process stops.  A file that is being written may be left empty.
Crash ==
  /\ up
  /\ up' = FALSE
  /\ file' \in {file} \cup {Empty : s \in {x \in Savers : saver[x].stage = "save"}}
  /\ state' \in {state} \cup {None : s \in {x \in Savers : saver[x].stage = "persist"}}
  /\ saver' = [s \in Savers |-> NoSaver]
  /\ agreed' = IF Quiet THEN agreed ELSE None
  /\ UNCHANGED <<env, settings, current, client, saves, starts, lost>>

SaverStep(s) ==
  \/ Switch(s) \/ Remember(s) \/ Persist(s) \/ NotPersisted(s)
  \/ Save(s) \/ NotSaved(s) \/ Publish(s) \/ Rebuild(s)

Next ==
  \/ \E s \in Savers : SaverStep(s) \/ \E body \in Bodies : Read(s, body)
  \/ \E variable \in EnvPasswords \cup {None} : Start(variable)
  \/ StartStops
  \/ Crash

Spec == Init /\ [][Next]_vars

-----------------------------------------------------------------------------
(* Correctness.                                                            *)

\* Every variable stays in its range.
TypeOK ==
  /\ file \in Lines
  /\ state \in Identities \cup {None}
  /\ up \in BOOLEAN
  /\ env \in EnvPasswords \cup {None}
  /\ settings \in Value
  /\ current \in Identities
  /\ client \in Proxies \cup {None}
  /\ saver \in [Savers -> Saver \cup {NoSaver}]
  /\ saves \in Nat /\ starts \in Nat
  /\ agreed \in Value \cup {None}
  /\ lost \in BOOLEAN

\* Unless two saves overlap or one fails, every change that was answered with
\* 200 is in force and stays so over restarts, as .env gives it back: the
\* memory, the file and the answers agree (handleSaveSettings, Save, Load).  A
\* password from the environment hides the one agreed on.
LoneSavesInForce ==
  up /\ Quiet /\ agreed # None =>
    /\ settings.proxy = agreed.proxy
    /\ settings.profile = agreed.profile
    /\ env = None => settings.password = agreed.password

\* Whatever saves overlap, fail or are cut short: when no one is about to build
\* the client, it is the client of the newest settings, if there can be one
\* (rebuildClientLocked reads them under the lock).
ClientFollowsSettings ==
  up /\ (\A s \in Savers : saver[s].stage # "rebuild") /\ settings.proxy \notin BadProxies
    => client = settings.proxy

\* Though .env, the environment and the state file all have a say, a restart
\* changes neither the identity the requests show (NewManager: a device must
\* not change its operating system) nor the password of the admin page (Load),
\* unless saves overlapped, failed or were cut short.  The identity is also
\* lost when a start was cut short while it wrote the state file, and .env
\* names none; the password also changes while .env holds none, and when the
\* environment has a hand in it.
RestartKeepsSettings ==
  [][~up /\ up' /\ agreed # None
     => /\ ~lost \/ settings'.profile # Native => current' = current
        /\ (env = None /\ env' = None /\ file.password # None)
             => settings'.password = settings.password]_vars
=============================================================================
