------------------------ MODULE DeviceIdentityProofs ------------------------
(***************************************************************************)
(* Settings and DeviceIdentity for any number of saves, starts, accounts,  *)
(* logins and requests: what was saved is in force, also after a restart,  *)
(* and a device shows one identity.                                        *)
(***************************************************************************)
EXTENDS DeviceIdentity, TLAPS

-----------------------------------------------------------------------------
(* The settings: the invariant.                                            *)

\* Two settings say the same, but for a password of the environment.
Same(x, y) ==
  /\ x.proxy = y.proxy /\ x.profile = y.profile
  /\ env = None => x.password = y.password

\* So does the file when it is read; it may not have a password yet.
FileSays(y) ==
  /\ Or(ReadBack(file.proxy), Direct) = y.proxy /\ Or(file.profile, Native) = y.profile
  /\ env = None /\ file.password # None => ReadBack(file.password) = y.password

\* The identity in force is the one remembered, unless a start has lost it, and
\* the one that was chosen.
Settle(profile) == (lost \/ state = current) /\ (profile # Native => current = profile)

\* What a save writes, and what is agreed on when its request is answered.
Meant(s) == Patched(agreed, saver[s].body)
Aim(s) == [Meant(s) EXCEPT !.password = ReadBack(@), !.proxy = ReadBack(@)]

\* The save of s, when there is no other, at each of its stages.
OnItsWay(s) ==
  /\ saver[s].stage \in {"switch", "remember", "persist", "save"} =>
       FileSays(agreed) /\ Same(saver[s].all, Meant(s))
  /\ saver[s].stage \in {"switch", "remember", "persist"} => Aim(s).profile # Native
  /\ saver[s].stage \in {"remember", "persist"} => current = Aim(s).profile
  /\ saver[s].stage = "persist" => saver[s].seen = current
  /\ saver[s].stage \in {"save", "publish", "rebuild"} => Settle(Aim(s).profile)
  /\ saver[s].stage \in {"publish", "rebuild"} => FileSays(Aim(s))
  /\ saver[s].stage = "publish" => Same(saver[s].all, Aim(s))
  /\ saver[s].stage = "rebuild" => Same(settings, Aim(s))

Kept ==
  agreed # None =>
    /\ \A s, t \in Savers : saver[s] # NoSaver /\ saver[t] # NoSaver => s = t
    /\ Quiet => Same(settings, agreed) /\ FileSays(agreed) /\ Settle(agreed.profile)
    /\ \A s \in Savers : saver[s] # NoSaver => OnItsWay(s)

SettingsInv ==
  /\ TypeOK
  /\ ~up => Quiet
  /\ ClientFollowsSettings
  /\ Kept

-----------------------------------------------------------------------------
\* None is a value of nothing, and the bounds are numbers.
LEMMA Nothing ==
  /\ None \notin AllPasswords /\ None \notin Proxies /\ None \notin Identities
  /\ Direct \in Proxies /\ Native \in Identities /\ Native \notin Profiles
  /\ Profiles \subseteq Identities /\ Passwords \subseteq AllPasswords
  /\ EnvPasswords \subseteq AllPasswords /\ Nat \subseteq AllPasswords
  /\ MaxSaves \in Nat /\ MaxStarts \in Nat
<1>1. None \notin AllPasswords /\ None \notin Proxies /\ None \notin Identities
  BY SettingsAssumption DEF AllPasswords, Identities
<1>2. Direct \in Proxies /\ Native \in Identities /\ Native \notin Profiles
  BY SettingsAssumption DEF Identities
<1>3. /\ Profiles \subseteq Identities /\ Passwords \subseteq AllPasswords
      /\ EnvPasswords \subseteq AllPasswords /\ Nat \subseteq AllPasswords
  BY SettingsAssumption DEF AllPasswords, Identities
<1> QED  BY <1>1, <1>2, <1>3, SettingsAssumption

\* The parts of settings, and of what stands for them.
LEMMA Parts ==
  /\ \A v \in Value : v.password \in AllPasswords /\ v.proxy \in Proxies /\ v.profile \in Identities
  /\ \A v \in Lines : /\ v.password \in AllPasswords \cup {None}
                      /\ v.proxy \in Proxies \cup {None} /\ v.profile \in Identities \cup {None}
  /\ \A b \in Body : /\ b.password \in AllPasswords \cup {None}
                     /\ b.proxy \in Proxies \cup {None} /\ b.profile \in Identities \cup {None}
  /\ Value \subseteq Lines
  /\ Empty \in Lines
BY Nothing DEF Value, Lines, Body, Empty

\* The file gives back passwords, proxies and what is neither.
LEMMA ReadBackType ==
  /\ \A p \in AllPasswords : ReadBack(p) \in AllPasswords
  /\ \A q \in Proxies : ReadBack(q) \in Proxies
  /\ ReadBack(None) = None
<1>1. \A p \in AllPasswords : ReadBack(p) \in AllPasswords
  <2> SUFFICES ASSUME NEW p \in AllPasswords PROVE ReadBack(p) \in AllPasswords  OBVIOUS
  <2>1. CASE p \in Passwords
    BY <2>1, SettingsAssumption DEF ReadBack, AllPasswords
  <2>2. CASE p \notin Passwords
    <3>1. p \notin Proxies  BY <2>2, SettingsAssumption DEF AllPasswords
    <3> QED  BY <2>2, <3>1 DEF ReadBack
  <2> QED  BY <2>1, <2>2
<1>2. \A q \in Proxies : ReadBack(q) \in Proxies  BY SettingsAssumption DEF ReadBack
<1>3. ReadBack(None) = None  BY SettingsAssumption DEF ReadBack
<1> QED  BY <1>1, <1>2, <1>3

\* Settings that went through the file are settings, and keep the profile.
LEMMA ThroughFile ==
  ASSUME NEW v \in Value
  PROVE  LET w == [v EXCEPT !.password = ReadBack(@), !.proxy = ReadBack(@)]
         IN /\ w \in Value /\ w.profile = v.profile
            /\ w.password = ReadBack(v.password) /\ w.proxy = ReadBack(v.proxy)
<1>1. ReadBack(v.password) \in AllPasswords /\ ReadBack(v.proxy) \in Proxies
  BY ReadBackType, Parts
<1> QED  BY <1>1 DEF Value

\* A request patches settings to settings.
LEMMA PatchedType ==
  ASSUME NEW old \in Value, NEW body \in Body
  PROVE  Patched(old, body) \in Value
<1>1. /\ Or(body.password, old.password) \in AllPasswords
      /\ Or(body.proxy, old.proxy) \in Proxies
      /\ Or(body.profile, old.profile) \in Identities
  BY Parts DEF Or
<1> QED  BY <1>1 DEF Patched, Value

\* Any lines make settings.
LEMMA SettledType ==
  ASSUME NEW lines \in Lines, NEW random \in Nat, NEW variable \in EnvPasswords \cup {None}
  PROVE  Settled(lines, random, variable) \in Value
<1>1. /\ Or(variable, Or(ReadBack(lines.password), random)) \in AllPasswords
      /\ Or(ReadBack(lines.proxy), Direct) \in Proxies
      /\ Or(lines.profile, Native) \in Identities
  <2>1. /\ ReadBack(lines.password) \in AllPasswords \cup {None}
        /\ ReadBack(lines.proxy) \in Proxies \cup {None}
    BY Parts, ReadBackType
  <2> QED  BY <2>1, Parts, Nothing DEF Or
<1> DEFINE p == Or(variable, Or(ReadBack(lines.password), random))
           q == Or(ReadBack(lines.proxy), Direct) i == Or(lines.profile, Native)
<1>2. Settled(lines, random, variable) = [password |-> p, proxy |-> q, profile |-> i]
  BY DEF Settled
<1>3. p \in AllPasswords /\ q \in Proxies /\ i \in Identities  BY <1>1
<1> HIDE DEF p, q, i
<1> QED  BY <1>2, <1>3 DEF Value

\* An identity at the start, and a client.
LEMMA StartType ==
  ASSUME TypeOK, NEW new \in Value
  PROVE  /\ IdentityAtStart(new.profile) \in Identities
         /\ \A p \in Proxies, old \in Proxies \cup {None} : ClientFor(p, old) \in Proxies \cup {None}
BY Parts, Nothing DEF IdentityAtStart, ClientFor, Or, TypeOK

\* A saver that does something.
LEMMA SaverParts ==
  ASSUME TypeOK, NEW s \in Savers, saver[s].stage # "idle" \/ saver[s] # NoSaver
  PROVE  /\ saver[s] \in Saver /\ saver[s] # NoSaver
         /\ saver[s].stage \in {"switch", "remember", "persist", "save", "publish", "rebuild"}
         /\ saver[s].body \in Body /\ saver[s].all \in Value
         /\ saver[s].seen \in Identities
BY DEF TypeOK, Saver, NoSaver

\* A saver that goes on to another stage.
LEMMA GoType ==
  ASSUME TypeOK, NEW s \in Savers, saver[s] \in Saver,
         NEW stage \in {"switch", "remember", "persist", "save", "publish", "rebuild"},
         Go(s, stage)
  PROVE  saver' \in [Savers -> Saver \cup {NoSaver}]
<1>1. [saver[s] EXCEPT !.stage = stage] \in Saver  BY DEF Saver
<1> QED  BY <1>1 DEF Go, TypeOK

LEMMA LeaveType ==
  ASSUME TypeOK, NEW s \in Savers, Leave(s)
  PROVE  saver' \in [Savers -> Saver \cup {NoSaver}]
BY DEF Leave, TypeOK

LEMMA SettingsTypes == TypeOK /\ [Next]_vars => TypeOK'
<1> SUFFICES ASSUME TypeOK, [Next]_vars PROVE TypeOK'  OBVIOUS
<1> USE Nothing
<1>1. ASSUME NEW s \in Savers, NEW body \in Bodies, Read(s, body) PROVE TypeOK'
  <2>0. body \in Body  BY BodiesAssumption
  <2>1. Patched(settings, body) \in Value  BY <2>0, PatchedType DEF TypeOK
  <2>2. [stage |-> IF body.profile \in Profiles THEN "switch" ELSE "save",
         body |-> body, all |-> Patched(settings, body), seen |-> Native] \in Saver
    BY <2>0, <2>1, Nothing DEF Saver, TypeOK
  <2>3. saver' \in [Savers -> Saver \cup {NoSaver}]  BY <1>1, <2>2 DEF Read, TypeOK
  <2>4. saves' \in Nat  BY <1>1 DEF Read, TypeOK
  <2>5. agreed' \in Value \cup {None}  BY <1>1 DEF Read, TypeOK
  <2> QED  BY <1>1, <2>3, <2>4, <2>5 DEF Read, TypeOK
<1>2. ASSUME NEW s \in Savers, Switch(s) PROVE TypeOK'
  <2>1. saver[s] \in Saver /\ saver[s].all.profile \in Identities
    BY <1>2, SaverParts, Parts DEF Switch
  <2>2. saver' \in [Savers -> Saver \cup {NoSaver}]  BY <1>2, <2>1, GoType DEF Switch
  <2> QED  BY <1>2, <2>1, <2>2 DEF Switch, TypeOK
<1>3. ASSUME NEW s \in Savers, Remember(s) PROVE TypeOK'
  <2>1. saver[s] \in Saver  BY <1>3, SaverParts DEF Remember
  <2>2. [saver[s] EXCEPT !.stage = "persist", !.seen = current] \in Saver
    BY <2>1 DEF Saver, TypeOK
  <2> QED  BY <1>3, <2>2 DEF Remember, TypeOK
<1>4. ASSUME NEW s \in Savers, Persist(s) PROVE TypeOK'
  <2>1. saver[s] \in Saver /\ saver[s].seen \in Identities
    BY <1>4, SaverParts DEF Persist
  <2>2. [saver[s] EXCEPT !.stage = "save", !.seen = Native] \in Saver  BY <2>1 DEF Saver
  <2>3. saver' \in [Savers -> Saver \cup {NoSaver}]  BY <1>4, <2>2 DEF Persist, TypeOK
  <2> QED  BY <1>4, <2>1, <2>3 DEF Persist, TypeOK
<1>5. ASSUME NEW s \in Savers, NotPersisted(s) PROVE TypeOK'
  BY <1>5, LeaveType DEF NotPersisted, TypeOK
<1>6. ASSUME NEW s \in Savers, Save(s) PROVE TypeOK'
  <2>1. saver[s] \in Saver /\ saver[s].all \in Value  BY <1>6, SaverParts DEF Save
  <2>2. file' \in Lines  BY <1>6, <2>1, Parts DEF Save
  <2>3. Settled(file', 0, env) \in Value  BY <2>2, SettledType DEF TypeOK
  <2>4. [saver[s] EXCEPT !.stage = "publish", !.all = Settled(file', 0, env)] \in Saver
    BY <2>1, <2>3 DEF Saver
  <2> QED  BY <1>6, <2>2, <2>4 DEF Save, TypeOK
<1>7. ASSUME NEW s \in Savers, NotSaved(s) PROVE TypeOK'
  BY <1>7, LeaveType, Parts DEF NotSaved, TypeOK
<1>8. ASSUME NEW s \in Savers, Publish(s) PROVE TypeOK'
  <2>1. saver[s] \in Saver /\ saver[s].all \in Value  BY <1>8, SaverParts DEF Publish
  <2>2. saver' \in [Savers -> Saver \cup {NoSaver}]  BY <1>8, <2>1, GoType DEF Publish
  <2> QED  BY <1>8, <2>1, <2>2 DEF Publish, TypeOK
<1>9. ASSUME NEW s \in Savers, Rebuild(s) PROVE TypeOK'
  <2>1. saver[s].body \in Body  BY <1>9, SaverParts DEF Rebuild
  <2>2. agreed' \in Value \cup {None}
    <3>1. CASE agreed = None  BY <1>9, <3>1 DEF Rebuild, Confirmed
    <3>2. CASE agreed # None
      <4>1. Patched(agreed, saver[s].body) \in Value  BY <2>1, <3>2, PatchedType DEF TypeOK
      <4> QED  BY <1>9, <3>2, <4>1, ThroughFile DEF Rebuild, Confirmed
    <3> QED  BY <3>1, <3>2
  <2>3. client' \in Proxies \cup {None}  BY <1>9, StartType, Parts DEF Rebuild, TypeOK
  <2> QED  BY <1>9, <2>2, <2>3, LeaveType DEF Rebuild, TypeOK
<1>10. ASSUME NEW variable \in EnvPasswords \cup {None}, Start(variable) PROVE TypeOK'
  <2> DEFINE new == Settled(file, starts + 1, variable)
  <2>1. starts + 1 \in Nat  BY DEF TypeOK
  <2>2. new \in Value  BY <2>1, SettledType DEF TypeOK
  <2>3. current' \in Identities /\ client' \in Proxies \cup {None}
    BY <1>10, <2>2, StartType, Parts DEF Start
  <2>4. agreed' \in Value \cup {None}
    <3>1. agreed' = AgreedAtStart(new, variable)  BY <1>10 DEF Start
    <3>2. CASE agreed = None  BY <2>2, <3>1, <3>2 DEF AgreedAtStart
    <3>3. CASE agreed # None
      <4>1. agreed \in Value /\ new.password \in AllPasswords  BY <2>2, <3>3, Parts DEF TypeOK
      <4> HIDE DEF new
      <4>2. [agreed EXCEPT !.password = new.password] \in Value  BY <4>1 DEF Value
      <4>3. [agreed EXCEPT !.password = @] \in Value  BY <4>1 DEF Value
      <4> QED  BY <3>1, <3>3, <4>2, <4>3 DEF AgreedAtStart
    <3> QED  BY <3>2, <3>3
  <2> QED  BY <1>10, <2>1, <2>2, <2>3, <2>4 DEF Start, TypeOK
<1>11. CASE Crash
  <2>1. file' \in Lines  BY <1>11, Parts DEF Crash, TypeOK
  <2>2. state' \in Identities \cup {None}  BY <1>11 DEF Crash, TypeOK
  <2> QED  BY <1>11, <2>1, <2>2 DEF Crash, TypeOK
<1>12. CASE UNCHANGED vars  BY <1>12 DEF vars, TypeOK
<1>13. CASE StartStops
  <2>1. Settled(file, 0, None) \in Value  BY SettledType DEF TypeOK
  <2>2. state' \in Identities \cup {None} /\ lost' \in BOOLEAN
    BY <1>13, <2>1, StartType DEF StartStops, TypeOK
  <2> QED  BY <1>13, <2>2 DEF StartStops, TypeOK
<1> QED
  BY <1>1, <1>2, <1>3, <1>4, <1>5, <1>6, <1>7, <1>8, <1>9, <1>10, <1>11, <1>12, <1>13
  DEF Next, SaverStep

-----------------------------------------------------------------------------
(* The settings: each step keeps the invariant.                            *)

LEMMA SettingsInit == Init => SettingsInv
<1> SUFFICES ASSUME Init PROVE SettingsInv  OBVIOUS
<1> USE Nothing DEF Init
<1>1. settings \in Value /\ Empty \in Lines  BY Parts, SettledType
<1>2. TypeOK  BY <1>1 DEF TypeOK, Or
<1>3. Quiet  BY DEF Quiet
<1> QED  BY <1>2, <1>3 DEF SettingsInv, ClientFollowsSettings, Kept

\* The client of settings that one can be built for.
LEMMA ClientStep ==
  TypeOK /\ ClientFollowsSettings /\ [Next]_vars => ClientFollowsSettings'
<1> SUFFICES ASSUME TypeOK, ClientFollowsSettings, [Next]_vars PROVE ClientFollowsSettings'
  OBVIOUS
<1>1. ASSUME NEW s \in Savers, Publish(s) PROVE ClientFollowsSettings'
  <2>1. saver'[s].stage = "rebuild"
    BY <1>1, SaverParts DEF Publish, Go, TypeOK, Saver
  <2> QED  BY <2>1 DEF ClientFollowsSettings
<1>2. ASSUME NEW s \in Savers, Rebuild(s) PROVE ClientFollowsSettings'
  BY <1>2 DEF Rebuild, ClientFor, ClientFollowsSettings
<1>3. ASSUME NEW variable \in EnvPasswords \cup {None}, Start(variable)
      PROVE  ClientFollowsSettings'
  BY <1>3 DEF Start, ClientFor, ClientFollowsSettings
<1>4. CASE Crash  BY <1>4 DEF Crash, ClientFollowsSettings
<1>8. CASE StartStops  BY <1>8 DEF StartStops, ClientFollowsSettings
<1>5. CASE UNCHANGED vars  BY <1>5 DEF vars, ClientFollowsSettings
<1>6. ASSUME NEW s \in Savers, saver[s].stage # "rebuild",
             \A t \in Savers : t # s => saver'[t] = saver[t],
             UNCHANGED <<up, settings, client>>
      PROVE  ClientFollowsSettings'
  BY <1>6 DEF ClientFollowsSettings
<1>7. ASSUME NEW s \in Savers,
             \/ \E body \in Bodies : Read(s, body)
             \/ Switch(s) \/ Remember(s) \/ Persist(s) \/ NotPersisted(s) \/ Save(s) \/ NotSaved(s)
      PROVE  ClientFollowsSettings'
  <2>1. saver[s].stage # "rebuild" /\ UNCHANGED <<up, settings, client>>
    BY <1>7 DEF Read, Switch, Remember, Persist, NotPersisted, Save, NotSaved, NoSaver
  <2>2. \A t \in Savers : t # s => saver'[t] = saver[t]
    BY <1>7 DEF Read, Switch, Remember, Persist, NotPersisted, Save, NotSaved, Go, Leave, TypeOK
  <2> QED  BY <1>6, <2>1, <2>2
<1> QED  BY <1>1, <1>2, <1>3, <1>4, <1>5, <1>7, <1>8 DEF Next, SaverStep

\* A step of one saver that leaves the promise alone, seen from the promise:
\* no other saver does anything, and this one goes on.
LEMMA AloneStep ==
  ASSUME TypeOK, Kept, agreed # None, agreed' = agreed, NEW s \in Savers,
         saver[s] # NoSaver, \A t \in Savers : t # s => saver'[t] = saver[t],
         saver'[s] # NoSaver, OnItsWay(s)'
  PROVE  Kept'
<1>1. \A t \in Savers : t # s => saver[t] = NoSaver /\ saver'[t] = NoSaver  BY DEF Kept
<1>2. ~Quiet'  BY DEF Quiet
<1> QED  BY <1>1, <1>2 DEF Kept

\* Patched settings, part by part.
LEMMA PatchedParts ==
  ASSUME NEW x, NEW y, NEW body, Same(x, y)
  PROVE  Same(Patched(x, body), Patched(y, body))
BY DEF Same, Patched, Or

\* What is aimed at, part by part.
LEMMA AimParts ==
  ASSUME SettingsInv, agreed # None, NEW s \in Savers, saver[s] # NoSaver
  PROVE  /\ Meant(s) \in Value /\ Aim(s) \in Value /\ Aim(s).profile = Meant(s).profile
         /\ Aim(s).password = ReadBack(Meant(s).password)
         /\ Aim(s).proxy = ReadBack(Meant(s).proxy)
<1>1. saver[s].body \in Body  BY SaverParts DEF SettingsInv
<1>2. Meant(s) \in Value  BY <1>1, PatchedType DEF Meant, SettingsInv, TypeOK
<1> QED  BY <1>2, ThroughFile DEF Aim

LEMMA ReadKept ==
  ASSUME SettingsInv, NEW s \in Savers, NEW body \in Bodies, Read(s, body)
  PROVE  Kept'
<1> USE DEF SettingsInv
<1>1. CASE agreed' = None  BY <1>1 DEF Kept
<1>2. CASE agreed' # None
  <2>1. Quiet /\ agreed' = agreed /\ agreed # None  BY <1>2 DEF Read
  <2>2. Same(settings, agreed) /\ FileSays(agreed) /\ Settle(agreed.profile)
    BY <2>1 DEF Kept
  <2>3. saver'[s] = [stage |-> IF body.profile \in Profiles THEN "switch" ELSE "save",
                     body |-> body, all |-> Patched(settings, body), seen |-> Native]
    BY DEF Read, TypeOK
  <2>4. \A t \in Savers : t # s => saver'[t] = NoSaver
    BY <2>1 DEF Read, Quiet, TypeOK
  <2>5. UNCHANGED <<file, state, env, current, settings>>  BY DEF Read
  <2>6. Meant(s)' = Patched(agreed, body)  BY <2>1, <2>3 DEF Meant
  <2>7. Same(Patched(settings, body), Patched(agreed, body))  BY <2>2, PatchedParts
  <2>8. FileSays(agreed)' /\ Same(saver'[s].all, Meant(s)')
    BY <2>1, <2>2, <2>3, <2>5, <2>6, <2>7 DEF FileSays
  <2>13. Aim(s)'.profile = Or(body.profile, agreed.profile)
    <3>1. body \in Body /\ agreed \in Value  BY <2>1, BodiesAssumption DEF TypeOK
    <3>2. Patched(agreed, body) \in Value  BY <3>1, PatchedType
    <3>3. Aim(s)' = [Patched(agreed, body) EXCEPT !.password = ReadBack(@), !.proxy = ReadBack(@)]
      BY <2>6 DEF Aim
    <3> QED  BY <3>2, <3>3, ThroughFile DEF Patched
  <2>9. body.profile \in Profiles => Aim(s)'.profile # Native
    BY <2>13, Nothing DEF Or
  <2>10. body.profile \notin Profiles => Settle(Aim(s).profile)'
    <3> SUFFICES ASSUME body.profile \notin Profiles PROVE Settle(Aim(s).profile)'  OBVIOUS
    <3>1. body.profile = None \/ body.profile = Native
      BY BodiesAssumption DEF Body, Identities
    <3>3. Aim(s)'.profile = agreed.profile \/ Aim(s)'.profile = Native
      BY <2>13, <3>1 DEF Or
    <3> QED  BY <2>2, <2>5, <3>3 DEF Settle, Read
  <2>11. OnItsWay(s)'
    BY <2>3, <2>8, <2>9, <2>10, <2>5 DEF OnItsWay, Same
  <2>12. ~Quiet'  BY <2>3 DEF Quiet, NoSaver
  <2> QED  BY <2>4, <2>11, <2>12 DEF Kept
<1> QED  BY <1>1, <1>2

\* A save that goes on.
LEMMA GoesOn ==
  ASSUME SettingsInv, NEW s \in Savers, saver[s] # NoSaver, agreed' = agreed,
         \A t \in Savers : t # s => saver'[t] = saver[t], saver'[s] # NoSaver,
         agreed # None /\ OnItsWay(s) => OnItsWay(s)'
  PROVE  Kept'
<1>1. CASE agreed = None  BY <1>1 DEF Kept
<1>2. CASE agreed # None
  <2>1. OnItsWay(s)  BY <1>2 DEF SettingsInv, Kept
  <2> QED  BY <1>2, <2>1, AloneStep DEF SettingsInv
<1> QED  BY <1>1, <1>2

LEMMA SwitchKept ==
  ASSUME SettingsInv, NEW s \in Savers, Switch(s)
  PROVE  Kept'
<1>1. saver[s] # NoSaver /\ saver[s].stage = "switch"  BY DEF Switch, NoSaver
<1>2. /\ saver'[s] = [saver[s] EXCEPT !.stage = "remember"]
      /\ \A t \in Savers : t # s => saver'[t] = saver[t]
  BY DEF Switch, Go, SettingsInv, TypeOK
<1>3. saver[s] \in Saver  BY <1>1, SaverParts DEF SettingsInv
<1>4. /\ saver'[s].stage = "remember" /\ saver'[s].body = saver[s].body
      /\ saver'[s].all = saver[s].all
  BY <1>2, <1>3 DEF Saver
<1>5. ASSUME agreed # None, OnItsWay(s) PROVE OnItsWay(s)'
  <2>1. Meant(s)' = Meant(s) /\ Aim(s)' = Aim(s)  BY <1>4 DEF Aim, Meant, Switch
  <2>2. FileSays(agreed) /\ Same(saver[s].all, Meant(s)) /\ Aim(s).profile # Native
    BY <1>1, <1>5 DEF OnItsWay
  <2>3. current' = Aim(s).profile  BY <1>1, <1>5, <2>2, AimParts DEF Switch, Same
  <2>4. FileSays(agreed)' /\ Same(saver[s].all, Meant(s))'
    BY <1>4, <2>1, <2>2 DEF FileSays, Same, Switch
  <2> QED  BY <1>4, <2>1, <2>2, <2>3, <2>4 DEF OnItsWay
<1> QED  BY <1>1, <1>2, <1>4, <1>5, GoesOn DEF Switch, NoSaver

LEMMA RememberKept ==
  ASSUME SettingsInv, NEW s \in Savers, Remember(s)
  PROVE  Kept'
<1>1. saver[s] # NoSaver /\ saver[s].stage = "remember"  BY DEF Remember, NoSaver
<1>2. /\ saver'[s] = [saver[s] EXCEPT !.stage = "persist", !.seen = current]
      /\ \A t \in Savers : t # s => saver'[t] = saver[t]
  BY DEF Remember, SettingsInv, TypeOK
<1>3. saver[s] \in Saver  BY <1>1, SaverParts DEF SettingsInv
<1>4. /\ saver'[s].stage = "persist" /\ saver'[s].body = saver[s].body
      /\ saver'[s].all = saver[s].all /\ saver'[s].seen = current
  BY <1>2, <1>3 DEF Saver
<1>5. ASSUME agreed # None, OnItsWay(s) PROVE OnItsWay(s)'
  <2>1. Meant(s)' = Meant(s) /\ Aim(s)' = Aim(s)  BY <1>4 DEF Aim, Meant, Remember
  <2>2. /\ FileSays(agreed) /\ Same(saver[s].all, Meant(s)) /\ Aim(s).profile # Native
        /\ current = Aim(s).profile
    BY <1>1, <1>5 DEF OnItsWay
  <2>3. FileSays(agreed)' /\ Same(saver[s].all, Meant(s))' /\ current' = current
    BY <1>4, <2>1, <2>2 DEF FileSays, Same, Remember
  <2> QED  BY <1>4, <2>1, <2>2, <2>3 DEF OnItsWay
<1>6. saver'[s] # NoSaver /\ agreed' = agreed
  <2>1. saver'[s] # NoSaver  BY <1>4 DEF NoSaver
  <2>2. agreed' = agreed  BY DEF Remember
  <2> QED  BY <2>1, <2>2
<1> QED  BY <1>1, <1>2, <1>5, <1>6, GoesOn

LEMMA PersistKept ==
  ASSUME SettingsInv, NEW s \in Savers, Persist(s)
  PROVE  Kept'
<1>1. saver[s] # NoSaver /\ saver[s].stage = "persist"  BY DEF Persist, NoSaver
<1>2. /\ saver'[s] = [saver[s] EXCEPT !.stage = "save", !.seen = Native]
      /\ \A t \in Savers : t # s => saver'[t] = saver[t]
  BY DEF Persist, SettingsInv, TypeOK
<1>3. saver[s] \in Saver  BY <1>1, SaverParts DEF SettingsInv
<1>4. /\ saver'[s].stage = "save" /\ saver'[s].body = saver[s].body
      /\ saver'[s].all = saver[s].all
  BY <1>2, <1>3 DEF Saver
<1>5. ASSUME agreed # None, OnItsWay(s) PROVE OnItsWay(s)'
  <2>1. Meant(s)' = Meant(s) /\ Aim(s)' = Aim(s)  BY <1>4 DEF Aim, Meant, Persist
  <2>2. /\ FileSays(agreed) /\ Same(saver[s].all, Meant(s))
        /\ current = Aim(s).profile /\ saver[s].seen = current
    BY <1>1, <1>5 DEF OnItsWay
  <2>3. FileSays(agreed)' /\ Same(saver[s].all, Meant(s))'
    BY <1>4, <2>1, <2>2 DEF FileSays, Same, Persist
  <2>4. Settle(Aim(s).profile)'  BY <2>1, <2>2 DEF Settle, Persist
  <2> QED  BY <1>4, <2>3, <2>4 DEF OnItsWay
<1>6. saver'[s] # NoSaver /\ agreed' = agreed
  <2>1. saver'[s] # NoSaver  BY <1>4 DEF NoSaver
  <2>2. agreed' = agreed  BY DEF Persist
  <2> QED  BY <2>1, <2>2
<1> QED  BY <1>1, <1>2, <1>5, <1>6, GoesOn

\* What is written is what is read back.
LEMMA SaveKept ==
  ASSUME SettingsInv, NEW s \in Savers, Save(s)
  PROVE  Kept'
<1>1. saver[s] # NoSaver /\ saver[s].stage = "save"  BY DEF Save, NoSaver
<1>2. /\ saver'[s] = [saver[s] EXCEPT !.stage = "publish", !.all = Settled(file', 0, env)]
      /\ \A t \in Savers : t # s => saver'[t] = saver[t]
  BY DEF Save, SettingsInv, TypeOK
<1>3. saver[s] \in Saver /\ saver[s].all \in Value  BY <1>1, SaverParts DEF SettingsInv
<1>4. /\ saver'[s].stage = "publish" /\ saver'[s].body = saver[s].body
      /\ saver'[s].all = Settled(file', 0, env)
  BY <1>2, <1>3 DEF Saver
<1>5. /\ file'.password = saver[s].all.password /\ ReadBack(file'.password) # None
      /\ Or(ReadBack(file'.proxy), Direct) = ReadBack(saver[s].all.proxy)
      /\ Or(file'.profile, Native) = saver[s].all.profile
  <2>1. file' = saver[s].all  BY DEF Save
  <2>2. /\ saver[s].all.password \in AllPasswords /\ saver[s].all.proxy \in Proxies
        /\ saver[s].all.profile # None
    BY <1>3, Parts, Nothing
  <2>3. ReadBack(saver[s].all.password) # None /\ ReadBack(saver[s].all.proxy) # None
    BY <2>2, ReadBackType, Nothing
  <2> QED  BY <2>1, <2>2, <2>3 DEF Or
<1>6. /\ saver'[s].all.proxy = ReadBack(saver[s].all.proxy)
      /\ saver'[s].all.profile = saver[s].all.profile
      /\ env = None => saver'[s].all.password = ReadBack(saver[s].all.password)
  BY <1>4, <1>5 DEF Settled, Or
<1>7. ASSUME agreed # None, OnItsWay(s) PROVE OnItsWay(s)'
  <2>1. Meant(s)' = Meant(s) /\ Aim(s)' = Aim(s) /\ env' = env
    BY <1>4 DEF Aim, Meant, Save
  <2>2. Same(saver[s].all, Meant(s)) /\ Settle(Aim(s).profile)
    BY <1>1, <1>7 DEF OnItsWay
  <2>6. /\ Aim(s).profile = Meant(s).profile
        /\ Aim(s).password = ReadBack(Meant(s).password)
        /\ Aim(s).proxy = ReadBack(Meant(s).proxy)
    BY <1>1, <1>7, AimParts
  <2>3. FileSays(Aim(s))'  BY <1>5, <2>1, <2>2, <2>6 DEF FileSays, Same
  <2>4. Same(saver[s].all, Aim(s))'  BY <1>6, <2>1, <2>2, <2>6 DEF Same
  <2>5. Settle(Aim(s).profile)'  BY <2>1, <2>2 DEF Settle, Save
  <2> QED  BY <1>4, <2>3, <2>4, <2>5 DEF OnItsWay
<1>8. saver'[s] # NoSaver /\ agreed' = agreed
  <2>1. saver'[s] # NoSaver  BY <1>4 DEF NoSaver
  <2>2. agreed' = agreed  BY DEF Save
  <2> QED  BY <2>1, <2>2
<1> QED  BY <1>1, <1>2, <1>7, <1>8, GoesOn

LEMMA PublishKept ==
  ASSUME SettingsInv, NEW s \in Savers, Publish(s)
  PROVE  Kept'
<1>1. saver[s] # NoSaver /\ saver[s].stage = "publish"  BY DEF Publish, NoSaver
<1>2. /\ saver'[s] = [saver[s] EXCEPT !.stage = "rebuild"]
      /\ \A t \in Savers : t # s => saver'[t] = saver[t]
  BY DEF Publish, Go, SettingsInv, TypeOK
<1>3. saver[s] \in Saver  BY <1>1, SaverParts DEF SettingsInv
<1>4. saver'[s].stage = "rebuild" /\ saver'[s].body = saver[s].body
  BY <1>2, <1>3 DEF Saver
<1>5. ASSUME agreed # None, OnItsWay(s) PROVE OnItsWay(s)'
  <2>1. Aim(s)' = Aim(s)  BY <1>4 DEF Aim, Meant, Publish
  <2>2. FileSays(Aim(s)) /\ Same(saver[s].all, Aim(s)) /\ Settle(Aim(s).profile)
    BY <1>1, <1>5 DEF OnItsWay
  <2>3. FileSays(Aim(s))'  BY <2>1, <2>2 DEF FileSays, Publish
  <2>4. Same(settings, Aim(s))'  BY <2>1, <2>2 DEF Same, Publish
  <2>5. Settle(Aim(s).profile)'  BY <2>1, <2>2 DEF Settle, Publish
  <2> QED  BY <1>4, <2>3, <2>4, <2>5 DEF OnItsWay
<1> QED  BY <1>1, <1>2, <1>4, <1>5, GoesOn DEF Publish, NoSaver

\* The answer confirms what is in force.
LEMMA RebuildKept ==
  ASSUME SettingsInv, NEW s \in Savers, Rebuild(s)
  PROVE  Kept'
<1>1. CASE agreed = None  BY <1>1 DEF Rebuild, Confirmed, Kept
<1>2. CASE agreed # None
  <2>1. saver[s] # NoSaver /\ saver[s].stage = "rebuild"  BY DEF Rebuild, NoSaver
  <2>2. OnItsWay(s) /\ \A t \in Savers : t # s => saver[t] = NoSaver
    BY <1>2, <2>1 DEF SettingsInv, Kept
  <2>3. \A t \in Savers : saver'[t] = NoSaver
    BY <2>2 DEF Rebuild, Leave, SettingsInv, TypeOK
  <2>4. agreed' = Aim(s)  BY <1>2 DEF Rebuild, Confirmed, Aim, Meant
  <2>5. FileSays(Aim(s)) /\ Same(settings, Aim(s)) /\ Settle(Aim(s).profile)
    BY <2>1, <2>2 DEF OnItsWay
  <2>6. Same(settings, agreed)'  BY <2>4, <2>5 DEF Same, Rebuild
  <2>7. FileSays(agreed)'  BY <2>4, <2>5 DEF FileSays, Rebuild
  <2>8. Settle(agreed.profile)'  BY <2>4, <2>5 DEF Settle, Rebuild
  <2> QED  BY <2>3, <2>6, <2>7, <2>8 DEF Kept
<1> QED  BY <1>1, <1>2

\* A password in the file is one when it is read.
LEMMA FilePassword == TypeOK /\ file.password # None => ReadBack(file.password) # None
<1> SUFFICES ASSUME TypeOK, file.password # None PROVE ReadBack(file.password) # None  OBVIOUS
<1>1. file.password \in AllPasswords  BY Parts DEF TypeOK
<1> QED  BY <1>1, ReadBackType, Nothing

\* A start finds what was agreed on.
LEMMA StartKept ==
  ASSUME SettingsInv, ~up, NEW variable \in EnvPasswords \cup {None}, Start(variable)
  PROVE  Kept'
<1> DEFINE new == Settled(file, starts + 1, variable)
<1>1. Quiet /\ saver' = saver /\ file' = file /\ env' = variable  BY DEF SettingsInv, Start
<1>2. \A s \in Savers : saver'[s] = NoSaver  BY <1>1 DEF Quiet
<1>3. /\ settings' = new /\ state' = current' /\ current' = IdentityAtStart(new.profile)
      /\ agreed' = AgreedAtStart(new, variable)
  BY DEF Start
<1>4. /\ new.proxy = Or(ReadBack(file.proxy), Direct)
      /\ new.profile = Or(file.profile, Native)
      /\ new.password = Or(variable, Or(ReadBack(file.password), starts + 1))
  BY DEF Settled
<1>5. variable = None /\ file.password # None => new.password = ReadBack(file.password)
  BY <1>4, FilePassword DEF Or, SettingsInv
<1> HIDE DEF new
<1>6. /\ agreed'.proxy = new.proxy /\ agreed'.profile = new.profile
      /\ variable = None => agreed'.password = new.password
  <2>1. CASE agreed = None  BY <1>3, <2>1 DEF AgreedAtStart
  <2>2. CASE agreed # None
    <3>1. FileSays(agreed) /\ agreed \in Value  BY <1>1, <2>2 DEF SettingsInv, Kept, TypeOK
    <3>2. /\ agreed'.proxy = agreed.proxy /\ agreed'.profile = agreed.profile
          /\ agreed'.password = IF file.password = None \/ env # None \/ variable # None
                                THEN new.password ELSE agreed.password
      BY <1>3, <2>2, <3>1 DEF AgreedAtStart, Value
    <3> QED  BY <1>4, <1>5, <3>1, <3>2 DEF FileSays
  <2> QED  BY <2>1, <2>2
<1>7. Same(settings, agreed)'  BY <1>1, <1>3, <1>6 DEF Same
<1>8. FileSays(agreed)'  BY <1>1, <1>4, <1>5, <1>6 DEF FileSays
<1>9. Settle(agreed.profile)'  BY <1>3, <1>6 DEF Settle, IdentityAtStart
<1> QED  BY <1>2, <1>7, <1>8, <1>9 DEF Kept

\* A start that is cut short may lose the state file, and nothing else.
LEMMA StopKept ==
  ASSUME SettingsInv, StartStops
  PROVE  Kept'
<1>1. /\ ~up /\ Quiet /\ lost' = (lost \/ state' = None)
      /\ state' \in {state, None, IdentityAtStart(Settled(file, 0, None).profile)}
      /\ UNCHANGED <<file, env, settings, current, saver, agreed>>
  BY DEF StartStops, SettingsInv
<1>2. CASE agreed = None  BY <1>1, <1>2 DEF Kept
<1>3. CASE agreed # None
  <2>1. Same(settings, agreed) /\ FileSays(agreed) /\ Settle(agreed.profile)
    BY <1>1, <1>3 DEF SettingsInv, Kept
  <2>2. Settled(file, 0, None).profile = agreed.profile  BY <2>1 DEF Settled, FileSays
  <2>3. current # None /\ agreed.profile # None
    BY <1>3, Nothing, Parts DEF SettingsInv, TypeOK
  <2>4. ~lost => IdentityAtStart(agreed.profile) = current
    BY <2>1, <2>3 DEF Settle, IdentityAtStart, Or
  <2>5. Settle(agreed.profile)'  BY <1>1, <2>1, <2>2, <2>4 DEF Settle
  <2>6. Same(settings, agreed)' /\ FileSays(agreed)'  BY <1>1, <2>1 DEF Same, FileSays
  <2>7. \A s \in Savers : saver'[s] = NoSaver  BY <1>1 DEF Quiet
  <2> QED  BY <2>5, <2>6, <2>7 DEF Kept
<1> QED  BY <1>2, <1>3

LEMMA CrashKept ==
  ASSUME SettingsInv, Crash
  PROVE  Kept'
<1>1. CASE agreed' = None  BY <1>1 DEF Kept
<1>2. CASE agreed' # None
  <2>1. Quiet /\ agreed' = agreed /\ agreed # None  BY <1>2 DEF Crash
  <2>2. file' = file /\ state' = state  BY <2>1 DEF Crash, Quiet, NoSaver
  <2>3. Same(settings, agreed) /\ FileSays(agreed) /\ Settle(agreed.profile)
    BY <2>1 DEF SettingsInv, Kept
  <2>4. Same(settings, agreed)' /\ FileSays(agreed)' /\ Settle(agreed.profile)'
    BY <2>1, <2>2, <2>3 DEF Same, FileSays, Settle, Crash
  <2>5. \A s \in Savers : saver'[s] = NoSaver  BY DEF Crash
  <2> QED  BY <2>4, <2>5 DEF Kept
<1> QED  BY <1>1, <1>2

\* While the process is down nobody saves.
LEMMA DownStep == SettingsInv /\ [Next]_vars => (~up => Quiet)'
<1> SUFFICES ASSUME SettingsInv, [Next]_vars, ~up' PROVE Quiet'  OBVIOUS
<1>1. CASE Crash  BY <1>1 DEF Crash, Quiet
<1>2. CASE UNCHANGED vars  BY <1>2 DEF vars, SettingsInv, Quiet
<1>3. ASSUME NEW s \in Savers, SaverStep(s) PROVE FALSE
  <2>1. up' = up /\ saver[s] # NoSaver
    BY <1>3 DEF SaverStep, Switch, Remember, Persist, NotPersisted, Save, NotSaved, Publish,
                Rebuild, NoSaver
  <2> QED  BY <2>1 DEF SettingsInv, Quiet
<1>4. ASSUME NEW s \in Savers, NEW body \in Bodies, Read(s, body) PROVE FALSE
  BY <1>4 DEF Read
<1>5. ASSUME NEW variable \in EnvPasswords \cup {None}, Start(variable) PROVE FALSE
  BY <1>5 DEF Start
<1>6. CASE StartStops  BY <1>6 DEF StartStops, SettingsInv, Quiet
<1> QED  BY <1>1, <1>2, <1>3, <1>4, <1>5, <1>6 DEF Next

LEMMA SettingsStep == SettingsInv /\ [Next]_vars => SettingsInv'
<1> SUFFICES ASSUME SettingsInv, [Next]_vars PROVE SettingsInv'  OBVIOUS
<1>1. TypeOK' /\ ClientFollowsSettings' /\ (~up => Quiet)'
  BY SettingsTypes, ClientStep, DownStep DEF SettingsInv
<1>2. Kept'
  <2>1. ASSUME NEW s \in Savers, SaverStep(s) PROVE Kept'
    <3>1. CASE NotPersisted(s)  BY <3>1 DEF NotPersisted, Kept
    <3>2. CASE NotSaved(s)  BY <3>2 DEF NotSaved, Kept
    <3> QED
      BY <2>1, <3>1, <3>2, SwitchKept, RememberKept, PersistKept, SaveKept, PublishKept,
         RebuildKept DEF SaverStep
  <2>2. CASE UNCHANGED vars
    BY <2>2 DEF vars, SettingsInv, Kept, Quiet, Same, FileSays, Settle, OnItsWay, Aim, Meant
  <2>3. ASSUME NEW variable \in EnvPasswords \cup {None}, Start(variable) PROVE Kept'
    BY <2>3, StartKept DEF Start
  <2> QED  BY <2>1, <2>2, <2>3, ReadKept, CrashKept, StopKept DEF Next
<1> QED  BY <1>1, <1>2 DEF SettingsInv

-----------------------------------------------------------------------------
(* The settings: what follows.                                             *)

LEMMA InForce == SettingsInv => LoneSavesInForce
BY DEF SettingsInv, Kept, LoneSavesInForce, Same

\* Only a start brings the process up.
LEMMA OnlyStart ==
  ASSUME SettingsInv, [Next]_vars, ~up, up'
  PROVE  Quiet /\ \E variable \in EnvPasswords \cup {None} : Start(variable)
BY DEF SettingsInv, Next, SaverStep, Read, Switch, Remember, Persist, NotPersisted, Save,
       NotSaved, Publish, Rebuild, Crash, StartStops, vars

LEMMA RestartIdentity ==
  SettingsInv /\ [Next]_vars =>
    (~up /\ up' /\ agreed # None /\ (~lost \/ settings'.profile # Native)
       => current' = current)
<1> SUFFICES ASSUME SettingsInv, [Next]_vars, ~up, up', agreed # None,
                    ~lost \/ settings'.profile # Native
             PROVE  current' = current
  OBVIOUS
<1>1. PICK variable \in EnvPasswords \cup {None} : Start(variable)  BY OnlyStart
<1>2. FileSays(agreed) /\ Settle(agreed.profile)  BY OnlyStart DEF SettingsInv, Kept
<1>3. /\ current' = IdentityAtStart(Or(file.profile, Native))
      /\ settings'.profile = Or(file.profile, Native)
  BY <1>1 DEF Start, Settled
<1>4. ~lost => state = current /\ state # None
  BY <1>2, Nothing DEF Settle, SettingsInv, TypeOK
<1> QED  BY <1>2, <1>3, <1>4 DEF IdentityAtStart, Or, FileSays, Settle

LEMMA RestartPassword ==
  SettingsInv /\ [Next]_vars =>
    (~up /\ up' /\ agreed # None /\ env = None /\ env' = None /\ file.password # None
       => settings'.password = settings.password)
<1> SUFFICES ASSUME SettingsInv, [Next]_vars, ~up, up', agreed # None, env = None, env' = None,
                    file.password # None
             PROVE  settings'.password = settings.password
  OBVIOUS
<1>1. PICK variable \in EnvPasswords \cup {None} : Start(variable)  BY OnlyStart
<1>2. FileSays(agreed) /\ Same(settings, agreed)  BY OnlyStart DEF SettingsInv, Kept
<1>3. variable = None /\ settings' = Settled(file, starts + 1, variable)  BY <1>1 DEF Start
<1>4. ReadBack(file.password) # None  BY FilePassword DEF SettingsInv
<1> QED  BY <1>2, <1>3, <1>4 DEF FileSays, Same, Settled, Or

-----------------------------------------------------------------------------
(* The devices: the invariant.                                             *)

\* Something says, or will say, that the device is i.
Claimed(d, i) ==
  \/ i \in shown[d]
  \/ \E a \in Accounts : device[a].device = d /\ device[a].identity = i
  \/ \E r \in Requests :
       /\ request[r] # NoRequest /\ request[r].device = d
       /\ \/ request[r].identity = i
          \/ request[r].stage \in {"backfill", "send"} /\ request[r].shows = i

\* Something takes the identity in force for want of a snapshot.
Bare(d) ==
  \/ \E a \in Accounts : device[a].device = d /\ device[a].identity = None
  \/ \E r \in Requests : /\ request[r].stage \in {"credential", "backfill"}
                         /\ request[r].device = d /\ request[r].identity = None

BareIsOld == \A d \in Devices : Bare(d) => d = 0

Agree ==
  \A d \in Devices :
    \/ d \in exposed /\ d = 0
    \/ /\ \A i, j \in Identities : Claimed(d, i) /\ Claimed(d, j) => i = j
       /\ Bare(d) => \A i \in Identities : Claimed(d, i) => i = current

\* No row, no request and no gateway has heard of a login before its end.
Untouched(l) ==
  /\ \A a \in Accounts : device[a].device # l
  /\ \A r \in Requests : request[r] # NoRequest => request[r].device # l
  /\ shown[l] = {}

Fresh ==
  \A l \in Logins :
    /\ l > logins => login[l] = NoLogin
    /\ l > logins \/ login[l] # NoLogin => Untouched(l)

\* The names are of the identity in force at the begin of the login, and at its
\* end still.
Named ==
  /\ \A l \in Logins : login[l] # NoLogin /\ l \notin exposed => login[l].name = current
  /\ \A a \in Accounts :
       device[a].device \in Logins \ exposed => device[a].identity = device[a].name

Told ==
  \A l \in Logins \ exposed :
    told[l] # OneClickName =>
      /\ login[l] # NoLogin => told[l] = current
      /\ \A i \in Identities : Claimed(l, i) => told[l] = i

Served == \A r \in Requests : request[r] # NoRequest => device[request[r].account].device # None

DeviceInv == DeviceTypeOK /\ BareIsOld /\ Agree /\ Fresh /\ Named /\ Told /\ Served

-----------------------------------------------------------------------------
\* A step of the devices is one of the settings or leaves them alone.
LEMMA Lift == [NextDevice]_allVars => [Next]_vars
BY DEF NextDevice, allVars, SwitchIdentity, OtherSaverStep, StartAndPin, StopAtStart, CrashAll, BeginLogin,
       List, ConfirmLogin, RequestStep, Credential, Backfill, Send, Next, SaverStep

\* Requests and rows that do something.
LEMMA DeviceParts ==
  ASSUME DeviceTypeOK
  PROVE  /\ \A r \in Requests : request[r] # NoRequest =>
              /\ request[r] \in Request
              /\ request[r].stage \in {"credential", "backfill", "send"}
              /\ request[r].account \in Accounts /\ request[r].device \in Devices
              /\ request[r].identity \in Identities \cup {None}
              /\ request[r].shows \in Identities
         /\ \A r \in Requests : request[r].stage # "idle" => request[r] # NoRequest
         /\ \A a \in Accounts :
              /\ device[a].device \in Devices \cup {None}
              /\ device[a].identity \in Identities \cup {None}
              /\ device[a].name \in Identities \cup {None}
         /\ \A l \in Logins : login[l] # NoLogin =>
              login[l].account \in Accounts /\ login[l].name \in Identities
         /\ None \notin Devices /\ None \notin Identities /\ 0 \notin Logins /\ 0 \in Devices
         /\ Logins \subseteq Devices
<1>1. \A r \in Requests : request[r] # NoRequest =>
        /\ request[r] \in Request
        /\ request[r].stage \in {"credential", "backfill", "send"}
        /\ request[r].account \in Accounts /\ request[r].device \in Devices
        /\ request[r].identity \in Identities \cup {None}
        /\ request[r].shows \in Identities
  BY DEF DeviceTypeOK, Request
<1>2. \A r \in Requests : request[r].stage # "idle" => request[r] # NoRequest
  BY DEF NoRequest
<1>3. \A a \in Accounts :
        /\ device[a].device \in Devices \cup {None}
        /\ device[a].identity \in Identities \cup {None}
        /\ device[a].name \in Identities \cup {None}
  BY DEF DeviceTypeOK, Device
<1>4. \A l \in Logins : login[l] # NoLogin =>
        login[l].account \in Accounts /\ login[l].name \in Identities
  BY DEF DeviceTypeOK, Login
<1>5. None \notin Devices /\ 0 \notin Logins /\ 0 \in Devices /\ Logins \subseteq Devices
  BY SettingsAssumption, IdentityAssumption DEF Devices, Logins
<1> QED  BY <1>1, <1>2, <1>3, <1>4, <1>5, Nothing

\* The claims of a device agree if a step only adds one identity, and that to
\* devices without a snapshot or without any claim; and if it exposes the
\* devices without a snapshot should that identity not have been in force.
LEMMA AgreeStep ==
  ASSUME DeviceInv, TypeOK, NEW new,
         exposed \subseteq exposed',
         new # current \/ current' # current => Unpinned \subseteq exposed',
         \A d \in Devices, i \in Identities : Claimed(d, i)' =>
           \/ Claimed(d, i)
           \/ i = new /\ (Bare(d) \/ \A j \in Identities : ~Claimed(d, j)),
         \A d \in Devices : Bare(d)' => Bare(d)
  PROVE  BareIsOld' /\ Agree'
<1>1. BareIsOld'  BY DEF DeviceInv, BareIsOld
<1>2. ASSUME NEW d \in Devices
      PROVE  \/ d \in exposed' /\ d = 0
             \/ /\ \A i, j \in Identities : Claimed(d, i)' /\ Claimed(d, j)' => i = j
                /\ Bare(d)' => \A i \in Identities : Claimed(d, i)' => i = current'
  <2>1. CASE d \in exposed /\ d = 0  BY <2>1
  <2>2. CASE ~(d \in exposed /\ d = 0)
    <3>1. /\ \A i, j \in Identities : Claimed(d, i) /\ Claimed(d, j) => i = j
          /\ Bare(d) => \A i \in Identities : Claimed(d, i) => i = current
      BY <2>2 DEF DeviceInv, Agree
    <3>2. CASE ~Bare(d)  BY <3>1, <3>2
    <3>3. CASE Bare(d) /\ new = current /\ current' = current  BY <3>1, <3>3
    <3>4. CASE Bare(d) /\ (new # current \/ current' # current)
      <4>1. d = 0  BY <3>4 DEF DeviceInv, BareIsOld
      <4>2. d \in Unpinned  BY <3>4 DEF Unpinned, Bare
      <4> QED  BY <3>4, <4>1, <4>2
    <3> QED  BY <3>2, <3>3, <3>4
  <2> QED  BY <2>1, <2>2
<1>3. Agree'  BY <1>2 DEF Agree
<1> QED  BY <1>1, <1>3

\* What was told stays true while a step adds nothing to what a login of its
\* own claims, but for the identity in force at its end, and exposes the logins
\* under way should the identity change.
LEMMA ToldStep ==
  ASSUME DeviceInv, TypeOK, told' = told, exposed \subseteq exposed',
         current' # current => Unpinned \subseteq exposed',
         \A l \in Logins : login'[l] = login[l] \/ login'[l] = NoLogin,
         \A l \in Logins, i \in Identities : Claimed(l, i)' =>
           \/ Claimed(l, i) \/ Bare(l)
           \/ login[l] # NoLogin /\ i = current
  PROVE  Told'
<1>1. SUFFICES ASSUME NEW l \in Logins \ exposed', told'[l] # OneClickName
               PROVE  /\ login'[l] # NoLogin => told[l] = current'
                      /\ \A i \in Identities : Claimed(l, i)' => told[l] = i
  BY DEF Told
<1>2. /\ l \in Logins /\ l \notin exposed /\ told[l] # OneClickName
      /\ login[l] # NoLogin => told[l] = current
      /\ \A i \in Identities : Claimed(l, i) => told[l] = i
  BY <1>1 DEF DeviceInv, Told
<1>3. login[l] # NoLogin => current' = current
  BY <1>1, <1>2, DeviceParts DEF Unpinned, DeviceInv
<1>4. ~Bare(l)  BY <1>2, DeviceParts DEF DeviceInv, BareIsOld
<1> QED  BY <1>2, <1>3, <1>4

LEMMA FreshStep ==
  ASSUME DeviceInv, logins' = logins,
         \A l \in Logins : login'[l] = login[l] \/ login'[l] = NoLogin,
         \A l \in Logins : (l > logins \/ login'[l] # NoLogin) /\ Untouched(l) => Untouched(l)'
  PROVE  Fresh'
BY DEF DeviceInv, Fresh

LEMMA DeviceStart == InitDevice => DeviceInv
<1> SUFFICES ASSUME InitDevice PROVE DeviceInv  OBVIOUS
<1>1. /\ Init /\ logins = 0 /\ exposed = {}
      /\ \A l \in Logins : login[l] = NoLogin
      /\ \A r \in Requests : request[r] = NoRequest
  BY DEF InitDevice
<1>2. 0 \in Devices /\ None \notin Devices /\ 0 \notin Logins /\ MaxLogins \in Nat
  BY SettingsAssumption, IdentityAssumption DEF Devices, Logins
<1>3. CASE /\ device = [a \in Accounts |-> Unauthorised]
           /\ shown = [d \in Devices |-> {}]
  <2>1. \A a \in Accounts : device[a].device = None /\ device[a] \in Device
    BY <1>3 DEF Unauthorised, Device
  <2>2. \A d \in Devices : d # None /\ shown[d] = {}  BY <1>2, <1>3
  <2>3. DeviceTypeOK
    BY <1>1, <1>2, <1>3, <2>1 DEF DeviceTypeOK, InitDevice
  <2>4. \A d \in Devices : ~Bare(d) /\ \A i \in Identities : ~Claimed(d, i)
    BY <1>1, <2>1, <2>2 DEF Bare, Claimed, NoRequest
  <2>5. BareIsOld /\ Agree  BY <2>4 DEF BareIsOld, Agree
  <2>6. Fresh
    BY <1>1, <2>1, <2>2, SettingsAssumption DEF Fresh, Untouched, Logins, Devices
  <2>7. Named /\ Served  BY <1>1, <1>2, <2>1, SettingsAssumption DEF Named, Served, Logins
  <2>8. Told  BY <1>1, <2>4 DEF Told, Logins, Devices
  <2> QED  BY <2>3, <2>5, <2>6, <2>7, <2>8 DEF DeviceInv
<1>4. ASSUME state # None, NEW old \in Accounts,
             device = [a \in Accounts |-> IF a = old THEN Authorised(0) ELSE Unauthorised],
             shown = [d \in Devices |-> IF d = 0 THEN {state} ELSE {}]
      PROVE  DeviceInv
  <2>1. \A a \in Accounts :
          /\ device[a].device \in {0, None} /\ device[a].identity = None
          /\ device[a] \in Device
    BY <1>2, <1>4 DEF Unauthorised, Authorised, Device
  <2>2. current = state /\ state \in Identities
    BY <1>1, <1>4, Nothing DEF Init, Or
  <2>3. \A d \in Devices : shown[d] = IF d = 0 THEN {state} ELSE {}  BY <1>4
  <2>4. DeviceTypeOK
    <3>1. shown \in [Devices -> SUBSET Identities]  BY <1>4, <2>2
    <3> QED  BY <1>1, <1>2, <1>4, <2>1, <3>1 DEF DeviceTypeOK, InitDevice
  <2>5. \A d \in Devices : Bare(d) => d = 0
    BY <1>1, <1>2, <2>1 DEF Bare, NoRequest
  <2>6. \A d \in Devices, i \in Identities : Claimed(d, i) => i = current
    BY <1>1, <2>1, <2>2, <2>3, Nothing DEF Claimed
  <2>7. BareIsOld /\ Agree  BY <2>5, <2>6 DEF BareIsOld, Agree
  <2>8. \A l \in Logins : l \in Devices /\ l # 0 /\ l # None
    BY <1>2 DEF Logins, Devices
  <2>9. Fresh  BY <1>1, <2>1, <2>3, <2>8 DEF Fresh, Untouched
  <2>10. Named /\ Served  BY <1>1, <2>1, <2>8 DEF Named, Served
  <2>11. Told
    <3>1. \A l \in Logins, i \in Identities : ~Claimed(l, i)
      BY <1>1, <2>1, <2>3, <2>8 DEF Claimed
    <3> QED  BY <1>1, <3>1 DEF Told
  <2> QED  BY <2>4, <2>7, <2>9, <2>10, <2>11 DEF DeviceInv
<1> QED  BY <1>3, <1>4 DEF InitDevice

\* Steps that leave the devices alone, or only know of them less.
LEMMA StillStep ==
  ASSUME DeviceInv, TypeOK, current' = current, UNCHANGED deviceVars
  PROVE  DeviceInv'
<1>1. UNCHANGED <<device, login, logins, told, request, shown, exposed>>  BY DEF deviceVars
<1>2. DeviceTypeOK' /\ Served' /\ Fresh'
  BY <1>1 DEF DeviceInv, DeviceTypeOK, Served, Fresh, Untouched
<1>3. BareIsOld' /\ Agree' /\ Named' /\ Told'
  BY <1>1 DEF DeviceInv, BareIsOld, Agree, Named, Told, Bare, Claimed
<1> QED  BY <1>2, <1>3 DEF DeviceInv

\* A switch exposes what has no snapshot, and the logins under way.
LEMMA SwitchDevices ==
  ASSUME DeviceInv, TypeOK, NEW s \in Savers, SwitchIdentity(s)
  PROVE  DeviceInv'
<1>1. /\ exposed' = IF current' # current THEN exposed \cup Unpinned ELSE exposed
      /\ UNCHANGED <<device, login, logins, told, request, shown>>
  BY DEF SwitchIdentity
<1>2. Unpinned \subseteq Devices  BY DEF Unpinned
<1>3. DeviceTypeOK'  BY <1>1, <1>2 DEF DeviceInv, DeviceTypeOK
<1>4. \A d \in Devices : Bare(d)' = Bare(d)  BY <1>1 DEF Bare
<1>5. \A d \in Devices, i \in Identities : Claimed(d, i)' = Claimed(d, i)  BY <1>1 DEF Claimed
<1>6. BareIsOld' /\ Agree'  BY <1>1, <1>4, <1>5, AgreeStep
<1>9. Told'
  <2>1. \A l \in Logins : l \in Devices  BY DeviceParts DEF DeviceInv
  <2> QED  BY <1>1, <1>5, <2>1, ToldStep
<1>7. Fresh' /\ Served'  BY <1>1 DEF DeviceInv, Fresh, Served, Untouched
<1>8. Named'
  <2>1. \A l \in Logins : login[l] # NoLogin => l \in Unpinned
    BY DeviceParts DEF Unpinned, DeviceInv
  <2> QED  BY <1>1, <2>1 DEF DeviceInv, Named
<1> QED  BY <1>3, <1>6, <1>7, <1>8, <1>9 DEF DeviceInv

\* The start pins what has no snapshot to the identity that it puts in force.
LEMMA StartDevices ==
  ASSUME DeviceInv, TypeOK, TypeOK', NEW variable \in EnvPasswords \cup {None}, NEW ok \in BOOLEAN,
         StartAndPin(variable, ok)
  PROVE  DeviceInv'
<1>1. /\ exposed' = IF current' # current THEN exposed \cup Unpinned ELSE exposed
      /\ UNCHANGED <<login, logins, told, request, shown>>
  BY DEF StartAndPin
<1>2. Unpinned \subseteq Devices  BY DEF Unpinned
<1>3. \A a \in Accounts :
        \/ device'[a] = device[a]
        \/ /\ device[a].device # None /\ device[a].identity = None
           /\ device'[a] = [device[a] EXCEPT !.identity = current']
  BY DEF StartAndPin, Pinned, DeviceInv, DeviceTypeOK
<1>4. \A a \in Accounts :
        /\ device'[a] \in Device
        /\ device'[a].device = device[a].device /\ device'[a].name = device[a].name
        /\ \/ device'[a].identity = device[a].identity
           \/ /\ device[a].device # None /\ device[a].identity = None
              /\ device'[a].identity = current'
  <2> SUFFICES ASSUME NEW a \in Accounts
               PROVE  /\ device'[a] \in Device
                      /\ device'[a].device = device[a].device /\ device'[a].name = device[a].name
                      /\ \/ device'[a].identity = device[a].identity
                         \/ /\ device[a].device # None /\ device[a].identity = None
                            /\ device'[a].identity = current'
    OBVIOUS
  <2>1. device[a] \in Device /\ current' \in Identities  BY DEF DeviceInv, DeviceTypeOK, TypeOK
  <2>2. CASE device'[a] = device[a]  BY <2>1, <2>2
  <2>3. CASE /\ device[a].device # None /\ device[a].identity = None
             /\ device'[a] = [device[a] EXCEPT !.identity = current']
    BY <2>1, <2>3 DEF Device
  <2> QED  BY <1>3, <2>2, <2>3
<1>5. device' \in [Accounts -> Device]
  BY <1>4 DEF StartAndPin, DeviceInv, DeviceTypeOK
<1>6. DeviceTypeOK'  BY <1>1, <1>2, <1>5 DEF DeviceInv, DeviceTypeOK
<1>7. current' # None  BY Nothing DEF TypeOK
<1>8. \A d \in Devices : Bare(d)' => Bare(d)  BY <1>1, <1>4, <1>7 DEF Bare
<1>9. \A d \in Devices, i \in Identities :
        Claimed(d, i)' => Claimed(d, i) \/ (i = current' /\ Bare(d))
  <2> SUFFICES ASSUME NEW d \in Devices, NEW i \in Identities, Claimed(d, i)'
               PROVE  Claimed(d, i) \/ (i = current' /\ Bare(d))
    OBVIOUS
  <2>1. CASE Claimed(d, i)  BY <2>1
  <2>2. CASE ~Claimed(d, i)
    <3>1. PICK a \in Accounts : device'[a].device = d /\ device'[a].identity = i
      BY <1>1, <2>2 DEF Claimed
    <3>2. device[a].device = d /\ device[a].identity # i  BY <1>4, <2>2, <3>1 DEF Claimed
    <3> QED  BY <1>4, <3>1, <3>2 DEF Bare
  <2> QED  BY <2>1, <2>2
<1>10. BareIsOld' /\ Agree'  BY <1>1, <1>8, <1>9, AgreeStep
<1>13. Told'
  <2>1. \A l \in Logins : l \in Devices  BY DeviceParts DEF DeviceInv
  <2> QED  BY <1>1, <1>9, <2>1, ToldStep
<1>11. Fresh' /\ Served'
  <2>1. \A l \in Logins : Untouched(l) => Untouched(l)'  BY <1>1, <1>4 DEF Untouched
  <2>2. Fresh'  BY <1>1, <2>1, FreshStep
  <2>3. \A r \in Requests : request[r] # NoRequest => request[r].account \in Accounts
    BY DeviceParts DEF DeviceInv
  <2>4. Served'  BY <1>1, <1>4, <2>3 DEF DeviceInv, Served
  <2> QED  BY <2>2, <2>4
<1>12. Named'
  <2>1. \A l \in Logins : login[l] # NoLogin => l \in Unpinned
    BY DeviceParts DEF Unpinned, DeviceInv
  <2>2. \A a \in Accounts : device[a].device \in Logins => device[a].identity # None
    BY DeviceParts DEF DeviceInv, BareIsOld, Bare
  <2> QED  BY <1>1, <1>4, <2>1, <2>2 DEF DeviceInv, Named
<1> QED  BY <1>6, <1>10, <1>11, <1>12, <1>13 DEF DeviceInv

\* So does a start that fails later on.
LEMMA StopDevices ==
  ASSUME DeviceInv, TypeOK, NEW pins \in BOOLEAN, StopAtStart(pins)
  PROVE  DeviceInv'
<1> DEFINE new == IdentityAtStart(Settled(file, 0, None).profile)
<1>0. new \in Identities
  BY SettledType, StartType DEF TypeOK
<1>1. /\ exposed' = IF pins /\ new # current THEN exposed \cup Unpinned ELSE exposed
      /\ device' = IF pins THEN [a \in Accounts |-> Pinned(device[a], new)] ELSE device
      /\ current' = current
      /\ UNCHANGED <<login, logins, told, request, shown>>
  BY DEF StopAtStart, StartStops
<1> HIDE DEF new
<1>2. Unpinned \subseteq Devices  BY DEF Unpinned
<1>3. \A a \in Accounts :
        \/ device'[a] = device[a]
        \/ /\ device[a].device # None /\ device[a].identity = None
           /\ pins /\ device'[a] = [device[a] EXCEPT !.identity = new]
  BY <1>1 DEF Pinned, DeviceInv, DeviceTypeOK
<1>4. \A a \in Accounts :
        /\ device'[a] \in Device
        /\ device'[a].device = device[a].device /\ device'[a].name = device[a].name
        /\ \/ device'[a].identity = device[a].identity
           \/ /\ device[a].device # None /\ device[a].identity = None
              /\ pins /\ device'[a].identity = new
  <2> SUFFICES ASSUME NEW a \in Accounts
               PROVE  /\ device'[a] \in Device
                      /\ device'[a].device = device[a].device /\ device'[a].name = device[a].name
                      /\ \/ device'[a].identity = device[a].identity
                         \/ /\ device[a].device # None /\ device[a].identity = None
                            /\ pins /\ device'[a].identity = new
    OBVIOUS
  <2>1. device[a] \in Device /\ new \in Identities  BY <1>0 DEF DeviceInv, DeviceTypeOK
  <2>2. CASE device'[a] = device[a]  BY <2>1, <2>2
  <2>3. CASE /\ device[a].device # None /\ device[a].identity = None
             /\ pins /\ device'[a] = [device[a] EXCEPT !.identity = new]
    BY <2>1, <2>3 DEF Device
  <2> QED  BY <1>3, <2>2, <2>3
<1>5. device' \in [Accounts -> Device]
  BY <1>1, <1>4 DEF DeviceInv, DeviceTypeOK
<1>6. DeviceTypeOK'  BY <1>1, <1>2, <1>5 DEF DeviceInv, DeviceTypeOK
<1>7. new # None  BY <1>0, Nothing
<1>8. \A d \in Devices : Bare(d)' => Bare(d)  BY <1>1, <1>4, <1>7 DEF Bare
<1>9. \A d \in Devices, i \in Identities :
        Claimed(d, i)' => Claimed(d, i) \/ (pins /\ i = new /\ Bare(d))
  <2> SUFFICES ASSUME NEW d \in Devices, NEW i \in Identities, Claimed(d, i)'
               PROVE  Claimed(d, i) \/ (pins /\ i = new /\ Bare(d))
    OBVIOUS
  <2>1. CASE Claimed(d, i)  BY <2>1
  <2>2. CASE ~Claimed(d, i)
    <3>1. PICK a \in Accounts : device'[a].device = d /\ device'[a].identity = i
      BY <1>1, <2>2 DEF Claimed
    <3>2. device[a].device = d /\ device[a].identity # i  BY <1>4, <2>2, <3>1 DEF Claimed
    <3> QED  BY <1>4, <3>1, <3>2 DEF Bare
  <2> QED  BY <2>1, <2>2
<1>10. BareIsOld' /\ Agree'
  <2>1. CASE pins  BY <1>1, <1>8, <1>9, <2>1, AgreeStep
  <2>2. CASE ~pins  BY <1>1, <1>8, <1>9, <2>2, AgreeStep
  <2> QED  BY <2>1, <2>2
<1>13. Told'
  <2>1. \A l \in Logins : l \in Devices  BY DeviceParts DEF DeviceInv
  <2> QED  BY <1>1, <1>9, <2>1, ToldStep
<1>11. Fresh' /\ Served'
  <2>1. \A l \in Logins : Untouched(l) => Untouched(l)'  BY <1>1, <1>4 DEF Untouched
  <2>2. Fresh'  BY <1>1, <2>1, FreshStep
  <2>3. \A r \in Requests : request[r] # NoRequest => request[r].account \in Accounts
    BY DeviceParts DEF DeviceInv
  <2>4. Served'  BY <1>1, <1>4, <2>3 DEF DeviceInv, Served
  <2> QED  BY <2>2, <2>4
<1>12. Named'
  <2>1. \A l \in Logins : login[l] # NoLogin => l \in Unpinned
    BY DeviceParts DEF Unpinned, DeviceInv
  <2>2. \A a \in Accounts : device[a].device \in Logins => device[a].identity # None
    BY DeviceParts DEF DeviceInv, BareIsOld, Bare
  <2> QED  BY <1>1, <1>4, <2>1, <2>2 DEF DeviceInv, Named
<1> QED  BY <1>6, <1>10, <1>11, <1>12, <1>13 DEF DeviceInv

LEMMA CrashDevices ==
  ASSUME DeviceInv, TypeOK, CrashAll
  PROVE  DeviceInv'
<1>1. /\ current' = current /\ UNCHANGED <<device, logins, told, shown, exposed>>
      /\ login' = [l \in Logins |-> NoLogin] /\ request' = [r \in Requests |-> NoRequest]
  BY DEF CrashAll, Crash
<1>2. DeviceTypeOK'  BY <1>1 DEF DeviceInv, DeviceTypeOK
<1>3. \A d \in Devices : Bare(d)' => Bare(d)  BY <1>1 DEF Bare, NoRequest
<1>4. \A d \in Devices, i \in Identities : Claimed(d, i)' => Claimed(d, i)
  BY <1>1 DEF Claimed
<1>5. BareIsOld' /\ Agree'  BY <1>1, <1>3, <1>4, AgreeStep
<1>8. Told'
  <2>1. \A l \in Logins : l \in Devices  BY DeviceParts DEF DeviceInv
  <2> QED  BY <1>1, <1>4, <2>1, ToldStep
<1>6. Fresh'
  <2>1. \A l \in Logins : Untouched(l) => Untouched(l)'  BY <1>1 DEF Untouched
  <2> QED  BY <1>1, <2>1, FreshStep
<1>7. Named' /\ Served'  BY <1>1 DEF DeviceInv, Named, Served
<1> QED  BY <1>2, <1>5, <1>6, <1>7, <1>8 DEF DeviceInv

LEMMA BeginDevices ==
  ASSUME DeviceInv, TypeOK, NEW a \in Accounts, NEW name \in {current, OneClickName},
         BeginLogin(a, name)
  PROVE  DeviceInv'
<1> DEFINE l == logins + 1
<1>1. /\ current' = current /\ UNCHANGED <<device, request, shown, exposed>>
      /\ told' = [told EXCEPT ![l] = name]
      /\ logins' = l /\ login' = [login EXCEPT ![l] = [account |-> a, name |-> current]]
  BY DEF BeginLogin, vars
<1>2. l \in Logins /\ l > logins /\ l \in 0 .. MaxLogins /\ logins \in Nat
  BY IdentityAssumption DEF BeginLogin, Logins, DeviceInv, DeviceTypeOK
<1>3. [account |-> a, name |-> current] \in Login  BY DEF Login, TypeOK
<1>4. DeviceTypeOK'  BY <1>1, <1>2, <1>3 DEF DeviceInv, DeviceTypeOK, TypeOK
<1>5. \A d \in Devices : Bare(d)' = Bare(d)  BY <1>1 DEF Bare
<1>6. \A d \in Devices, i \in Identities : Claimed(d, i)' = Claimed(d, i)  BY <1>1 DEF Claimed
<1>7. BareIsOld' /\ Agree'  BY <1>1, <1>5, <1>6, AgreeStep
<1>8. Fresh'
  <2>1. \A m \in Logins : Untouched(m)' = Untouched(m)  BY <1>1 DEF Untouched
  <2>2. \A m \in Logins : m > l => m > logins /\ m # l  BY <1>2 DEF Logins
  <2>3. \A m \in Logins : login'[m] = IF m = l THEN [account |-> a, name |-> current] ELSE login[m]
    BY <1>1 DEF DeviceInv, DeviceTypeOK
  <2> HIDE DEF l
  <2>4. \A m \in Logins : m > logins' => login'[m] = NoLogin
    BY <1>1, <2>2, <2>3 DEF DeviceInv, Fresh
  <2>5. \A m \in Logins : m > logins' \/ login'[m] # NoLogin => Untouched(m)
    BY <1>1, <1>2, <2>2, <2>3 DEF DeviceInv, Fresh
  <2> QED  BY <2>1, <2>4, <2>5 DEF Fresh
<1>9. Named'
  BY <1>1 DEF DeviceInv, Named, DeviceTypeOK
<1>10. Served'  BY <1>1 DEF DeviceInv, Served
<1>11. Told'
  <2>1. \A m \in Logins : /\ told'[m] = IF m = l THEN name ELSE told[m]
                          /\ m # l => login'[m] = login[m]
    BY <1>1 DEF DeviceInv, DeviceTypeOK
  <2>2. \A i \in Identities : ~Claimed(l, i)
    BY <1>2, DeviceParts DEF DeviceInv, Fresh, Untouched, Claimed
  <2>3. \A m \in Logins : m \in Devices  BY DeviceParts DEF DeviceInv
  <2> HIDE DEF l
  <2> QED  BY <1>1, <1>6, <2>1, <2>2, <2>3 DEF DeviceInv, Told
<1> QED  BY <1>4, <1>7, <1>8, <1>9, <1>10, <1>11 DEF DeviceInv

\* The end of a login: the device is new, and gets the identity in force.
LEMMA ConfirmDevices ==
  ASSUME DeviceInv, TypeOK, NEW l \in Logins, ConfirmLogin(l)
  PROVE  DeviceInv'
<1> DEFINE b == login[l].account
<1>1. /\ current' = current /\ UNCHANGED <<logins, told, request, shown, exposed>>
      /\ login[l] # NoLogin /\ login' = [login EXCEPT ![l] = NoLogin]
      /\ device' = [device EXCEPT ![b] =
                      [device |-> l, identity |-> current, name |-> login[l].name]]
  BY DEF ConfirmLogin, vars
<1>2. /\ b \in Accounts /\ login[l].name \in Identities /\ current \in Identities
      /\ l \in Devices /\ current # None /\ l # None
  BY <1>1, DeviceParts, Nothing DEF DeviceInv, TypeOK
<1>3. [device |-> l, identity |-> current, name |-> login[l].name] \in Device
  BY <1>2 DEF Device
<1>4. DeviceTypeOK'  BY <1>1, <1>3 DEF DeviceInv, DeviceTypeOK
<1> HIDE DEF b
<1>5. /\ device'[b].device = l /\ device'[b].identity = current
      /\ device'[b].name = login[l].name
      /\ \A a \in Accounts : a # b => device'[a] = device[a]
  BY <1>1, <1>2 DEF DeviceInv, DeviceTypeOK
<1>6. Untouched(l)  BY <1>1 DEF DeviceInv, Fresh
<1>7. \A i \in Identities : ~Claimed(l, i)  BY <1>6 DEF Untouched, Claimed
<1>8. \A d \in Devices : Bare(d)' => Bare(d)  BY <1>1, <1>2, <1>5 DEF Bare
<1>9. \A d \in Devices, i \in Identities :
        Claimed(d, i)' => Claimed(d, i) \/ (d = l /\ i = current)
  BY <1>1, <1>5 DEF Claimed
<1>10. BareIsOld' /\ Agree'
  <2>1. \A d \in Devices, i \in Identities : Claimed(d, i)' =>
          \/ Claimed(d, i)
          \/ i = current' /\ (Bare(d) \/ \A j \in Identities : ~Claimed(d, j))
    BY <1>1, <1>7, <1>9
  <2> QED  BY <1>1, <1>8, <2>1, AgreeStep
<1>11. \A m \in Logins : login'[m] = IF m = l THEN NoLogin ELSE login[m]
  BY <1>1 DEF DeviceInv, DeviceTypeOK
<1>12. Fresh'
  <2>1. \A m \in Logins : m # l /\ Untouched(m) => Untouched(m)'
    BY <1>1, <1>5 DEF Untouched
  <2>2. ~(l > logins)  BY <1>1 DEF DeviceInv, Fresh
  <2> QED  BY <1>1, <1>11, <2>1, <2>2, FreshStep
<1>13. Named'
  <2>1. l \notin exposed => login[l].name = current  BY <1>1 DEF DeviceInv, Named
  <2>2. \A a \in Accounts :
          device'[a].device \in Logins \ exposed => device'[a].identity = device'[a].name
    BY <1>5, <2>1 DEF DeviceInv, Named
  <2> QED  BY <1>1, <1>11, <2>2 DEF DeviceInv, Named
<1>14. Served'
  <2>1. \A a \in Accounts : device[a].device # None => device'[a].device # None
    BY <1>2, <1>5
  <2>2. \A r \in Requests : request[r] # NoRequest => request[r].account \in Accounts
    BY DeviceParts DEF DeviceInv
  <2> QED  BY <1>1, <2>1, <2>2 DEF DeviceInv, Served
<1>15. Told'
  <2>1. \A m \in Logins : m \in Devices  BY DeviceParts DEF DeviceInv
  <2> QED  BY <1>1, <1>9, <1>11, <2>1, ToldStep
<1> QED  BY <1>4, <1>10, <1>12, <1>13, <1>14, <1>15 DEF DeviceInv

LEMMA ListDevices ==
  ASSUME DeviceInv, TypeOK, NEW r \in Requests, NEW a \in Accounts, List(r, a)
  PROVE  DeviceInv'
<1> DEFINE new == [stage |-> "credential", account |-> a, device |-> device[a].device,
                   identity |-> device[a].identity, shows |-> Native]
<1>1. /\ current' = current /\ UNCHANGED <<device, login, logins, told, shown, exposed>>
      /\ device[a].device # None /\ request' = [request EXCEPT ![r] = new]
  BY DEF List, vars
<1>2. new \in Request
  BY <1>1, DeviceParts, Nothing DEF Request, DeviceInv
<1>3. DeviceTypeOK'  BY <1>1, <1>2 DEF DeviceInv, DeviceTypeOK
<1>4. /\ request'[r].stage = "credential" /\ request'[r].account = a
      /\ request'[r].device = device[a].device /\ request'[r].identity = device[a].identity
      /\ \A q \in Requests : q # r => request'[q] = request[q]
  BY <1>1 DEF DeviceInv, DeviceTypeOK
<1> HIDE DEF new
<1>5. \A d \in Devices : Bare(d)' => Bare(d)  BY <1>1, <1>4 DEF Bare
<1>6. \A d \in Devices, i \in Identities : Claimed(d, i)' => Claimed(d, i)
  BY <1>1, <1>4 DEF Claimed
<1>7. BareIsOld' /\ Agree'  BY <1>1, <1>5, <1>6, AgreeStep
<1>8. Fresh'
  <2>1. \A l \in Logins : Untouched(l) => Untouched(l)'  BY <1>1, <1>4 DEF Untouched
  <2> QED  BY <1>1, <2>1, FreshStep
<1>9. Named' /\ Served'  BY <1>1, <1>4 DEF DeviceInv, Named, Served
<1>10. Told'
  <2>1. \A l \in Logins : l \in Devices  BY DeviceParts DEF DeviceInv
  <2> QED  BY <1>1, <1>6, <2>1, ToldStep
<1> QED  BY <1>3, <1>7, <1>8, <1>9, <1>10 DEF DeviceInv

\* Without a snapshot a request takes the identity in force.
LEMMA CredentialDevices ==
  ASSUME DeviceInv, TypeOK, NEW r \in Requests, Credential(r)
  PROVE  DeviceInv'
<1>1. /\ current' = current /\ UNCHANGED <<device, login, logins, told, shown, exposed>>
      /\ request[r].stage = "credential"
  BY DEF Credential, vars
<1>2. request[r] # NoRequest  BY <1>1, DeviceParts DEF DeviceInv
<1>3. /\ request[r] \in Request /\ request[r].device \in Devices
      /\ request[r].account \in Accounts /\ request[r].identity \in Identities \cup {None}
  BY <1>2, DeviceParts DEF DeviceInv
<1>4. Shows(request[r].identity) \in Identities  BY <1>3 DEF Shows, Or, TypeOK
<1>5. /\ request'[r] \in Request
      /\ request'[r].stage = (IF request[r].identity = None THEN "backfill" ELSE "send")
      /\ request'[r].account = request[r].account /\ request'[r].device = request[r].device
      /\ request'[r].identity = request[r].identity
      /\ request'[r].shows = Shows(request[r].identity)
      /\ \A q \in Requests : q # r => request'[q] = request[q]
  BY <1>3, <1>4 DEF Credential, Request, DeviceInv, DeviceTypeOK
<1>6. DeviceTypeOK'
  <2>1. request' \in [Requests -> Request \cup {NoRequest}]
    BY <1>5 DEF Credential, DeviceInv, DeviceTypeOK
  <2> QED  BY <1>1, <2>1 DEF DeviceInv, DeviceTypeOK
<1>7. \A d \in Devices : Bare(d)' => Bare(d)  BY <1>1, <1>5 DEF Bare
<1>8. \A d \in Devices, i \in Identities :
        Claimed(d, i)' => Claimed(d, i) \/ (i = current /\ Bare(d))
  <2> SUFFICES ASSUME NEW d \in Devices, NEW i \in Identities, Claimed(d, i)'
               PROVE  Claimed(d, i) \/ (i = current /\ Bare(d))
    OBVIOUS
  <2>1. CASE Claimed(d, i)  BY <2>1
  <2>2. CASE ~Claimed(d, i)
    <3>1. request[r].device = d /\ Shows(request[r].identity) = i /\ request[r].identity # i
      BY <1>1, <1>2, <1>5, <2>2 DEF Claimed
    <3>2. request[r].identity = None /\ i = current  BY <3>1 DEF Shows, Or
    <3> QED  BY <1>1, <3>1, <3>2 DEF Bare
  <2> QED  BY <2>1, <2>2
<1>9. BareIsOld' /\ Agree'  BY <1>1, <1>7, <1>8, AgreeStep
<1>10. Fresh'
  <2>1. \A l \in Logins : Untouched(l) => Untouched(l)'  BY <1>1, <1>2, <1>5 DEF Untouched
  <2> QED  BY <1>1, <2>1, FreshStep
<1>11. Named' /\ Served'  BY <1>1, <1>2, <1>5 DEF DeviceInv, Named, Served
<1>12. Told'
  <2>1. \A l \in Logins : l \in Devices  BY DeviceParts DEF DeviceInv
  <2> QED  BY <1>1, <1>8, <2>1, ToldStep
<1> QED  BY <1>6, <1>9, <1>10, <1>11, <1>12 DEF DeviceInv

\* A row without a snapshot gets the identity in force.
LEMMA BackfillDevices ==
  ASSUME DeviceInv, TypeOK, NEW r \in Requests, NEW ok \in BOOLEAN, Backfill(r, ok)
  PROVE  DeviceInv'
<1>1. /\ current' = current /\ UNCHANGED <<login, logins, told, shown, exposed>>
      /\ request[r].stage = "backfill" /\ request' = [request EXCEPT ![r].stage = "send"]
  BY DEF Backfill, vars
<1>2. request[r] # NoRequest  BY <1>1, DeviceParts DEF DeviceInv
<1>3. request[r] \in Request /\ request[r].account \in Accounts
  BY <1>2, DeviceParts DEF DeviceInv
<1>4. /\ request'[r] \in Request /\ request'[r].stage = "send"
      /\ request'[r].account = request[r].account /\ request'[r].device = request[r].device
      /\ request'[r].identity = request[r].identity /\ request'[r].shows = request[r].shows
      /\ \A q \in Requests : q # r => request'[q] = request[q]
  BY <1>1, <1>3 DEF Request, DeviceInv, DeviceTypeOK
<1>5. current \in Identities /\ current # None  BY Nothing DEF TypeOK
<1>6. \A a \in Accounts :
        \/ device'[a] = device[a]
        \/ /\ device[a].device # None /\ device[a].identity = None
           /\ device'[a] = [device[a] EXCEPT !.identity = current]
  <2>1. device[request[r].account].device # None  BY <1>2 DEF DeviceInv, Served
  <2> QED  BY <1>3, <2>1 DEF Backfill, Backfilled, DeviceInv, DeviceTypeOK
<1>7. \A a \in Accounts :
        /\ device'[a] \in Device
        /\ device'[a].device = device[a].device /\ device'[a].name = device[a].name
        /\ \/ device'[a].identity = device[a].identity
           \/ /\ device[a].device # None /\ device[a].identity = None
              /\ device'[a].identity = current
  <2> SUFFICES ASSUME NEW a \in Accounts
               PROVE  /\ device'[a] \in Device
                      /\ device'[a].device = device[a].device /\ device'[a].name = device[a].name
                      /\ \/ device'[a].identity = device[a].identity
                         \/ /\ device[a].device # None /\ device[a].identity = None
                            /\ device'[a].identity = current
    OBVIOUS
  <2>1. device[a] \in Device  BY DEF DeviceInv, DeviceTypeOK
  <2>2. CASE device'[a] = device[a]  BY <2>1, <2>2
  <2>3. CASE /\ device[a].device # None /\ device[a].identity = None
             /\ device'[a] = [device[a] EXCEPT !.identity = current]
    BY <1>5, <2>1, <2>3 DEF Device
  <2> QED  BY <1>6, <2>2, <2>3
<1>8. DeviceTypeOK'
  <2>1. device' \in [Accounts -> Device]
    BY <1>7 DEF Backfill, DeviceInv, DeviceTypeOK
  <2>2. request' \in [Requests -> Request \cup {NoRequest}]
    BY <1>1, <1>4 DEF DeviceInv, DeviceTypeOK
  <2> QED  BY <1>1, <2>1, <2>2 DEF DeviceInv, DeviceTypeOK
<1>9. \A d \in Devices : Bare(d)' => Bare(d)  BY <1>1, <1>4, <1>5, <1>7 DEF Bare
<1>10. \A d \in Devices, i \in Identities :
         Claimed(d, i)' => Claimed(d, i) \/ (i = current /\ Bare(d))
  <2> SUFFICES ASSUME NEW d \in Devices, NEW i \in Identities, Claimed(d, i)'
               PROVE  Claimed(d, i) \/ (i = current /\ Bare(d))
    OBVIOUS
  <2>1. CASE Claimed(d, i)  BY <2>1
  <2>2. CASE ~Claimed(d, i)
    <3>1. PICK a \in Accounts : device'[a].device = d /\ device'[a].identity = i
      BY <1>1, <1>2, <1>4, <2>2 DEF Claimed
    <3>2. device[a].device = d /\ device[a].identity # i  BY <1>7, <2>2, <3>1 DEF Claimed
    <3> QED  BY <1>7, <3>1, <3>2 DEF Bare
  <2> QED  BY <2>1, <2>2
<1>11. BareIsOld' /\ Agree'  BY <1>1, <1>9, <1>10, AgreeStep
<1>12. Fresh'
  <2>1. \A l \in Logins : Untouched(l) => Untouched(l)'
    BY <1>1, <1>2, <1>4, <1>7 DEF Untouched
  <2> QED  BY <1>1, <2>1, FreshStep
<1>13. Named'
  <2>1. \A a \in Accounts : device[a].device \in Logins => device[a].identity # None
    BY DeviceParts DEF DeviceInv, BareIsOld, Bare
  <2> QED  BY <1>1, <1>7, <2>1 DEF DeviceInv, Named
<1>14. Served'
  <2>1. \A q \in Requests : request'[q] # NoRequest =>
          request[q] # NoRequest /\ request'[q].account = request[q].account
    BY <1>2, <1>4
  <2>2. \A q \in Requests : request[q] # NoRequest => request[q].account \in Accounts
    BY DeviceParts DEF DeviceInv
  <2> QED  BY <1>7, <2>1, <2>2 DEF DeviceInv, Served
<1>15. Told'
  <2>1. \A l \in Logins : l \in Devices  BY DeviceParts DEF DeviceInv
  <2> QED  BY <1>1, <1>10, <2>1, ToldStep
<1> QED  BY <1>8, <1>11, <1>12, <1>13, <1>14, <1>15 DEF DeviceInv

LEMMA SendDevices ==
  ASSUME DeviceInv, TypeOK, NEW r \in Requests, Send(r)
  PROVE  DeviceInv'
<1> DEFINE e == request[r].device
<1>1. /\ current' = current /\ UNCHANGED <<device, login, logins, told, exposed>>
      /\ request[r].stage = "send" /\ request' = [request EXCEPT ![r] = NoRequest]
      /\ shown' = [shown EXCEPT ![e] = @ \cup {request[r].shows}]
  BY DEF Send, vars
<1>2. request[r] # NoRequest  BY <1>1, DeviceParts DEF DeviceInv
<1>3. e \in Devices /\ request[r].shows \in Identities
  BY <1>2, DeviceParts DEF DeviceInv
<1>4. DeviceTypeOK'  BY <1>1, <1>3 DEF DeviceInv, DeviceTypeOK
<1> HIDE DEF e
<1>5. /\ request'[r] = NoRequest
      /\ \A q \in Requests : q # r => request'[q] = request[q]
      /\ \A d \in Devices : shown'[d] = IF d = e THEN shown[d] \cup {request[r].shows} ELSE shown[d]
  BY <1>1 DEF DeviceInv, DeviceTypeOK
<1>6. \A d \in Devices : Bare(d)' => Bare(d)  BY <1>1, <1>5 DEF Bare, NoRequest
<1>7. \A d \in Devices, i \in Identities : Claimed(d, i)' => Claimed(d, i)
  BY <1>1, <1>2, <1>5 DEF Claimed, e
<1>8. BareIsOld' /\ Agree'  BY <1>1, <1>6, <1>7, AgreeStep
<1>9. Fresh'
  <2>1. \A l \in Logins : Untouched(l) => Untouched(l)'
    BY <1>1, <1>2, <1>5, DeviceParts DEF Untouched, e, DeviceInv
  <2> QED  BY <1>1, <2>1, FreshStep
<1>10. Named' /\ Served'  BY <1>1, <1>5 DEF DeviceInv, Named, Served
<1>11. Told'
  <2>1. \A l \in Logins : l \in Devices  BY DeviceParts DEF DeviceInv
  <2> QED  BY <1>1, <1>7, <2>1, ToldStep
<1> QED  BY <1>4, <1>8, <1>9, <1>10, <1>11 DEF DeviceInv

LEMMA DeviceStep ==
  SettingsInv /\ DeviceInv /\ [NextDevice]_allVars => SettingsInv' /\ DeviceInv'
<1> SUFFICES ASSUME SettingsInv, DeviceInv, [NextDevice]_allVars PROVE SettingsInv' /\ DeviceInv'
  OBVIOUS
<1>1. SettingsInv'  BY Lift, SettingsStep
<1>2. TypeOK /\ TypeOK'  BY <1>1 DEF SettingsInv
<1>3. ASSUME NEW s \in Savers, OtherSaverStep(s), UNCHANGED deviceVars PROVE DeviceInv'
  <2>1. current' = current
    BY <1>3 DEF OtherSaverStep, Remember, Persist, NotPersisted, Save, NotSaved, Publish,
                Rebuild, Read
  <2> QED  BY <1>2, <1>3, <2>1, StillStep
<1>4. CASE UNCHANGED allVars
  <2>1. UNCHANGED deviceVars  BY <1>4 DEF allVars
  <2>2. current' = current  BY <1>4 DEF allVars, vars
  <2> QED  BY <1>1, <1>2, <2>1, <2>2, StillStep
<1>5. DeviceInv'
  BY <1>2, <1>3, <1>4, SwitchDevices, StartDevices, StopDevices, CrashDevices, BeginDevices,
     ListDevices,
     ConfirmDevices, CredentialDevices, BackfillDevices, SendDevices
  DEF NextDevice, RequestStep
<1> QED  BY <1>1, <1>5

-----------------------------------------------------------------------------
(* The theorems.                                                           *)

\* The invariants hold in every reachable state.
THEOREM Invariance == DeviceSpec => [](SettingsInv /\ DeviceInv)
<1>1. InitDevice => SettingsInv /\ DeviceInv  BY SettingsInit, DeviceStart DEF InitDevice
<1> QED  BY <1>1, DeviceStep, PTL DEF DeviceSpec

\* Type correctness of the settings (config.go, handleSaveSettings).
THEOREM SettingsTyped == DeviceSpec => []TypeOK
BY Invariance, PTL DEF SettingsInv

\* Type correctness of the devices (identity.go, accountCredential).
THEOREM DevicesTyped == DeviceSpec => []DeviceTypeOK
BY Invariance, PTL DEF DeviceInv

\* What was answered with 200 is in force, as .env gives it back, and stays so
\* over restarts, unless saves overlap or fail (handleSaveSettings, Load).
THEOREM SavesAreInForce == DeviceSpec => []LoneSavesInForce
BY Invariance, InForce, PTL

\* The client is that of the newest settings (rebuildClientLocked).
THEOREM ClientFollows == DeviceSpec => []ClientFollowsSettings
BY Invariance, PTL DEF SettingsInv

\* A restart keeps the identity of the requests (NewManager, SetProfile), but
\* for a start cut short in its write of the state file, and the password of
\* the admin page (Load).
THEOREM RestartKeeps == DeviceSpec => RestartKeepsSettings
<1>1. SettingsInv /\ [NextDevice]_allVars =>
        [~up /\ up' /\ agreed # None
           => /\ ~lost \/ settings'.profile # Native => current' = current
              /\ (env = None /\ env' = None /\ file.password # None)
                   => settings'.password = settings.password]_vars
  BY Lift, RestartIdentity, RestartPassword
<1> QED  BY <1>1, Invariance, PTL DEF DeviceSpec, RestartKeepsSettings

LEMMA AgreeMeans == DeviceInv => OneIdentityPerDevice
<1> SUFFICES ASSUME DeviceInv, NEW d \in Devices, ~(d \in exposed /\ d = 0),
                    NEW i \in shown[d], NEW j \in shown[d]
             PROVE  i = j
  BY DEF OneIdentityPerDevice
<1>1. i \in Identities /\ j \in Identities  BY DEF DeviceInv, DeviceTypeOK
<1> QED  BY <1>1 DEF DeviceInv, Agree, Claimed

\* A device shows one identity for all its life (AccountToCredential,
\* SaveAccountDeviceCredential, backfillIdentity).
THEOREM OneIdentity == DeviceSpec => []OneIdentityPerDevice
BY Invariance, AgreeMeans, PTL

LEMMA NamesMean == DeviceInv => NameSameSourceButOneClick
<1> SUFFICES ASSUME DeviceInv PROVE NameSameSourceButOneClick  OBVIOUS
<1>1. ASSUME NEW l \in Logins \ exposed, told[l] # OneClickName, NEW i \in shown[l]
      PROVE  i = told[l]
  <2>1. l \in Devices  BY DeviceParts DEF DeviceInv
  <2>2. i \in Identities  BY <1>1, <2>1 DEF DeviceInv, DeviceTypeOK
  <2>3. Claimed(l, i)  BY <1>1 DEF Claimed
  <2> QED  BY <1>1, <2>2, <2>3 DEF DeviceInv, Told
<1>2. ASSUME NEW a \in Accounts, device[a].device \in Logins \ exposed,
             NEW i \in shown[device[a].device]
      PROVE  i = device[a].name
  <2> DEFINE d == device[a].device
  <2>1. d \in Devices /\ d # 0 /\ device[a].identity \in Identities \cup {None}
    BY <1>2, DeviceParts DEF DeviceInv
  <2>2. device[a].identity # None  BY <2>1 DEF DeviceInv, BareIsOld, Bare
  <2>3. i \in Identities /\ device[a].identity \in Identities
    BY <1>2, <2>1, <2>2 DEF DeviceInv, DeviceTypeOK
  <2>4. Claimed(d, i) /\ Claimed(d, device[a].identity)  BY <1>2, <2>3 DEF Claimed
  <2>5. i = device[a].identity  BY <2>1, <2>3, <2>4 DEF DeviceInv, Agree
  <2> QED  BY <1>2, <2>5 DEF DeviceInv, Named
<1> QED  BY <1>1, <1>2 DEF NameSameSourceButOneClick

\* The name of a device, as its row has it and as a login that was not a
\* one-click login told it, and its requests are of one platform (DeviceName,
\* ChatFingerprintHeaders).
THEOREM NamesAreSameSource == DeviceSpec => []NameSameSourceButOneClick
BY Invariance, NamesMean, PTL

=============================================================================
