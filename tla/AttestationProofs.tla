------------------------- MODULE AttestationProofs -------------------------
(***************************************************************************)
(* Proofs about the attestation cache: types, the single flight per        *)
(* credential, the need of every probe and the cool-down after failures,   *)
(* for any number of credentials and calls.                                *)
(***************************************************************************)
EXTENDS Attestation, TLAPS

LEMMA EntryFacts ==
  /\ NoEntry \in Entry /\ ~Usable(NoEntry) /\ NoEntry.failed = 0
  /\ \A token, t \in Nat : Issued(token, t) \in Entry /\ Issued(token, t).failed = 0
  /\ \A t \in Nat : Unissued(t) \in Entry /\ Unissued(t).failed = 0
BY DEF NoEntry, Entry, Issued, Unissued, Usable

LEMMA NoCallIsCall == NoCall \in Call
BY EntryFacts DEF NoCall, Call, Stages

\* Moving a call on and giving it a token or an old entry.
LEMMA MovedCalls ==
  ASSUME NEW x \in Call, NEW stage \in Stages, NEW token \in Nat, NEW old \in Entry
  PROVE  /\ [x EXCEPT !.stage = stage] \in Call
         /\ [x EXCEPT !.stage = stage, !.token = token] \in Call
         /\ [x EXCEPT !.stage = stage, !.old = old] \in Call
BY DEF Call

\* put leaves entries in the cache and locks that were made.
LEMMA PutTypes ==
  ASSUME TypeOK, NEW c \in Creds, NEW entry \in Entry, Put(c, entry)
  PROVE  /\ cache' \in [Creds -> Entry]
         /\ keyMu' \in [Creds -> Nat]
         /\ \A i \in Creds : keyMu'[i] <= made[i]
         /\ swept' \in SUBSET Creds
         /\ forgot' \in SUBSET Creds
         /\ failedAt' \in [Creds -> Nat]
BY EntryFacts DEF Put, TypeOK

LEMMA InitTypes == Init => TypeOK
BY EntryFacts, NoCallIsCall DEF Init, TypeOK, NoCall

\* A call that has started works for one credential, which stays.
OneCred(x) == x.stage # "idle" => \E c \in Creds : x.cred = {c}

\* To show that types are kept by a step of one call.
LEMMA StepTypes ==
  ASSUME TypeOK, NEW r \in Calls, NEW x \in Call, OneCred(x),
         call' = [call EXCEPT ![r] = x]
  PROVE  /\ call' \in [Calls -> Call]
         /\ \A q \in Calls : call'[q].stage # "idle" => \E c \in Creds : call'[q].cred = {c}
BY DEF TypeOK, OneCred

\* A call that moves on keeps its credential and its lock.
LEMMA MoveOn ==
  ASSUME TypeOK, NEW r \in Calls, call[r].stage # "idle",
         NEW stage \in Stages \ {"idle"}, NEW token \in Nat, NEW old \in Entry,
         \/ call' = [call EXCEPT ![r].stage = stage]
         \/ call' = [call EXCEPT ![r].stage = stage, ![r].token = token]
         \/ call' = [call EXCEPT ![r].stage = stage, ![r].old = old]
  PROVE  /\ call' \in [Calls -> Call]
         /\ \A q \in Calls : call'[q].stage # "idle" => \E c \in Creds : call'[q].cred = {c}
         /\ \A q \in Calls \ {r} : call'[q] = call[q]
         /\ call'[r].stage = stage /\ call'[r].cred = call[r].cred
         /\ call'[r].lock = call[r].lock
<1>1. call[r] \in Call /\ OneCred(call[r])
  BY DEF TypeOK, OneCred
<1>2. CASE call' = [call EXCEPT ![r].stage = stage]
  <2>1. [call[r] EXCEPT !.stage = stage] \in Call
    BY <1>1, MovedCalls
  <2>2. call' = [call EXCEPT ![r] = [call[r] EXCEPT !.stage = stage]]
    BY <1>2
  <2> QED BY <1>1, <2>1, <2>2 DEF TypeOK, OneCred, Call
<1>3. CASE call' = [call EXCEPT ![r].stage = stage, ![r].token = token]
  <2>1. [call[r] EXCEPT !.stage = stage, !.token = token] \in Call
    BY <1>1, MovedCalls
  <2>2. call' = [call EXCEPT ![r] = [call[r] EXCEPT !.stage = stage, !.token = token]]
    BY <1>1, <1>3 DEF TypeOK
  <2> QED BY <1>1, <2>1, <2>2 DEF TypeOK, OneCred, Call
<1>4. CASE call' = [call EXCEPT ![r].stage = stage, ![r].old = old]
  <2>1. [call[r] EXCEPT !.stage = stage, !.old = old] \in Call
    BY <1>1, MovedCalls
  <2>2. call' = [call EXCEPT ![r] = [call[r] EXCEPT !.stage = stage, !.old = old]]
    BY <1>1, <1>4 DEF TypeOK
  <2> QED BY <1>1, <2>1, <2>2 DEF TypeOK, OneCred, Call
<1> QED BY <1>2, <1>3, <1>4

-----------------------------------------------------------------------------
(* What the two kinds of step do to the calls.                             *)

\* A step of a call that does not touch the cache, the locks or the history.
Moves(r, from, to) ==
  /\ call[r].stage \in from /\ call'[r].stage \in to
  /\ call'[r].cred = call[r].cred /\ call'[r].lock = call[r].lock
  /\ \A q \in Calls \ {r} : call'[q] = call[q]

CallsTyped ==
  /\ call \in [Calls -> Call]
  /\ \A q \in Calls : call[q].stage # "idle" => \E c \in Creds : call[q].cred = {c}

\* The steps that ask the cache or move on, and nothing else.
LEMMA FastMoves ==
  ASSUME TypeOK, NEW r \in Calls, NEW c \in Creds, Fast(r, c)
  PROVE  CallsTyped' /\ Moves(r, {"fast"}, {"have", "lookup"})
<1>1. cache[c].token \in Nat /\ NoEntry \in Entry
  BY EntryFacts DEF TypeOK, Entry
<1>2. CASE Usable(cache[c])
  BY SMTT(20), <1>1, <1>2, MoveOn DEF Fast, At, Cached, Return, Stages, CallsTyped, Moves
<1>3. CASE ~Usable(cache[c])
  BY <1>1, <1>3, MoveOn DEF Fast, At, Cached, Goto, Stages, CallsTyped, Moves
<1> QED BY <1>2, <1>3

LEMMA CheckMoves ==
  ASSUME TypeOK, NEW r \in Calls, NEW c \in Creds, Check(r, c)
  PROVE  /\ CallsTyped' /\ Moves(r, {"check"}, {"unlock", "read"})
         /\ call'[r].stage = "read" => ~Usable(cache[c])
<1>1. cache[c].token \in Nat /\ NoEntry \in Entry
  BY EntryFacts DEF TypeOK, Entry
<1>2. CASE Usable(cache[c])
  BY <1>1, <1>2, MoveOn DEF Check, At, Cached, Return, Stages, CallsTyped, Moves
<1>3. CASE ~Usable(cache[c])
  BY <1>1, <1>3, MoveOn DEF Check, At, Cached, Goto, Stages, CallsTyped, Moves
<1> QED BY <1>2, <1>3

LEMMA ReadMoves ==
  ASSUME TypeOK, NEW r \in Calls, NEW c \in Creds, Read(r, c)
  PROVE  CallsTyped' /\ Moves(r, {"read"}, {"unlock", "probe"})
<1>1. cache[c].token \in Nat /\ cache[c] \in Entry
  BY DEF TypeOK, Entry
<1>2. \/ call' = [call EXCEPT ![r].stage = "unlock", ![r].token = cache[c].token]
      \/ call' = [call EXCEPT ![r].stage = "probe", ![r].old = cache[c]]
  BY DEF Read, Return
<1> QED BY SMTT(20), <1>1, <1>2, MoveOn DEF Read, At, Stages, CallsTyped, Moves

\* The end of a probe: the call holds its lock until the next step.
LEMMA ProbeMoves ==
  ASSUME TypeOK, NEW r \in Calls, NEW c \in Creds, At(r, "probe", c),
         NEW token \in Nat, Return(r, "unlock", token)
  PROVE  CallsTyped' /\ Moves(r, {"probe"}, {"unlock"})
<1>1. NoEntry \in Entry
  BY EntryFacts
<1> QED BY <1>1, MoveOn DEF At, Return, Stages, CallsTyped, Moves

LEMMA GotoMoves ==
  ASSUME TypeOK, NEW r \in Calls, NEW stage \in Stages \ {"idle"},
         call[r].stage # "idle", Goto(r, stage)
  PROVE  CallsTyped' /\ Moves(r, {call[r].stage}, {stage})
<1>1. NoEntry \in Entry /\ 0 \in Nat
  BY EntryFacts
<1> QED BY <1>1, MoveOn DEF Goto, CallsTyped, Moves

-----------------------------------------------------------------------------
(* The inductive invariant.                                                *)

User(r, c) ==
  /\ c \in call[r].cred
  /\ call[r].stage \in {"lock", "check", "read", "probe", "unlock"}
Holder(r, c) ==
  /\ c \in call[r].cred
  /\ call[r].stage \in {"check", "read", "probe", "unlock"}

\* A lock in use was made, and is held by one call.
LocksInv ==
  \A c \in Creds :
    /\ \A r \in Calls : User(r, c) => call[r].lock \in 1..made[c]
    /\ \A q, r \in Calls :
         (Holder(q, c) /\ Holder(r, c) /\ call[q].lock = call[r].lock) => q = r

\* Unless it was swept, all who use a credential's lock use the same one.
CurrentInv ==
  \A c \in Creds \ swept : \A r \in Calls : User(r, c) => call[r].lock = keyMu[c]

\* What the second look at the cache has seen is still true.
ReadInv ==
  \A c \in Creds \ swept : \A r \in Calls : At(r, "read", c) => ~Usable(cache[c])

\* The last failure is remembered unless its entry was dropped.
FailureInv == \A c \in Creds \ forgot : cache[c].failed = failedAt[c]

Inv == TypeOK /\ LocksInv /\ CurrentInv /\ ReadInv /\ FailureInv

LEMMA InitInv == Init => Inv
BY InitTypes, EntryFacts
   DEF Init, Inv, LocksInv, CurrentInv, ReadInv, FailureInv, User, Holder, At, NoCall

\* A quiet step out of or within the users' stages keeps the invariant.
LEMMA QuietKeepsInv ==
  ASSUME Inv, NEW r \in Calls, CallsTyped', NEW from, NEW to, Moves(r, from, to),
         \/ from \subseteq {"fast", "unlock", "have"} /\ to \subseteq {"lookup", "have", "done"}
         \/ /\ from \subseteq {"check", "read"}
            /\ to \subseteq {"read", "probe", "unlock"}
            /\ call'[r].stage = "read" =>
                 \A c \in Creds : c \in call[r].cred => ~Usable(cache[c]),
         UNCHANGED <<cache, keyMu, made, issued, now, history>>
  PROVE  Inv'
<1>1. TypeOK'
  BY DEF Inv, TypeOK, CallsTyped, history
<1>2. \A q \in Calls, i \in Creds :
        /\ User(q, i)' => User(q, i)
        /\ Holder(q, i)' => Holder(q, i)
        /\ call'[q].lock = call[q].lock
  BY DEF Moves, User, Holder
<1>0. UNCHANGED <<made, keyMu, swept>>
  BY DEF history
<1>3. LocksInv'
  BY <1>0, <1>2 DEF Inv, LocksInv
<1>4. CurrentInv'
  BY <1>0, <1>2 DEF Inv, CurrentInv
<1>5. ReadInv'
  BY DEF Inv, ReadInv, At, Usable, Moves, history
<1>6. FailureInv'
  BY DEF Inv, FailureInv, history
<1> QED BY <1>1, <1>3, <1>4, <1>5, <1>6 DEF Inv

LEMMA StartKeepsInv ==
  ASSUME Inv, NEW r \in Calls, NEW c \in Creds, Start(r, c)
  PROVE  Inv'
<1> DEFINE x == [NoCall EXCEPT !.stage = "fast", !.cred = {c}]
<1>1. x \in Call /\ OneCred(x) /\ x.stage = "fast"
  BY EntryFacts DEF Inv, TypeOK, NoCall, Call, Stages, OneCred
<1>2. call' = [call EXCEPT ![r] = x]
  BY DEF Start
<1> HIDE DEF x
<1>3. CallsTyped'
  BY <1>1, <1>2, StepTypes DEF Inv, CallsTyped
<1>4. TypeOK'
  BY <1>3 DEF Inv, TypeOK, CallsTyped, Start, history
<1>5. call'[r].stage = "fast" /\ \A q \in Calls \ {r} : call'[q] = call[q]
  BY <1>1, <1>2 DEF Inv, TypeOK
<1>6. LocksInv' /\ CurrentInv'
  BY <1>5 DEF Inv, LocksInv, CurrentInv, User, Holder, Start, history
<1>7. ReadInv'
  BY <1>5 DEF Inv, ReadInv, At, Usable, Start, history
<1>8. FailureInv'
  BY DEF Inv, FailureInv, Start, history
<1> QED BY <1>4, <1>6, <1>7, <1>8 DEF Inv

LEMMA LockForKeepsInv ==
  ASSUME Inv, NEW r \in Calls, NEW c \in Creds, LockFor(r, c)
  PROVE  Inv'
<1>1. keyMu' \in [Creds -> Nat] /\ made' \in [Creds -> Nat]
  BY DEF LockFor, Inv, TypeOK
<1>2. /\ keyMu'[c] \in 1..made'[c] /\ made[c] <= made'[c]
      /\ \A i \in Creds \ {c} : keyMu'[i] = keyMu[i] /\ made'[i] = made[i]
      /\ keyMu[c] # 0 => keyMu'[c] = keyMu[c]
  BY DEF LockFor, Inv, TypeOK
<1>3. call[r] \in Call /\ call[r].cred = {c} /\ call[r].stage = "lookup"
  BY DEF LockFor, At, Inv, TypeOK
<1> DEFINE x == [call[r] EXCEPT !.stage = "lock", !.lock = keyMu'[c]]
<1>4. call' = [call EXCEPT ![r] = x]
  BY <1>3 DEF LockFor, Inv, TypeOK
<1>5. /\ x \in Call /\ OneCred(x)
      /\ x.stage = "lock" /\ x.cred = {c} /\ x.lock = keyMu'[c]
  BY <1>1, <1>3 DEF Call, Stages, OneCred
<1> HIDE DEF x
<1>6. CallsTyped'
  BY <1>4, <1>5, StepTypes DEF Inv, CallsTyped
<1>7. TypeOK'
  BY SMTT(20), <1>1, <1>2, <1>6 DEF Inv, TypeOK, CallsTyped, LockFor, history
<1>8. /\ call'[r].stage = "lock" /\ call'[r].cred = {c} /\ call'[r].lock = keyMu'[c]
      /\ \A q \in Calls \ {r} : call'[q] = call[q]
  BY <1>4, <1>5 DEF Inv, TypeOK
<1>9. LocksInv'
  BY <1>1, <1>2, <1>8 DEF Inv, TypeOK, LocksInv, User, Holder
<1>10. CurrentInv'
  <2>1. \A i \in Creds \ swept : \A q \in Calls \ {r} :
          User(q, i) => call[q].lock = keyMu'[i]
    <3> SUFFICES ASSUME NEW i \in Creds \ swept, NEW q \in Calls \ {r}, User(q, i)
                 PROVE  call[q].lock = keyMu'[i]
      OBVIOUS
    <3>1. call[q].lock = keyMu[i] /\ call[q].lock \in 1..made[i] /\ made[i] \in Nat
      BY DEF Inv, TypeOK, LocksInv, CurrentInv
    <3> QED BY <1>2, <3>1
  <2>2. swept' = swept
    BY DEF LockFor, history
  <2>3. \A i \in Creds : \A q \in Calls \ {r} : User(q, i)' => User(q, i) /\ call'[q].lock = call[q].lock
    BY <1>8 DEF User
  <2>4. \A i \in Creds : User(r, i)' => call'[r].lock = keyMu'[i]
    BY <1>8 DEF User
  <2>5. \A i \in Creds \ swept : \A q \in Calls : User(q, i)' => call'[q].lock = keyMu'[i]
    BY <2>1, <2>3, <2>4
  <2> QED BY <2>2, <2>5 DEF CurrentInv
<1>11. ReadInv'
  <2>1. UNCHANGED <<cache, now, swept>>  BY DEF LockFor, history
  <2>2. \A q \in Calls, i \in Creds : At(q, "read", i)' => At(q, "read", i)
    BY <1>8 DEF At
  <2> QED  BY <2>1, <2>2 DEF Inv, ReadInv, Usable
<1>12. FailureInv'
  BY DEF Inv, FailureInv, LockFor, history
<1> QED BY <1>7, <1>9, <1>10, <1>11, <1>12 DEF Inv

LEMMA LockKeepsInv ==
  ASSUME Inv, NEW r \in Calls, NEW c \in Creds, Lock(r, c)
  PROVE  Inv'
<1>1. call[r].stage = "lock" /\ call[r].cred = {c}
  BY DEF Lock, At, Inv, TypeOK
<1>2. CallsTyped' /\ Moves(r, {"lock"}, {"check"})
  BY <1>1, GotoMoves DEF Lock, Inv, Stages
<1>3. TypeOK'
  BY <1>2 DEF Inv, TypeOK, CallsTyped, Lock, history
<1>4. \A q \in Calls, i \in Creds :
        /\ User(q, i)' <=> User(q, i)
        /\ call'[q].lock = call[q].lock
        /\ q # r => (Holder(q, i)' <=> Holder(q, i))
        /\ Holder(r, i)' <=> i = c
  BY <1>1, <1>2 DEF Moves, User, Holder
<1>5. \A q \in Calls : Holder(q, c) => call[q].lock # call[r].lock
  BY DEF Lock, Holds, Holder
<1>6. LocksInv'
  BY <1>4, <1>5 DEF Inv, LocksInv, Lock
<1>7. CurrentInv'
  BY <1>4 DEF Inv, CurrentInv, Lock, history
<1>8. ReadInv'
  BY <1>2 DEF Inv, ReadInv, At, Usable, Lock, Moves, history
<1>9. FailureInv'
  BY DEF Inv, FailureInv, Lock, history
<1> QED BY <1>3, <1>6, <1>7, <1>8, <1>9 DEF Inv

-----------------------------------------------------------------------------
(* The steps that change the cache.                                        *)

\* The end of r's probe for c: whoever else uses c's lock is not past the
\* first wait, so no other call relies on what the cache says about c.
LEMMA ProbeEnds ==
  ASSUME Inv, NEW r \in Calls, NEW c \in Creds, At(r, "probe", c),
         Moves(r, {"probe"}, {"unlock"}), made' = made, now' = now,
         swept \subseteq swept',
         \A i \in Creds \ swept' : \A q \in Calls :
           User(q, i) => keyMu'[i] = keyMu[i] /\ (i # c => cache'[i] = cache[i])
  PROVE  LocksInv' /\ CurrentInv' /\ ReadInv'
<1>1. \A q \in Calls, i \in Creds :
        /\ User(q, i)' => User(q, i)
        /\ Holder(q, i)' => Holder(q, i)
        /\ call'[q].lock = call[q].lock
  BY DEF Moves, User, Holder
<1>2. LocksInv'
  BY <1>1 DEF Inv, LocksInv
<1>3. CurrentInv'
  <2>1. \A i \in Creds \ swept' : \A q \in Calls : User(q, i)' => call'[q].lock = keyMu'[i]
    BY <1>1 DEF Inv, CurrentInv
  <2> QED BY <2>1 DEF CurrentInv
<1>4. ASSUME NEW i \in Creds \ swept', NEW q \in Calls, At(q, "read", i)'
      PROVE  ~Usable(cache[i]) /\ cache'[i] = cache[i]
  <2>1. At(q, "read", i) /\ q # r
    BY <1>4 DEF At, Moves
  <2>2. User(q, i) /\ Holder(q, i) /\ User(r, c) /\ Holder(r, c)
    BY <2>1 DEF At, User, Holder
  <2>3. i # c
    BY <2>1, <2>2 DEF Inv, LocksInv, CurrentInv
  <2> QED BY <2>1, <2>2, <2>3 DEF Inv, ReadInv
<1>5. ReadInv'
  BY <1>4 DEF ReadInv, Usable
<1> QED BY <1>2, <1>3, <1>5

\* put drops the lock of a credential in use only if it marks it swept.
LEMMA PutKeepsInv ==
  ASSUME Inv, NEW r \in Calls, NEW c \in Creds, At(r, "probe", c),
         NEW entry \in Entry, entry.failed = 0, Put(c, entry),
         NEW token \in Nat, Return(r, "unlock", token),
         issued' \in [Creds -> Nat], UNCHANGED <<made, now, dead>>
  PROVE  Inv'
<1> DEFINE filled == [cache EXCEPT ![c] = entry]
           gone   == {i \in Creds : filled[i] # NoEntry /\ now > filled[i].expires}
<1>1. CallsTyped' /\ Moves(r, {"probe"}, {"unlock"})
  BY ProbeMoves DEF Inv
<1>2. TypeOK'
  BY <1>1, PutTypes DEF Inv, TypeOK, CallsTyped
<1>3. /\ cache' = [i \in Creds |-> IF i \in gone THEN NoEntry ELSE filled[i]]
      /\ keyMu' = [i \in Creds |-> IF i \in gone THEN 0 ELSE keyMu[i]]
      /\ failedAt' = [failedAt EXCEPT ![c] = 0]
      /\ swept' = swept \cup {i \in gone : UsersOf(i) # {}}
      /\ forgot' = forgot \cup gone
  BY DEF Put
<1>4. /\ filled[c] = entry /\ \A i \in Creds \ {c} : filled[i] = cache[i]
      /\ gone \subseteq Creds
  BY DEF Inv, TypeOK
<1> HIDE DEF gone, filled
<1>5. ASSUME NEW i \in Creds \ swept', NEW q \in Calls, User(q, i)
      PROVE  i \notin gone
  <2>1. q \in UsersOf(i)
    BY <1>3, <1>5 DEF Inv, CurrentInv, User, UsersOf
  <2> QED BY <2>1, <1>3
<1>6. \A i \in Creds \ swept' : \A q \in Calls :
        User(q, i) => keyMu'[i] = keyMu[i] /\ (i # c => cache'[i] = cache[i])
  BY <1>3, <1>4, <1>5
<1>7. LocksInv' /\ CurrentInv' /\ ReadInv'
  BY <1>1, <1>3, <1>6, ProbeEnds
<1>8. \A i \in Creds \ forgot' : cache'[i].failed = failedAt'[i]
  BY <1>3, <1>4 DEF Inv, TypeOK, FailureInv
<1>9. FailureInv'
  BY <1>8 DEF FailureInv
<1> QED BY <1>2, <1>7, <1>9 DEF Inv

LEMMA ProbeIssuesKeepsInv ==
  ASSUME Inv, NEW r \in Calls, NEW c \in Creds, NEW lifetime \in Lifetimes,
         ProbeIssues(r, c, lifetime)
  PROVE  Inv'
<1> DEFINE token == issued[c] + 1
           entry == Issued(token, now + lifetime)
<1>1. token \in Nat /\ now + lifetime \in Nat
  BY AttestationAssumption DEF Inv, TypeOK
<1>2. entry \in Entry /\ entry.failed = 0
  BY <1>1, EntryFacts
<1>3. /\ At(r, "probe", c) /\ Put(c, entry) /\ Return(r, "unlock", token)
      /\ issued' \in [Creds -> Nat] /\ UNCHANGED <<made, now, dead>>
  BY <1>1 DEF ProbeIssues, Inv, TypeOK
<1> HIDE DEF token, entry
<1> QED BY <1>1, <1>2, <1>3, PutKeepsInv

LEMMA ProbeIssuesNothingKeepsInv ==
  ASSUME Inv, NEW r \in Calls, NEW c \in Creds, ProbeIssuesNothing(r, c)
  PROVE  Inv'
<1> DEFINE entry == Unissued(now + Quiet)
<1>1. entry \in Entry /\ entry.failed = 0
  BY EntryFacts, AttestationAssumption DEF Inv, TypeOK
<1>2. /\ At(r, "probe", c) /\ Put(c, entry) /\ Return(r, "unlock", 0)
      /\ issued' \in [Creds -> Nat] /\ UNCHANGED <<made, now, dead>>
  BY DEF ProbeIssuesNothing, Inv, TypeOK
<1> HIDE DEF entry
<1> QED BY <1>1, <1>2, PutKeepsInv

LEMMA ProbeFailsKeepsInv ==
  ASSUME Inv, NEW r \in Calls, NEW c \in Creds, ProbeFails(r, c)
  PROVE  Inv'
<1> DEFINE entry == [call[r].old EXCEPT !.failed = now]
<1>1. call[r].old.token \in Nat /\ entry \in Entry /\ entry.failed = now
  BY DEF Inv, TypeOK, Call, Entry
<1>2. /\ At(r, "probe", c) /\ Return(r, "unlock", call[r].old.token)
      /\ cache' = [cache EXCEPT ![c] = entry]
      /\ failedAt' = [failedAt EXCEPT ![c] = now]
      /\ forgot' = forgot \ {c}
      /\ UNCHANGED <<keyMu, made, issued, now, swept, dead>>
  BY DEF ProbeFails
<1> HIDE DEF entry
<1>3. CallsTyped' /\ Moves(r, {"probe"}, {"unlock"})
  BY <1>1, <1>2, ProbeMoves DEF Inv
<1>4. TypeOK'
  BY <1>1, <1>2, <1>3 DEF Inv, TypeOK, CallsTyped
<1>5. \A i \in Creds \ {c} : cache'[i] = cache[i]
  BY <1>2 DEF Inv, TypeOK
<1>6. LocksInv' /\ CurrentInv' /\ ReadInv'
  BY <1>2, <1>3, <1>5, ProbeEnds
<1>7. \A i \in Creds \ forgot' : cache'[i].failed = failedAt'[i]
  BY <1>1, <1>2 DEF Inv, TypeOK, FailureInv
<1>8. FailureInv'
  BY <1>7 DEF FailureInv
<1> QED BY <1>4, <1>6, <1>8 DEF Inv

LEMMA InvalidateKeepsInv ==
  ASSUME Inv, NEW r \in Calls, NEW c \in Creds, Invalidate(r, c)
  PROVE  Inv'
<1>1. call[r].stage = "have" /\ Goto(r, "done")
  BY DEF Invalidate, At
<1>2. CallsTyped' /\ Moves(r, {"have"}, {"done"})
  BY <1>1, GotoMoves DEF Inv, Stages
<1>3. call[r].token \in Nat
  BY DEF Inv, TypeOK, Call
<1>4. TypeOK'
  BY <1>2, <1>3, EntryFacts DEF Invalidate, Inv, TypeOK, CallsTyped
<1>5. UNCHANGED <<made, keyMu, swept, now>>
  BY DEF Invalidate
<1>6. \A q \in Calls, i \in Creds :
        /\ User(q, i)' => User(q, i)
        /\ Holder(q, i)' => Holder(q, i)
        /\ call'[q].lock = call[q].lock
  BY <1>2 DEF Moves, User, Holder
<1>7. LocksInv'
  BY <1>5, <1>6 DEF Inv, LocksInv
<1>8. CurrentInv'
  BY <1>5, <1>6 DEF Inv, CurrentInv
<1>9. \A i \in Creds : cache'[i] = NoEntry \/ cache'[i] = cache[i]
  BY DEF Invalidate, Inv, TypeOK
<1>10. \A i \in Creds \ swept : \A q \in Calls : At(q, "read", i)' => ~Usable(cache'[i])
  BY <1>2, <1>9, EntryFacts DEF Inv, ReadInv, At, Moves
<1>11. ReadInv'
  BY <1>5, <1>10 DEF ReadInv, Usable
<1>12. FailureInv'
  BY DEF Invalidate, Inv, TypeOK, FailureInv
<1> QED BY <1>4, <1>7, <1>8, <1>11, <1>12 DEF Inv

\* Time only takes usable entries away.
LEMMA TickKeepsInv ==
  ASSUME Inv, Tick
  PROVE  Inv'
<1>1. now' = now + 1 /\ UNCHANGED <<cache, keyMu, made, issued, call, swept, forgot, failedAt, dead>>
  BY DEF Tick, history
<1>2. TypeOK'
  BY <1>1 DEF Inv, TypeOK
<1>3. LocksInv' /\ CurrentInv' /\ FailureInv'
  BY <1>1 DEF Inv, LocksInv, CurrentInv, FailureInv, User, Holder
<1>4. \A i \in Creds : Usable(cache[i])' => Usable(cache[i])
  BY <1>1, AttestationAssumption DEF Inv, TypeOK, Entry, Usable
<1>5. ReadInv'
  BY <1>1, <1>4 DEF Inv, ReadInv, At
<1> QED BY <1>2, <1>3, <1>5 DEF Inv

-----------------------------------------------------------------------------
(* The invariant.                                                          *)

LEMMA StutterKeepsInv ==
  ASSUME Inv, UNCHANGED vars
  PROVE  Inv'
<1>1. UNCHANGED <<cache, keyMu, made, issued, now, call, swept, forgot, failedAt, dead>>
  BY DEF vars, history
<1> QED
  BY <1>1 DEF Inv, TypeOK, LocksInv, CurrentInv, ReadInv, FailureInv, User, Holder, At, Usable

LEMMA StepKeepsInv ==
  ASSUME Inv, NEW r \in Calls, Step(r)
  PROVE  Inv'
<1>1. ASSUME NEW c \in Creds, Fast(r, c) PROVE Inv'
  <2>1. UNCHANGED <<cache, keyMu, made, issued, now, history>>
    BY <1>1 DEF Fast
  <2> QED BY <1>1, <2>1, FastMoves, QuietKeepsInv DEF Inv
<1>2. ASSUME NEW c \in Creds, Check(r, c) PROVE Inv'
  <2>1. UNCHANGED <<cache, keyMu, made, issued, now, history>>
    BY <1>2 DEF Check
  <2>2. /\ CallsTyped' /\ Moves(r, {"check"}, {"unlock", "read"})
        /\ call'[r].stage = "read" => ~Usable(cache[c])
    BY <1>2, CheckMoves DEF Inv
  <2>3. call[r].cred = {c}
    BY <1>2 DEF Check, At, Inv, TypeOK
  <2> QED BY <2>1, <2>2, <2>3, QuietKeepsInv
<1>3. ASSUME NEW c \in Creds, Read(r, c) PROVE Inv'
  <2>1. UNCHANGED <<cache, keyMu, made, issued, now, history>>
    BY <1>3 DEF Read
  <2>2. CallsTyped' /\ Moves(r, {"read"}, {"unlock", "probe"})
    BY <1>3, ReadMoves DEF Inv
  <2>3. call'[r].stage # "read"
    BY <2>2 DEF Moves
  <2> QED BY <2>1, <2>2, <2>3, QuietKeepsInv
<1>4. CASE Unlock(r)
  <2>1. call[r].stage = "unlock" /\ UNCHANGED <<cache, keyMu, made, issued, now, history>>
    BY <1>4 DEF Unlock
  <2>2. CallsTyped' /\ Moves(r, {"unlock"}, {"have"})
    BY <1>4, <2>1, GotoMoves DEF Unlock, Inv, Stages
  <2> QED BY <2>1, <2>2, QuietKeepsInv
<1> QED
  BY <1>1, <1>2, <1>3, <1>4, LockForKeepsInv, LockKeepsInv, ProbeFailsKeepsInv,
     ProbeIssuesKeepsInv, ProbeIssuesNothingKeepsInv
     DEF Step

LEMMA UseKeepsInv ==
  ASSUME Inv, NEW r \in Calls, Use(r)
  PROVE  Inv'
<1>1. CASE Accepted(r)
  <2>1. call[r].stage = "have" /\ UNCHANGED <<cache, keyMu, made, issued, now, history>>
    BY <1>1 DEF Accepted
  <2>2. CallsTyped' /\ Moves(r, {"have"}, {"done"})
    BY <1>1, <2>1, GotoMoves DEF Accepted, Inv, Stages
  <2> QED BY <2>1, <2>2, QuietKeepsInv
<1> QED BY <1>1, InvalidateKeepsInv DEF Use

LEMMA NextKeepsInv == Inv /\ [Next]_vars => Inv'
BY StepKeepsInv, UseKeepsInv, StartKeepsInv, TickKeepsInv, StutterKeepsInv DEF Next

LEMMA Invariance == Spec => []Inv
<1> QED BY InitInv, NextKeepsInv, PTL DEF Spec

-----------------------------------------------------------------------------
(* What follows from it.                                                   *)

\* Every call, entry and lock stays in its range, whatever the sweeps do.
THEOREM TypesKept == Spec => []TypeOK
<1>1. Inv => TypeOK
  BY DEF Inv
<1> QED BY <1>1, Invariance, PTL

\* Two calls that probe for a credential which was not swept hold its lock,
\* the same one: Token renews a token once, however many requests want it.
THEOREM RenewedOnce == Spec => []SingleFlightUnlessSwept
<1>1. Inv => SingleFlightUnlessSwept
  <2> SUFFICES ASSUME Inv, NEW c \in Creds \ swept, NEW q \in Probing(c), NEW r \in Probing(c)
               PROVE  q = r
    BY DEF SingleFlightUnlessSwept
  <2>1. User(q, c) /\ Holder(q, c) /\ User(r, c) /\ Holder(r, c)
    BY DEF Probing, At, User, Holder
  <2> QED BY <2>1 DEF Inv, LocksInv, CurrentInv, Probing
<1> QED BY <1>1, Invariance, PTL

\* The second look of Token is still true when the probe begins.
THEOREM ProbedWhenNeeded == Spec => ProbesAreNeeded
<1>1. Inv /\ [Next]_vars =>
        [\A c \in Creds \ swept : \A r \in Calls :
           (At(r, "read", c) /\ call'[r].stage = "probe") => ~Usable(cache[c])]_vars
  BY DEF Inv, ReadInv
<1> QED BY <1>1, Invariance, PTL DEF Spec, ProbesAreNeeded

\* A step that changes the stage of r from read to probe is r's read.
LEMMA OnlyReadProbes ==
  ASSUME Inv, Next, NEW r \in Calls, NEW c \in Creds,
         At(r, "read", c), call'[r].stage = "probe"
  PROVE  Read(r, c)
<1>1. call \in [Calls -> Call] /\ call[r].stage = "read" /\ call[r].cred = {c}
  BY DEF Inv, TypeOK, At
<1>2. ASSUME NEW q \in Calls, Step(q)
      PROVE  q = r
  <2>1. PICK stage : \/ Goto(q, stage)
                     \/ \E token : Return(q, stage, token)
                     \/ \E old : call' = [call EXCEPT ![q].stage = stage, ![q].old = old]
                     \/ \E lock : call' = [call EXCEPT ![q].stage = stage, ![q].lock = lock]
    BY <1>2 DEF Step, Fast, LockFor, Lock, Check, Read, ProbeFails, ProbeIssues,
                ProbeIssuesNothing, Unlock, Cached, Return, Goto
  <2> QED BY <1>1, <2>1 DEF Goto, Return
<1>3. ASSUME Step(r)
      PROVE  Read(r, c)
  <2>1. ~Unlock(r) /\ \A i \in Creds :
          /\ ~(\/ Fast(r, i) \/ LockFor(r, i) \/ Lock(r, i) \/ Check(r, i)
               \/ ProbeFails(r, i) \/ ProbeIssuesNothing(r, i))
          /\ \A lifetime \in Lifetimes : ~ProbeIssues(r, i, lifetime)
    BY <1>1 DEF Unlock, Fast, LockFor, Lock, Check, ProbeFails, ProbeIssues,
                ProbeIssuesNothing, At
  <2>2. PICK i \in Creds : Read(r, i)
    BY <1>3, <2>1 DEF Step
  <2>3. i = c
    BY <1>1, <2>2 DEF Read, At
  <2> QED BY <2>2, <2>3
<1>4. \A q \in Calls : ~Use(q)
  <2> SUFFICES ASSUME NEW q \in Calls, call[q].stage = "have", Goto(q, "done")
               PROVE  FALSE
    BY DEF Use, Accepted, Invalidate, At
  <2> QED BY <1>1 DEF Goto
<1>5. \A q \in Calls, i \in Creds : ~Start(q, i)
  BY <1>1 DEF Start, NoCall
<1>6. ~Tick
  BY <1>1 DEF Tick
<1> QED BY <1>2, <1>3, <1>4, <1>5, <1>6 DEF Next

\* The failure a call reads is the last one, unless its entry was dropped;
\* so within the cool-down it does not probe.
THEOREM CooldownObserved == Spec => CooldownUnlessForgotten
<1>1. Inv /\ [Next]_vars =>
        [\A c \in Creds \ (swept \cup forgot) : \A r \in Calls :
           (At(r, "read", c) /\ call'[r].stage = "probe") => ~Early(c)]_vars
  <2> SUFFICES ASSUME Inv, Next,
                      NEW c \in Creds \ (swept \cup forgot), NEW r \in Calls,
                      At(r, "read", c), call'[r].stage = "probe", Early(c)
               PROVE  FALSE
    OBVIOUS
  <2>1. Read(r, c)
    BY OnlyReadProbes
  <2>2. cache[c].failed # 0 /\ now - cache[c].failed < Cooldown
    BY DEF Inv, FailureInv, Early
  <2>3. call' = [call EXCEPT ![r].stage = "unlock", ![r].token = cache[c].token]
    BY <2>1, <2>2 DEF Read, Return
  <2> QED BY <2>3 DEF Inv, TypeOK, Call
<1> QED BY <1>1, Invariance, PTL DEF Spec, CooldownUnlessForgotten

-----------------------------------------------------------------------------
(* Refused tokens.                                                         *)

\* Every token was issued, wherever it is.
TokensInv ==
  /\ \A c \in Creds : cache[c].token <= issued[c] /\ \A x \in dead[c] : x # 0 /\ x <= issued[c]
  /\ \A r \in Calls : \A c \in call[r].cred :
       call[r].token <= issued[c] /\ call[r].old.token <= issued[c]

RefusedInv == TokensInv /\ RefusedTokenBackOnlyByFailure

LEMMA RefusedStart == Init => RefusedInv
BY DEF Init, RefusedInv, TokensInv, RefusedTokenBackOnlyByFailure, NoEntry, NoCall

\* A call that goes on with a token that was issued, or with none.
LEMMA CallGoesOn ==
  ASSUME TypeOK, RefusedInv, NEW r \in Calls, NEW x, call' = [call EXCEPT ![r] = x],
         \A c \in x.cred : x.token <= issued[c] /\ x.old.token <= issued[c],
         UNCHANGED <<cache, issued, dead>>
  PROVE  RefusedInv'
<1>1. call'[r] = x /\ \A q \in Calls : q # r => call'[q] = call[q]  BY DEF TypeOK
<1> QED  BY <1>1 DEF RefusedInv, TokensInv, RefusedTokenBackOnlyByFailure

\* A renewal that ends puts an old token back, a new one, or none.
LEMMA RenewalEnds ==
  ASSUME TypeOK, RefusedInv, NEW r \in Calls, NEW c \in Creds, At(r, "probe", c),
         ProbeFails(r, c) \/ ProbeIssuesNothing(r, c)
           \/ \E lifetime \in Lifetimes : ProbeIssues(r, c, lifetime)
  PROVE  RefusedInv'
<1>1. /\ call[r] \in Call /\ call[r].cred = {c} /\ call[r].old \in Entry
      /\ call[r].old.token <= issued[c] /\ call[r].old.token \in Nat
      /\ issued[c] \in Nat /\ now \in Nat \ {0}
      /\ \A i \in Creds : cache[i] \in Entry /\ issued[i] \in Nat
  BY DEF At, TypeOK, Call, Entry, RefusedInv, TokensInv
<1>2. ASSUME NEW token \in Nat, Return(r, "unlock", token),
             NEW n \in Nat, issued[c] <= n, token <= n, issued' = [issued EXCEPT ![c] = n],
             dead' = dead,
             \A i \in Creds : i # c => cache'[i] = cache[i] \/ cache'[i] = NoEntry,
             \/ cache'[c] = NoEntry
             \/ cache'[c].token <= n /\ cache'[c].failed # 0
             \/ cache'[c].token <= n /\ cache'[c].token \notin dead[c]
      PROVE  RefusedInv'
  <2>1. issued'[c] = n /\ \A i \in Creds : i # c => issued'[i] = issued[i]
    BY <1>2 DEF TypeOK
  <2>2. \A i \in Creds : dead[i] \subseteq Nat  BY DEF TypeOK
  <2>3. \A i \in Creds : \A x \in dead[i] : x # 0 /\ x <= issued'[i]
    BY <1>1, <1>2, <2>1, <2>2 DEF RefusedInv, TokensInv
  <2>4. \A i \in Creds : cache'[i].token <= issued'[i]
    BY <1>1, <1>2, <2>1 DEF RefusedInv, TokensInv, NoEntry
  <2>5. \A i \in Creds : cache'[i].token \in dead'[i] => cache'[i].failed # 0
    BY <1>2, <2>3 DEF RefusedInv, RefusedTokenBackOnlyByFailure, NoEntry
  <2>6. \A q \in Calls : \A i \in call'[q].cred :
          call'[q].token <= issued'[i] /\ call'[q].old.token <= issued'[i]
    <3>1. /\ call'[r].cred = {c} /\ call'[r].token = token /\ call'[r].old = call[r].old
          /\ \A q \in Calls : q # r => call'[q] = call[q]
      BY <1>1, <1>2 DEF Return, TypeOK, Call
    <3>2. \A q \in Calls : /\ call[q].cred \subseteq Creds /\ call[q].token \in Nat
                           /\ call[q].old.token \in Nat
      BY DEF TypeOK, Call, Entry
    <3> QED  BY <1>1, <1>2, <2>1, <3>1, <3>2 DEF RefusedInv, TokensInv
  <2> QED  BY <1>2, <2>3, <2>4, <2>5, <2>6 DEF RefusedInv, TokensInv, RefusedTokenBackOnlyByFailure
<1>3. CASE ProbeFails(r, c)
  <2> DEFINE n == issued[c]
  <2>1. /\ Return(r, "unlock", call[r].old.token) /\ issued' = issued /\ dead' = dead
        /\ cache' = [cache EXCEPT ![c] = [call[r].old EXCEPT !.failed = now]]
    BY <1>3 DEF ProbeFails
  <2>2. cache'[c].token = call[r].old.token /\ cache'[c].failed # 0
    BY <1>1, <2>1 DEF TypeOK, Entry
  <2>3. issued' = [issued EXCEPT ![c] = n]  BY <2>1 DEF TypeOK
  <2>4. \A i \in Creds : i # c => cache'[i] = cache[i]  BY <2>1 DEF TypeOK
  <2>5. n \in Nat /\ issued[c] <= n /\ call[r].old.token <= n  BY <1>1
  <2> HIDE DEF n
  <2> QED  BY <1>1, <1>2, <2>1, <2>2, <2>3, <2>4, <2>5
<1>4. ASSUME NEW entry, Put(c, entry)
      PROVE  \A i \in Creds :
               cache'[i] = NoEntry \/ cache'[i] = IF i = c THEN entry ELSE cache[i]
  BY <1>4 DEF Put, TypeOK
<1>5. CASE ProbeIssuesNothing(r, c)
  <2> DEFINE n == issued[c] entry == Unissued(now + Quiet)
  <2>1. /\ Return(r, "unlock", 0) /\ issued' = issued /\ dead' = dead /\ Put(c, entry)
    BY <1>5 DEF ProbeIssuesNothing
  <2>2. entry.token = 0  BY DEF Unissued, NoEntry
  <2>3. 0 \notin dead[c] /\ issued' = [issued EXCEPT ![c] = n]
    BY <2>1 DEF RefusedInv, TokensInv, TypeOK
  <2>6. n \in Nat /\ issued[c] <= n /\ 0 <= n  BY <1>1
  <2> HIDE DEF entry, n
  <2>4. \A i \in Creds : i # c => cache'[i] = cache[i] \/ cache'[i] = NoEntry  BY <1>4, <2>1
  <2>5. cache'[c] = NoEntry \/ (cache'[c].token <= n /\ cache'[c].token \notin dead[c])
    BY <1>4, <2>1, <2>2, <2>3, <2>6
  <2> QED  BY <1>2, <2>1, <2>3, <2>4, <2>5, <2>6
<1>6. ASSUME NEW lifetime \in Lifetimes, ProbeIssues(r, c, lifetime) PROVE RefusedInv'
  <2> DEFINE n == issued[c] + 1 entry == Issued(n, now + lifetime)
  <2>1. /\ Return(r, "unlock", n) /\ dead' = dead /\ Put(c, entry)
        /\ issued' = [issued EXCEPT ![c] = n]
    BY <1>6 DEF ProbeIssues, TypeOK
  <2>2. entry.token = n  BY DEF Issued, NoEntry
  <2>3. n \in Nat /\ issued[c] <= n /\ n <= n  BY <1>1
  <2>4. n \notin dead[c]  BY <1>1 DEF RefusedInv, TokensInv
  <2> HIDE DEF entry, n
  <2>5. \A i \in Creds : i # c => cache'[i] = cache[i] \/ cache'[i] = NoEntry  BY <1>4, <2>1
  <2>6. cache'[c] = NoEntry \/ (cache'[c].token <= n /\ cache'[c].token \notin dead[c])
    BY <1>4, <2>1, <2>2, <2>3, <2>4
  <2> QED  BY <1>2, <2>1, <2>3, <2>5, <2>6
<1> QED  BY <1>3, <1>5, <1>6

\* A call that refuses its token drops whatever is in the cache.
LEMMA RefusalDrops ==
  ASSUME TypeOK, RefusedInv, NEW r \in Calls, NEW c \in Creds, Invalidate(r, c)
  PROVE  RefusedInv'
<1>1. call[r] \in Call /\ call[r].token \in Nat /\ call[r].token <= issued[c]
  BY DEF Invalidate, At, TypeOK, Call, RefusedInv, TokensInv
<1>2. /\ cache'[c] = NoEntry /\ \A i \in Creds : i # c => cache'[i] = cache[i]
      /\ dead'[c] = dead[c] \cup ({call[r].token} \ {0})
      /\ \A i \in Creds : i # c => dead'[i] = dead[i]
      /\ issued' = issued
  BY DEF Invalidate, TypeOK
<1>3. \A q \in Calls : /\ call'[q].cred = call[q].cred /\ call'[q].token = call[q].token
                       /\ call'[q].old = call[q].old
  BY <1>1 DEF Invalidate, Goto, TypeOK, Call
<1>4. \A i \in Creds : cache'[i].token <= issued'[i] /\ \A x \in dead'[i] : x # 0 /\ x <= issued'[i]
  BY <1>1, <1>2 DEF RefusedInv, TokensInv, NoEntry, TypeOK
<1>5. \A i \in Creds : cache'[i].token \in dead'[i] => cache'[i].failed # 0
  BY <1>2 DEF RefusedInv, TokensInv, RefusedTokenBackOnlyByFailure, NoEntry
<1>6. TokensInv'  BY <1>2, <1>3, <1>4 DEF RefusedInv, TokensInv
<1>7. RefusedTokenBackOnlyByFailure'  BY <1>5 DEF RefusedTokenBackOnlyByFailure
<1> QED  BY <1>6, <1>7 DEF RefusedInv

LEMMA RefusedStep == TypeOK /\ RefusedInv /\ [Next]_vars => RefusedInv'
<1> SUFFICES ASSUME TypeOK, RefusedInv, [Next]_vars PROVE RefusedInv'  OBVIOUS
<1>1. ASSUME NEW r \in Calls, NEW c \in Creds, Start(r, c) PROVE RefusedInv'
  <2> DEFINE x == [NoCall EXCEPT !.stage = "fast", !.cred = {c}]
  <2>1. x.cred = {c} /\ x.token = 0 /\ x.old.token = 0  BY DEF NoCall, NoEntry
  <2>2. issued[c] \in Nat  BY DEF TypeOK
  <2>3. call' = [call EXCEPT ![r] = x] /\ UNCHANGED <<cache, issued, dead>>
    BY <1>1 DEF Start, history
  <2> HIDE DEF x
  <2>4. \A d \in x.cred : x.token <= issued[d] /\ x.old.token <= issued[d]  BY <2>1, <2>2
  <2> QED  BY <2>3, <2>4, CallGoesOn
<1>2. ASSUME NEW r \in Calls, NEW stage,
             UNCHANGED <<cache, issued, dead>>,
             \/ Goto(r, stage)
             \/ \E c \in call[r].cred : Return(r, stage, cache[c].token)
             \/ \E c \in call[r].cred : call' = [call EXCEPT ![r].stage = stage, ![r].old = cache[c]]
             \/ \E lock : call' = [call EXCEPT ![r].stage = stage, ![r].lock = lock],
             \A c, d \in call[r].cred : c = d
      PROVE  RefusedInv'
  <2>1. call[r] \in Call /\ call[r].cred \subseteq Creds  BY DEF TypeOK, Call
  <2>2. \A c \in call[r].cred : cache[c].token <= issued[c]
    BY <2>1 DEF RefusedInv, TokensInv
  <2>3. \A c \in call'[r].cred :
          call'[r].token <= issued[c] /\ call'[r].old.token <= issued[c]
    BY <1>2, <2>1, <2>2 DEF Goto, Return, TypeOK, Call, RefusedInv, TokensInv
  <2>4. call' = [call EXCEPT ![r] = call'[r]]
    BY <1>2 DEF Goto, Return, TypeOK
  <2> QED  BY <1>2, <2>3, <2>4, CallGoesOn
<1>3. ASSUME NEW r \in Calls, NEW c \in Creds,
             Fast(r, c) \/ LockFor(r, c) \/ Lock(r, c) \/ Check(r, c) \/ Read(r, c)
      PROVE  RefusedInv'
  <2>1. c \in call[r].cred /\ \A d, e \in call[r].cred : d = e
    BY <1>3 DEF Fast, LockFor, Lock, Check, Read, At, TypeOK
  <2>2. UNCHANGED <<cache, issued, dead>>
    BY <1>3 DEF Fast, LockFor, Lock, Check, Read, history
  <2>3. \E stage :
          \/ Goto(r, stage)
          \/ Return(r, stage, cache[c].token)
          \/ call' = [call EXCEPT ![r].stage = stage, ![r].old = cache[c]]
          \/ \E lock : call' = [call EXCEPT ![r].stage = stage, ![r].lock = lock]
    BY <1>3 DEF Fast, LockFor, Lock, Check, Read, Cached, Return
  <2> QED  BY <1>2, <2>1, <2>2, <2>3
<1>4. ASSUME NEW r \in Calls, Unlock(r) \/ Accepted(r) PROVE RefusedInv'
  <2>1. UNCHANGED <<cache, issued, dead>> /\ \E stage : Goto(r, stage)
    BY <1>4 DEF Unlock, Accepted, history
  <2>2. \A c, d \in call[r].cred : c = d  BY <1>4 DEF Unlock, Accepted, TypeOK
  <2> QED  BY <1>2, <2>1, <2>2
<1>5. CASE Tick \/ UNCHANGED vars
  BY <1>5 DEF Tick, vars, history, RefusedInv, TokensInv, RefusedTokenBackOnlyByFailure
<1>6. ASSUME NEW r \in Calls, NEW c \in Creds,
             ProbeFails(r, c) \/ ProbeIssuesNothing(r, c)
               \/ \E lifetime \in Lifetimes : ProbeIssues(r, c, lifetime)
      PROVE  RefusedInv'
  <2>1. At(r, "probe", c)  BY <1>6 DEF ProbeFails, ProbeIssuesNothing, ProbeIssues
  <2> QED  BY <1>6, <2>1, RenewalEnds
<1> QED  BY <1>1, <1>3, <1>4, <1>5, <1>6, RefusalDrops DEF Next, Step, Use

\* A refused token comes back only by the way of a failed renewal.
THEOREM RefusedStaysOut == Spec => []RefusedTokenBackOnlyByFailure
<1>1. Inv => TypeOK  BY DEF Inv
<1> QED  BY <1>1, Invariance, RefusedStart, RefusedStep, PTL DEF Spec, RefusedInv
=============================================================================
