---------------------------- MODULE Attestation ----------------------------
(***************************************************************************)
(* The cache of client attestations (upstream/attestation.go): a token per *)
(* device credential, issued by the gateway's model list, renewed before   *)
(* it expires by one of the requests that need it, under a lock per        *)
(* credential.                                                             *)
(*                                                                         *)
(* A call of Token, and the chat request that uses what it returns:        *)
(*                                                                         *)
(*   idle -> fast -> lookup -> lock -> check -> read -> probe -> unlock    *)
(*              \--------------------------------------------> have -> done*)
(*                                                                         *)
(* Every arrow is one critical section of m.mu, one operation on the       *)
(* credential's lock, or the wait for the gateway.  The clock starts at 1; *)
(* 0 is the zero time.                                                     *)
(***************************************************************************)
EXTENDS Integers, FiniteSets

CONSTANTS
  Creds,      \* device credentials
  Calls,      \* calls of Token
  Lifetimes,  \* for how long the gateway issues a token; 0: already expired
  Skew,       \* a token is renewed this long before it expires (24 h)
  Cooldown,   \* no probe for this long after a failed one (30 s)
  Quiet,      \* no probe for this long after one that issued nothing (1 h)
  MaxTime     \* bound: the clock

ASSUME AttestationAssumption ==
  /\ IsFiniteSet(Calls)
  /\ Lifetimes \subseteq Nat
  /\ Skew \in Nat
  /\ Cooldown \in Nat \ {0}
  /\ Quiet \in Nat \ {0}
  /\ MaxTime \in Nat

VARIABLES
  cache,    \* [Creds -> Entry]
  keyMu,    \* [Creds -> Nat]: the number of the credential's lock, 0: none
  made,     \* [Creds -> Nat]: locks made so far
  issued,   \* [Creds -> Nat]: tokens issued so far
  now,      \* the clock
  call,     \* [Calls -> Call]
  swept,    \* history: credentials whose lock was dropped while in use
  forgot,   \* history: credentials whose last failure was dropped
  failedAt, \* history: [Creds -> Nat]: the last failed probe, 0: none
  dead      \* history: [Creds -> SUBSET Nat]: tokens the gateway refused

history == <<swept, forgot, failedAt, dead>>
vars == <<cache, keyMu, made, issued, now, call, history>>

-----------------------------------------------------------------------------
\* token 0 is the empty string.
Entry == [token : Nat, expires : Nat, notIssued : BOOLEAN, failed : Nat]
NoEntry == [token |-> 0, expires |-> 0, notIssued |-> FALSE, failed |-> 0]
Issued(token, t) == [NoEntry EXCEPT !.token = token, !.expires = t]
Unissued(t) == [NoEntry EXCEPT !.notIssued = TRUE, !.expires = t]

Stages == {"idle", "fast", "lookup", "lock", "check", "read", "probe",
           "unlock", "have", "done"}

Call == [stage : Stages, cred : SUBSET Creds, lock : Nat, old : Entry, token : Nat]
NoCall == [stage |-> "idle", cred |-> {}, lock |-> 0, old |-> NoEntry, token |-> 0]

Init ==
  /\ cache = [c \in Creds |-> NoEntry]
  /\ keyMu = [c \in Creds |-> 0]
  /\ made = [c \in Creds |-> 0]
  /\ issued = [c \in Creds |-> 0]
  /\ now = 1
  /\ call = [r \in Calls |-> NoCall]
  /\ swept = {}
  /\ forgot = {}
  /\ failedAt = [c \in Creds |-> 0]
  /\ dead = [c \in Creds |-> {}]

-----------------------------------------------------------------------------
(* Helpers.                                                                *)

Usable(entry) ==
  IF entry.notIssued THEN now < entry.expires
  ELSE entry.token # 0 /\ now + Skew < entry.expires

At(r, stage, c) == call[r].stage = stage /\ c \in call[r].cred
Goto(r, stage) == call' = [call EXCEPT ![r].stage = stage]
Return(r, stage, token) ==
  call' = [call EXCEPT ![r].stage = stage, ![r].token = token]

\* Calls that know the lock a credential has in keyMu now.
UsersOf(c) ==
  {r \in Calls : /\ c \in call[r].cred /\ call[r].lock = keyMu[c]
                 /\ call[r].stage \in {"lock", "check", "read", "probe", "unlock"}}

Holds(r, c, lock) ==
  /\ c \in call[r].cred /\ call[r].lock = lock
  /\ call[r].stage \in {"check", "read", "probe", "unlock"}

\* cached: the token if it is usable, else go on.
Cached(r, c, hit, miss) ==
  IF Usable(cache[c]) THEN Return(r, hit, cache[c].token) ELSE Goto(r, miss)

-----------------------------------------------------------------------------
(* Token.                                                                  *)

Start(r, c) ==
  /\ call[r].stage = "idle"
  /\ call' = [call EXCEPT ![r] = [NoCall EXCEPT !.stage = "fast", !.cred = {c}]]
  /\ UNCHANGED <<cache, keyMu, made, issued, now, history>>

\* The fast path.
Fast(r, c) ==
  /\ At(r, "fast", c)
  /\ Cached(r, c, "have", "lookup")
  /\ UNCHANGED <<cache, keyMu, made, issued, now, history>>

\* Faulty: the lock that is made is not kept for the others.
FaultyLockFor(r, c) ==
  /\ At(r, "lookup", c)
  /\ made' = [made EXCEPT ![c] = @ + 1]
  /\ call' = [call EXCEPT ![r].stage = "lock", ![r].lock = made'[c]]
  /\ UNCHANGED <<cache, keyMu, issued, now, history>>

\* lockFor: the credential's lock, made when there is none.
LockFor(r, c) ==
  /\ At(r, "lookup", c)
  /\ IF keyMu[c] = 0
     THEN /\ made' = [made EXCEPT ![c] = @ + 1]
          /\ keyMu' = [keyMu EXCEPT ![c] = made[c] + 1]
     ELSE UNCHANGED <<made, keyMu>>
  /\ call' = [call EXCEPT ![r].stage = "lock", ![r].lock = keyMu'[c]]
  /\ UNCHANGED <<cache, issued, now, history>>

Lock(r, c) ==
  /\ At(r, "lock", c)
  /\ \A q \in Calls : ~Holds(q, c, call[r].lock)
  /\ Goto(r, "check")
  /\ UNCHANGED <<cache, keyMu, made, issued, now, history>>

\* Faulty: the cache is not looked at again under the lock.
FaultyCheck(r, c) ==
  /\ At(r, "check", c)
  /\ Goto(r, "read")
  /\ UNCHANGED <<cache, keyMu, made, issued, now, history>>

\* The second look under the lock.
Check(r, c) ==
  /\ At(r, "check", c)
  /\ Cached(r, c, "unlock", "read")
  /\ UNCHANGED <<cache, keyMu, made, issued, now, history>>

\* The old entry is read; within the cool-down of a failure its token, good
\* or not, is what the call returns.
Read(r, c) ==
  LET old == cache[c] IN
  /\ At(r, "read", c)
  /\ IF old.failed # 0 /\ now - old.failed < Cooldown
     THEN Return(r, "unlock", old.token)
     ELSE call' = [call EXCEPT ![r].stage = "probe", ![r].old = old]
  /\ UNCHANGED <<cache, keyMu, made, issued, now, history>>

\* Faulty: a failure is not remembered.
FaultyProbeFails(r, c) ==
  /\ At(r, "probe", c)
  /\ failedAt' = [failedAt EXCEPT ![c] = now]
  /\ forgot' = forgot \ {c}
  /\ Return(r, "unlock", call[r].old.token)
  /\ UNCHANGED <<cache, keyMu, made, issued, now, swept, dead>>

\* No list within 4 s, an error, or the client has gone: recordFailure
\* writes the old entry back with the time of the failure.
ProbeFails(r, c) ==
  /\ At(r, "probe", c)
  /\ cache' = [cache EXCEPT ![c] = [call[r].old EXCEPT !.failed = now]]
  /\ failedAt' = [failedAt EXCEPT ![c] = now]
  /\ forgot' = forgot \ {c}
  /\ Return(r, "unlock", call[r].old.token)
  /\ UNCHANGED <<keyMu, made, issued, now, swept, dead>>

\* put: the entry is stored, and every credential whose entry has expired
\* loses its entry and its lock.  An entry that holds nothing but a failure
\* has the zero time and counts as expired.
Put(c, entry) ==
  LET filled == [cache EXCEPT ![c] = entry]
      gone   == {i \in Creds : filled[i] # NoEntry /\ now > filled[i].expires}
  IN
  /\ cache' = [i \in Creds |-> IF i \in gone THEN NoEntry ELSE filled[i]]
  /\ keyMu' = [i \in Creds |-> IF i \in gone THEN 0 ELSE keyMu[i]]
  /\ failedAt' = [failedAt EXCEPT ![c] = 0]
  /\ swept' = swept \cup {i \in gone : UsersOf(i) # {}}
  /\ forgot' = forgot \cup gone

\* The list carries a token, or none (an old gateway).
ProbeIssues(r, c, lifetime) ==
  /\ At(r, "probe", c)
  /\ issued' = [issued EXCEPT ![c] = @ + 1]
  /\ Put(c, Issued(issued[c] + 1, now + lifetime))
  /\ Return(r, "unlock", issued[c] + 1)
  /\ UNCHANGED <<made, now, dead>>

ProbeIssuesNothing(r, c) ==
  /\ At(r, "probe", c)
  /\ Put(c, Unissued(now + Quiet))
  /\ Return(r, "unlock", 0)
  /\ UNCHANGED <<made, issued, now, dead>>

\* Faulty: the lock is kept when there is no token to return.
FaultyUnlock(r) ==
  /\ call[r].stage = "unlock"
  /\ call[r].token # 0
  /\ Goto(r, "have")
  /\ UNCHANGED <<cache, keyMu, made, issued, now, history>>

Unlock(r) ==
  /\ call[r].stage = "unlock"
  /\ Goto(r, "have")
  /\ UNCHANGED <<cache, keyMu, made, issued, now, history>>

-----------------------------------------------------------------------------
(* What the chat request does with the token.                              *)

\* Faulty: the entry stays, and only its time is up.
FaultyInvalidate(r, c) ==
  /\ At(r, "have", c)
  /\ cache' = [cache EXCEPT ![c].expires = 0]
  /\ forgot' = forgot \cup {c}
  /\ dead' = [dead EXCEPT ![c] = @ \cup ({call[r].token} \ {0})]
  /\ Goto(r, "done")
  /\ UNCHANGED <<keyMu, made, issued, now, swept, failedAt>>

\* Invalidate: the gateway answered 401 or 403.
Invalidate(r, c) ==
  /\ At(r, "have", c)
  /\ cache' = [cache EXCEPT ![c] = NoEntry]
  /\ forgot' = forgot \cup {c}
  /\ dead' = [dead EXCEPT ![c] = @ \cup ({call[r].token} \ {0})]
  /\ Goto(r, "done")
  /\ UNCHANGED <<keyMu, made, issued, now, swept, failedAt>>

Accepted(r) ==
  /\ call[r].stage = "have"
  /\ Goto(r, "done")
  /\ UNCHANGED <<cache, keyMu, made, issued, now, history>>

Tick ==
  /\ now < MaxTime
  /\ now' = now + 1
  /\ UNCHANGED <<cache, keyMu, made, issued, call, history>>

-----------------------------------------------------------------------------
\* The steps of a call that has started.
Step(r) ==
  \/ \E c \in Creds :
       \/ Fast(r, c) \/ LockFor(r, c) \/ Lock(r, c) \/ Check(r, c) \/ Read(r, c)
       \/ ProbeFails(r, c) \/ ProbeIssuesNothing(r, c)
       \/ \E lifetime \in Lifetimes : ProbeIssues(r, c, lifetime)
  \/ Unlock(r)

Use(r) == Accepted(r) \/ \E c \in Creds : Invalidate(r, c)

Next ==
  \/ \E r \in Calls : Step(r) \/ Use(r) \/ \E c \in Creds : Start(r, c)
  \/ Tick

Spec == Init /\ [][Next]_vars

\* A goroutine that can run does run, a probe ends within 4 s, and a lock
\* that is free goes to one of those who wait for it.
FairSpec == Spec /\ \A r \in Calls : WF_vars(Step(r))
-----------------------------------------------------------------------------
(* Correctness.                                                            *)

\* Every variable stays in its range; a call works for one credential.
TypeOK ==
  /\ cache \in [Creds -> Entry]
  /\ keyMu \in [Creds -> Nat]
  /\ made \in [Creds -> Nat]
  /\ \A c \in Creds : keyMu[c] <= made[c]
  /\ issued \in [Creds -> Nat]
  /\ now \in Nat \ {0}
  /\ call \in [Calls -> Call]
  /\ \A r \in Calls : call[r].stage # "idle" => \E c \in Creds : call[r].cred = {c}
  /\ swept \in SUBSET Creds
  /\ forgot \in SUBSET Creds
  /\ failedAt \in [Creds -> Nat]
  /\ dead \in [Creds -> SUBSET Nat]

Probing(c) == {r \in Calls : At(r, "probe", c)}

\* Two renewals of one credential are under way at a time only if the
\* renewal of another credential has dropped the lock in between: the lock
\* per credential, its lazy creation and the two looks at the cache leave no
\* other way (Token, lockFor, put).
SingleFlightUnlessSwept ==
  \A c \in Creds \ swept : \A q, r \in Probing(c) : q = r

\* A probe that begins is needed: nobody else has stored a usable entry
\* since the call looked, in whatever order the waiting calls get the lock
\* (the second look of Token).
ProbesAreNeeded ==
  [][\A c \in Creds \ swept : \A r \in Calls :
       (At(r, "read", c) /\ call'[r].stage = "probe") => ~Usable(cache[c])]_vars

Early(c) == failedAt[c] # 0 /\ now - failedAt[c] < Cooldown

\* After a failed probe no call of any request probes again within the
\* cool-down, as long as the entry that remembers the failure is there.
CooldownUnlessForgotten ==
  [][\A c \in Creds \ (swept \cup forgot) : \A r \in Calls :
       (At(r, "read", c) /\ call'[r].stage = "probe") => ~Early(c)]_vars

\* A token that the gateway has refused comes back into the cache in one way
\* only: a renewal that had read it before the refusal fails, and writes it
\* back (attestation.go:180 has it dropped until the next list).
RefusedTokenBackOnlyByFailure ==
  \A c \in Creds : cache[c].token \in dead[c] => cache[c].failed # 0

\* Token returns, whoever holds the lock and however the gateway behaves:
\* attestation never blocks a chat request.
EveryCallReturns ==
  \A r \in Calls : call[r].stage = "fast" ~> call[r].stage \in {"have", "done"}
=============================================================================
