------------------------------- MODULE KeyPool -------------------------------
(***************************************************************************)
(* The pool of upstream keys (upstream/pool.go): the table upstream_keys,  *)
(* its image in memory, the model list's fetches that pick a key and       *)
(* report how the call went, and the handlers and quota checks that write  *)
(* the table and then rebuild the image.                                   *)
(*                                                                         *)
(* A fetch holds modelsMu from Pick to the end of ReportResult, so there   *)
(* is one fetch at a time; it is the only caller of the two.  A job is a   *)
(* goroutine that writes the table and then calls Reload:                  *)
(*                                                                         *)
(*   fetch:  idle -> call -> store -> idle                                 *)
(*   job:    idle (-> ask | -> import ...) -> list -> revive ... -> idle   *)
(***************************************************************************)
EXTENDS ErrorClass, FiniteSets

CONSTANTS
  Keys,     \* ids of keys; AUTOINCREMENT, so an id is never used again
  Initial,  \* the keys present, all active, when the server starts
  Jobs,     \* goroutines of the administrator and of the quota refresh
  Replies,  \* what the gateway may answer; status 0: no reply at all
  Day,      \* ticks of a Beijing day
  Short,    \* ticks of the cool-down of a rate limit (90 s)
  Wrap,     \* the round-robin counter is kept modulo this
  MaxTime,  \* bound: ticks
  MaxEdits  \* bound: jobs started

ASSUME PoolAssumption ==
  /\ Keys \subseteq Nat
  /\ IsFiniteSet(Keys)
  /\ Initial \subseteq Keys
  /\ Replies \subseteq Reply
  /\ Day \in Nat \ {0}
  /\ Short \in Nat \ {0}
  /\ Wrap \in Nat \ {0}
  /\ \A n \in 1..Cardinality(Keys) : Wrap % n = 0
  /\ MaxTime \in Nat
  /\ MaxEdits \in Nat

VARIABLES
  table,   \* [Keys -> Row]: upstream_keys
  issued,  \* the ids given out so far
  pool,    \* [Keys -> Row]: the image in memory
  rr,      \* the round-robin counter
  now,     \* the clock
  fetch,   \* the one fetch of the model list
  job,     \* [Jobs -> Job]
  edits,   \* jobs started so far
  excused, \* history: SUBSET Keys: a write of theirs was lost or overtaken
  passed   \* history: [Keys -> Nat]: picks since this key's, pool unchanged

vars == <<table, issued, pool, rr, now, fetch, job, edits, excused, passed>>

-----------------------------------------------------------------------------
Status == {"active", "cooldown", "disabled"}

\* "here" is false when there is no such row.  until is the end of a
\* cool-down; every statement that leaves the status "cooldown" resets it.
Row == {row \in [here : BOOLEAN, status : Status, until : Nat] :
          row.until > 0 <=> row.status = "cooldown"}

Absent   == [here |-> FALSE, status |-> "active", until |-> 0]
Active   == [here |-> TRUE, status |-> "active", until |-> 0]
Disabled == [here |-> TRUE, status |-> "disabled", until |-> 0]
Cooling(t) == [here |-> TRUE, status |-> "cooldown", until |-> t]

Fetch == [stage : {"idle", "call", "store"}, key : SUBSET Keys, row : Row]
NoFetch == [stage |-> "idle", key |-> {}, row |-> Absent]

Job == [stage : {"idle", "ask", "import", "list", "revive"}, key : SUBSET Keys,
        image : [Keys -> Row], todo : SUBSET Keys, missed : SUBSET Keys]
NoJob == [stage |-> "idle", key |-> {}, image |-> [k \in Keys |-> Absent],
          todo |-> {}, missed |-> {}]

Nobody == [k \in Keys |-> 0]

\* The rows whose cool-down is over, and what Reload makes of a row.
Expired(row) ==
  row.here /\ row.status = "cooldown" /\ row.until > 0 /\ row.until < now
Image(row) == IF Expired(row) THEN Active ELSE row

NextBeijingMidnight(t) == (t \div Day + 1) * Day

Init ==
  /\ table = [k \in Keys |-> IF k \in Initial THEN Active ELSE Absent]
  /\ issued = Initial
  /\ pool = table
  /\ rr = 0
  /\ now = 0
  /\ fetch = NoFetch
  /\ job = [j \in Jobs |-> NoJob]
  /\ edits = 0
  /\ excused = {}
  /\ passed = Nobody

-----------------------------------------------------------------------------
(* Helpers.                                                                *)

Loaded == {k \in Keys : pool[k].here}

\* Pick wants the status "active"; the end of a cool-down is looked at too.
Pickable == {k \in Loaded : pool[k].status = "active" /\ pool[k].until <= now}

\* The distance of a key from where the round of this pick starts.
Position(k) == Cardinality({i \in Loaded : i < k})
Distance(k) == (Position(k) - (rr + 1)) % Cardinality(Loaded)

\* UPDATE ... WHERE id=? does nothing when the row is gone.
Write(k, row) ==
  table' = IF table[k].here THEN [table EXCEPT ![k] = row] ELSE table

\* A key is written: the jobs that have listed the table, but for those given,
\* have missed it.
Disturb(jobs, k) ==
  [i \in Jobs |-> IF i \notin jobs /\ job[i].stage = "revive"
                  THEN [job[i] EXCEPT !.missed = @ \cup {k}] ELSE job[i]]

-----------------------------------------------------------------------------
(* The fetch of the model list: Pick, the call, ReportResult.              *)

\* Faulty: the round starts at the first key every time.
FaultyPick(k) ==
  /\ fetch.stage = "idle"
  /\ k \in Pickable
  /\ \A i \in Pickable : Position(k) <= Position(i)
  /\ rr' = (rr + 1) % Wrap
  /\ fetch' = [NoFetch EXCEPT !.stage = "call", !.key = {k}]
  /\ passed' = [i \in Keys |-> IF i \in Pickable \ {k} THEN passed[i] + 1 ELSE 0]
  /\ UNCHANGED <<table, issued, pool, now, job, edits, excused>>

Pick(k) ==
  /\ fetch.stage = "idle"
  /\ k \in Pickable
  /\ \A i \in Pickable : Distance(k) <= Distance(i)
  /\ rr' = (rr + 1) % Wrap
  /\ fetch' = [NoFetch EXCEPT !.stage = "call", !.key = {k}]
  /\ passed' = [i \in Keys |-> IF i \in Pickable \ {k} THEN passed[i] + 1 ELSE 0]
  /\ UNCHANGED <<table, issued, pool, now, job, edits, excused>>

\* ErrNoKey; the counter has moved on unless the pool is empty.
PickFails ==
  /\ fetch.stage = "idle"
  /\ Loaded # {} /\ Pickable = {}
  /\ rr' = (rr + 1) % Wrap
  /\ UNCHANGED <<table, issued, pool, now, fetch, job, edits, excused, passed>>

\* What ReportResult makes of a reply; a reply it does not mention and a call
\* without any reply change nothing.
Changes(rep) == rep.status \in {401, 402, 429} \cup 200..299
Reported(rep) ==
  CASE rep.status = 401                         -> Disabled
    [] rep.status = 402 \/ QuotaSignal(rep)     -> Cooling(NextBeijingMidnight(now))
    [] rep.status = 429 /\ ~QuotaSignal(rep)    -> Cooling(now + Short)
    [] OTHER                                    -> Active

\* ReportResult up to its Unlock: the key is looked up in the image of now.
\* A success of an active key writes nothing.
ReportResult(k, rep) ==
  LET row == Reported(rep) IN
  /\ fetch.stage = "call" /\ k \in fetch.key
  /\ IF Changes(rep) /\ k \in Loaded /\ ~(row = Active /\ pool[k] = Active)
     THEN /\ pool' = [pool EXCEPT ![k] = row]
          /\ passed' = Nobody
          /\ fetch' = [fetch EXCEPT !.stage = "store", !.row = row]
          /\ job' = Disturb({}, k)
     ELSE fetch' = NoFetch /\ UNCHANGED <<pool, passed, job>>
  /\ UNCHANGED <<table, issued, rr, now, edits, excused>>

\* ReportResult after its Unlock: the row is written, or not: the error is
\* ignored and the image keeps what the table was not told.
StoreResult(k) ==
  /\ fetch.stage = "store" /\ k \in fetch.key
  /\ \/ Write(k, fetch.row) /\ job' = Disturb({}, k) /\ UNCHANGED excused
     \/ excused' = excused \cup {k} /\ UNCHANGED <<table, job>>
  /\ fetch' = NoFetch
  /\ UNCHANGED <<issued, pool, rr, now, edits, passed>>

-----------------------------------------------------------------------------
(* The jobs: administrator, imports, quota checks.                         *)

Edit ==
  /\ edits < MaxEdits
  /\ edits' = edits + 1
  /\ UNCHANGED <<pool, rr, now, fetch, excused, passed>>

\* A job that has no work in hand takes some.
Begin(j) == job[j].stage = "idle" /\ Edit

\* A job has written a key and goes on to Reload.
ThenReload(j, k) ==
  job' = [Disturb({}, k) EXCEPT ![j] = [NoJob EXCEPT !.stage = "list", !.key = {k}]]

\* handleSetUpstreamKeyStatus: "active" or "disabled".  Like DeleteKey it
\* answers a failed write with an error and leaves everything as it was.
SetStatus(j, k, row) ==
  /\ Begin(j)
  /\ Write(k, row)
  /\ ThenReload(j, k)
  /\ UNCHANGED issued

\* handleDeleteUpstreamKey.
DeleteKey(j, k) ==
  /\ Begin(j)
  /\ Write(k, Absent)
  /\ ThenReload(j, k)
  /\ UNCHANGED issued

\* handleImportUpstreamKeys and the imports after an authorisation: one
\* statement for each new key, then one Reload.  A known key changes nothing.
ImportKey(j, k) ==
  /\ job[j].stage \in {"idle", "import"}
  /\ Edit
  /\ k \notin issued
  /\ table' = [table EXCEPT ![k] = Active]
  /\ issued' = issued \cup {k}
  /\ job' = [Disturb({}, k) EXCEPT ![j].stage = "import", ![j].key = @ \cup {k}]

\* checkQuotaFor: the row is read, then the gateway is asked.
StartCheck(j, k) ==
  /\ Begin(j)
  /\ table[k].here
  /\ job' = [job EXCEPT ![j] = [NoJob EXCEPT !.stage = "ask", !.key = {k}]]
  /\ UNCHANGED <<table, issued>>

\* Faulty: a refused key is disabled in the table alone.
FaultyCheckRefused(j, k) ==
  /\ job[j].stage = "ask" /\ k \in job[j].key
  /\ \E rep \in Replies : rep.status = 401
  /\ Write(k, Disabled)
  /\ job' = [Disturb({}, k) EXCEPT ![j] = NoJob]
  /\ UNCHANGED <<issued, pool, rr, now, fetch, edits, excused, passed>>

\* The gateway refuses the key: it is disabled, and Reload follows whether
\* the write succeeded or not.
CheckRefused(j, k) ==
  /\ job[j].stage = "ask" /\ k \in job[j].key
  /\ \E rep \in Replies : rep.status = 401
  /\ \/ Write(k, Disabled) /\ ThenReload(j, k)
     \/ job' = [job EXCEPT ![j].stage = "list"] /\ UNCHANGED table
  /\ UNCHANGED <<issued, pool, rr, now, fetch, edits, excused, passed>>

\* UpdateUpstreamQuota: the quota is known, a cooling key is active again.
CheckAnswered(j, k) ==
  /\ job[j].stage = "ask" /\ k \in job[j].key
  /\ Write(k, IF table[k].status = "cooldown" THEN Active ELSE table[k])
  /\ ThenReload(j, k)
  /\ UNCHANGED <<issued, pool, rr, now, fetch, edits, excused, passed>>

\* Any other failure of the check, the one to write the quota included,
\* changes nothing and does not Reload.
CheckFailed(j) ==
  /\ job[j].stage = "ask"
  /\ job' = [job EXCEPT ![j] = NoJob]
  /\ UNCHANGED <<table, issued, pool, rr, now, fetch, edits, excused, passed>>

-----------------------------------------------------------------------------
(* Reload: list, write the expired rows one by one, swap.                  *)

ListRows(j) ==
  /\ job[j].stage \in {"list", "import"}
  /\ job' = [job EXCEPT ![j] =
               [stage |-> "revive",
                key |-> job[j].key \cup {k \in Keys : Expired(table[k])},
                image |-> [k \in Keys |-> Image(table[k])],
                todo |-> {k \in Keys : Expired(table[k])},
                missed |-> IF fetch.stage = "store" THEN fetch.key ELSE {}]]
  /\ UNCHANGED <<table, issued, pool, rr, now, fetch, edits, excused, passed>>

\* There is no Reload after a write: the listing fails, which checks and
\* authorisations ignore, or an import meets an error after some of its keys.
NoReload(j) ==
  /\ job[j].stage \in {"list", "import"}
  /\ excused' = excused \cup job[j].key
  /\ job' = [job EXCEPT ![j] = NoJob]
  /\ UNCHANGED <<table, issued, pool, rr, now, fetch, edits, passed>>

\* SetUpstreamKeyStatus(id, "active") for the next expired row; the image is
\* revived also when the write fails.
Revive(j, k) ==
  /\ job[j].stage = "revive"
  /\ k \in job[j].todo
  /\ \A i \in job[j].todo : k <= i
  /\ \/ Write(k, Active) /\ job' = [Disturb({j}, k) EXCEPT ![j].todo = @ \ {k}]
     \/ /\ job' = [job EXCEPT ![j].todo = @ \ {k}, ![j].missed = @ \cup {k}]
        /\ UNCHANGED table
  /\ UNCHANGED <<issued, pool, rr, now, fetch, edits, excused, passed>>

Swap(j) ==
  /\ job[j].stage = "revive"
  /\ job[j].todo = {}
  /\ pool' = job[j].image
  /\ excused' = job[j].missed
  /\ passed' = Nobody
  /\ job' = [job EXCEPT ![j] = NoJob]
  /\ UNCHANGED <<table, issued, rr, now, fetch, edits>>

-----------------------------------------------------------------------------
Tick ==
  /\ now < MaxTime
  /\ now' = now + 1
  /\ UNCHANGED <<table, issued, pool, rr, fetch, job, edits, excused, passed>>

\* NewPool runs Reload before anything else does; writes of it may fail.
Restart ==
  /\ excused' \in SUBSET {k \in Keys : Expired(table[k])}
  /\ table' = [k \in Keys |-> IF k \in excused' THEN table[k] ELSE Image(table[k])]
  /\ pool' = [k \in Keys |-> Image(table[k])]
  /\ rr' = 0
  /\ fetch' = NoFetch
  /\ job' = [j \in Jobs |-> NoJob]
  /\ passed' = Nobody
  /\ UNCHANGED <<issued, now, edits>>

-----------------------------------------------------------------------------
FetchStep ==
  \/ PickFails
  \/ \E k \in Keys : Pick(k) \/ StoreResult(k)
  \/ \E k \in Keys, rep \in Replies : ReportResult(k, rep)

JobStep(j) ==
  \/ \E k \in Keys :
       \/ \E row \in {Active, Disabled} : SetStatus(j, k, row)
       \/ DeleteKey(j, k) \/ ImportKey(j, k) \/ StartCheck(j, k)
       \/ CheckRefused(j, k) \/ CheckAnswered(j, k) \/ Revive(j, k)
  \/ CheckFailed(j) \/ ListRows(j) \/ NoReload(j) \/ Swap(j)

Next == FetchStep \/ (\E j \in Jobs : JobStep(j)) \/ Tick \/ Restart

Spec == Init /\ [][Next]_vars
-----------------------------------------------------------------------------
(* Correctness.                                                            *)

\* Every variable stays in its range; in the table, in memory and in every
\* copy in between, a key has an end of cool-down exactly when it is cooling.
TypeOK ==
  /\ table \in [Keys -> Row]
  /\ issued \in SUBSET Keys
  /\ pool \in [Keys -> Row]
  /\ rr \in 0..(Wrap - 1)
  /\ now \in Nat
  /\ fetch \in Fetch
  /\ job \in [Jobs -> Job]
  /\ edits \in Nat
  /\ excused \in SUBSET Keys
  /\ passed \in [Keys -> Nat]

\* Somebody has written one of the two and not yet the other.
InHand(k) ==
  \/ fetch.stage = "store" /\ k \in fetch.key
  \/ \E j \in Jobs : job[j].stage \in {"import", "list", "revive"} /\ k \in job[j].key

\* "The memory image of the database rows" (pool.go:12), key by key: a key that
\* nobody is half-way through writing is the same in both, however many calls
\* were reported and rows edited since, or it was lost sight of in one of
\* exactly three ways: a write of its row failed and the error was ignored; its
\* row was written or imported and no Reload followed; it was written while the
\* last Reload, which holds no lock for that, was between its listing and its
\* swap.  The next Reload nobody disturbs ends all three.
OnlyExcusedKeysDiverge ==
  \A k \in Keys : pool[k] = table[k] \/ InHand(k) \/ k \in excused

\* The round robin is fair although disabled and cooling keys are stepped
\* over: a key that can be picked is picked within as many picks as there
\* are keys in the pool.
NoActiveKeyStarves == \A k \in Pickable : passed[k] < Cardinality(Loaded)
=============================================================================
