--------------------------- MODULE KeyPoolProofs ---------------------------
(***************************************************************************)
(* Proofs about the key pool: its types, with the rule that a key has an   *)
(* end of cool-down exactly when it is cooling, the agreement of the       *)
(* memory image with the table, key by key, and the fairness of the round  *)
(* robin.                                                                  *)
(***************************************************************************)
EXTENDS KeyPool, FiniteSetTheorems, TLAPS

\* The rows the code writes are rows.
LEMMA RowsAreRows ==
  /\ Absent \in Row /\ Active \in Row /\ Disabled \in Row
  /\ \A t \in Nat \ {0} : Cooling(t) \in Row
BY DEF Row, Absent, Active, Disabled, Cooling, Status

\* Midnight is a time after the start of the clock.
LEMMA MidnightIsLater ==
  ASSUME NEW t \in Nat
  PROVE  NextBeijingMidnight(t) \in Nat \ {0}
<1>1. t \div Day \in Nat
  BY PoolAssumption
<1>2. \A d \in Nat : (d + 1) * Day \in Nat \ {0}
  BY PoolAssumption
<1> QED BY <1>1, <1>2 DEF NextBeijingMidnight

\* ReportResult writes one of these rows.
LEMMA ReportedIsRow ==
  ASSUME NEW rep \in Replies, now \in Nat
  PROVE  Reported(rep) \in Row
<1>1. Cooling(NextBeijingMidnight(now)) \in Row
  BY MidnightIsLater, RowsAreRows
<1>2. Cooling(now + Short) \in Row
  BY PoolAssumption, RowsAreRows
<1> QED BY <1>1, <1>2, RowsAreRows DEF Reported

LEMMA ImageIsRow ==
  ASSUME NEW row \in Row
  PROVE  Image(row) \in Row
BY RowsAreRows DEF Image

LEMMA WriteKeepsRows ==
  ASSUME table \in [Keys -> Row], NEW k \in Keys, NEW row \in Row, Write(k, row)
  PROVE  table' \in [Keys -> Row]
BY DEF Write

LEMMA NoJobIsJob == NoJob \in Job
BY RowsAreRows DEF NoJob, Job

LEMMA DisturbKeepsJobs ==
  ASSUME job \in [Jobs -> Job], NEW jobs, NEW k \in Keys
  PROVE  Disturb(jobs, k) \in [Jobs -> Job]
BY DEF Disturb, Job

LEMMA NobodyIsCount == Nobody \in [Keys -> Nat]
BY DEF Nobody

-----------------------------------------------------------------------------
LEMMA InitTypeOK == Init => TypeOK
BY PoolAssumption, RowsAreRows, NoJobIsJob, NobodyIsCount DEF Init, TypeOK, NoFetch, Fetch

LEMMA FetchKeepsTypes ==
  ASSUME TypeOK, FetchStep
  PROVE  TypeOK'
<1>0. (rr + 1) % Wrap \in 0..(Wrap - 1)
  BY PoolAssumption DEF TypeOK
<1>1. CASE PickFails
  BY <1>0, <1>1 DEF PickFails, TypeOK
<1>2. ASSUME NEW k \in Keys, Pick(k) PROVE TypeOK'
  <2>1. fetch' \in Fetch
    BY <1>2, RowsAreRows DEF Pick, NoFetch, Fetch
  <2>2. passed' \in [Keys -> Nat]
    BY <1>2 DEF Pick, TypeOK
  <2> QED BY <1>0, <1>2, <2>1, <2>2 DEF Pick, TypeOK
<1>3. ASSUME NEW k \in Keys, StoreResult(k) PROVE TypeOK'
  <2>1. fetch.row \in Row
    BY DEF TypeOK, Fetch
  <2>2. table' \in [Keys -> Row]
    BY <1>3, <2>1, WriteKeepsRows DEF StoreResult, TypeOK
  <2>3. job' \in [Jobs -> Job]
    BY <1>3, DisturbKeepsJobs DEF StoreResult, TypeOK
  <2> QED BY <1>3, <2>2, <2>3, RowsAreRows DEF StoreResult, TypeOK, NoFetch, Fetch
<1>4. ASSUME NEW k \in Keys, NEW rep \in Replies, ReportResult(k, rep) PROVE TypeOK'
  <2>1. Reported(rep) \in Row
    BY ReportedIsRow DEF TypeOK
  <2>2. pool' \in [Keys -> Row]
    BY <1>4, <2>1 DEF ReportResult, TypeOK
  <2>4. passed' \in [Keys -> Nat]
    BY <1>4, NobodyIsCount DEF ReportResult, TypeOK
  <2>5. job' \in [Jobs -> Job]
    BY <1>4, DisturbKeepsJobs DEF ReportResult, TypeOK
  <2>6. NoFetch \in Fetch
    BY RowsAreRows DEF NoFetch, Fetch
  <2>7. [fetch EXCEPT !.stage = "store", !.row = Reported(rep)] \in Fetch
    BY <2>1 DEF TypeOK, Fetch
  <2>3. fetch' \in Fetch
    BY <1>4, <2>6, <2>7 DEF ReportResult
  <2> QED BY <1>4, <2>2, <2>3, <2>4, <2>5 DEF ReportResult, TypeOK
<1> QED BY <1>1, <1>2, <1>3, <1>4 DEF FetchStep

LEMMA ThenReloadKeepsJobs ==
  ASSUME TypeOK, NEW j \in Jobs, NEW k \in Keys, ThenReload(j, k)
  PROVE  job' \in [Jobs -> Job]
<1>1. [NoJob EXCEPT !.stage = "list", !.key = {k}] \in Job
  BY RowsAreRows DEF NoJob, Job
<1> QED BY <1>1, DisturbKeepsJobs DEF ThenReload, TypeOK

LEMMA JobsKeepTypes ==
  ASSUME TypeOK, NEW j \in Jobs, JobStep(j)
  PROVE  TypeOK'
<1>1. ASSUME NEW k \in Keys, NEW row \in {Active, Disabled}, SetStatus(j, k, row)
      PROVE  TypeOK'
  <2>1. table' \in [Keys -> Row]
    BY <1>1, RowsAreRows, WriteKeepsRows DEF SetStatus, TypeOK
  <2> QED BY <1>1, <2>1, ThenReloadKeepsJobs DEF SetStatus, Begin, Edit, TypeOK
<1>2. ASSUME NEW k \in Keys, DeleteKey(j, k) PROVE TypeOK'
  <2>1. table' \in [Keys -> Row]
    BY <1>2, RowsAreRows, WriteKeepsRows DEF DeleteKey, TypeOK
  <2> QED BY <1>2, <2>1, ThenReloadKeepsJobs DEF DeleteKey, Begin, Edit, TypeOK
<1>3. ASSUME NEW k \in Keys, ImportKey(j, k) PROVE TypeOK'
  <2>1. Disturb({}, k) \in [Jobs -> Job]
    BY DisturbKeepsJobs DEF TypeOK
  <2>2. job' \in [Jobs -> Job]
    BY <1>3, <2>1 DEF ImportKey, Job
  <2> QED BY <1>3, <2>2, RowsAreRows DEF ImportKey, Edit, TypeOK
<1>4. ASSUME NEW k \in Keys, StartCheck(j, k) PROVE TypeOK'
  <2>1. [NoJob EXCEPT !.stage = "ask", !.key = {k}] \in Job
    BY RowsAreRows DEF NoJob, Job
  <2> QED BY <1>4, <2>1 DEF StartCheck, Begin, Edit, TypeOK
<1>5. ASSUME NEW k \in Keys, CheckRefused(j, k) PROVE TypeOK'
  <2>1. table' \in [Keys -> Row]
    BY <1>5, RowsAreRows, WriteKeepsRows DEF CheckRefused, TypeOK
  <2>2. [job EXCEPT ![j].stage = "list"] \in [Jobs -> Job]
    BY DEF TypeOK, Job
  <2>3. job' \in [Jobs -> Job]
    BY <1>5, <2>2, ThenReloadKeepsJobs DEF CheckRefused
  <2> QED BY <1>5, <2>1, <2>3 DEF CheckRefused, TypeOK
<1>6. ASSUME NEW k \in Keys, CheckAnswered(j, k) PROVE TypeOK'
  <2>1. table' \in [Keys -> Row]
    BY <1>6, RowsAreRows, WriteKeepsRows DEF CheckAnswered, TypeOK
  <2> QED BY <1>6, <2>1, ThenReloadKeepsJobs DEF CheckAnswered, TypeOK
<1>7. ASSUME NEW k \in Keys, Revive(j, k) PROVE TypeOK'
  <2>1. table' \in [Keys -> Row]
    BY <1>7, RowsAreRows, WriteKeepsRows DEF Revive, TypeOK
  <2>2. Disturb({j}, k) \in [Jobs -> Job] /\ job \in [Jobs -> Job]
    BY DisturbKeepsJobs DEF TypeOK
  <2> DEFINE D == Disturb({j}, k)
  <2> HIDE DEF D
  <2>3. /\ [D[j] EXCEPT !.todo = @ \ {k}] \in Job
        /\ [job[j] EXCEPT !.todo = @ \ {k}, !.missed = @ \cup {k}] \in Job
    BY <2>2 DEF Job, D
  <2>4. \/ job' = [D EXCEPT ![j] = [D[j] EXCEPT !.todo = @ \ {k}]]
        \/ job' = [job EXCEPT ![j] = [job[j] EXCEPT !.todo = @ \ {k},
                                                    !.missed = @ \cup {k}]]
    BY <1>7, <2>2 DEF Revive, D
  <2>5. job' \in [Jobs -> Job]
    BY <2>2, <2>3, <2>4 DEF D
  <2> QED BY <1>7, <2>1, <2>5 DEF Revive, TypeOK
<1>8. CASE CheckFailed(j)
  BY <1>8, NoJobIsJob DEF CheckFailed, TypeOK
<1>9. CASE ListRows(j)
  <2>1. \A k \in Keys : Image(table[k]) \in Row
    BY ImageIsRow DEF TypeOK
  <2>2. fetch.key \in SUBSET Keys /\ job[j].key \in SUBSET Keys
    BY DEF TypeOK, Fetch, Job
  <2>3. job'[j] \in Job
    BY <1>9, <2>1, <2>2 DEF ListRows, TypeOK, Job
  <2>4. job' \in [Jobs -> Job]
    BY <1>9, <2>3 DEF ListRows, TypeOK
  <2> QED BY <1>9, <2>4 DEF ListRows, TypeOK
<1>10. CASE Swap(j)
  <2>1. job[j] \in Job
    BY DEF TypeOK
  <2>2. job[j].image \in [Keys -> Row] /\ job[j].missed \in SUBSET Keys
    BY <2>1 DEF Job
  <2> QED BY <1>10, <2>2, NoJobIsJob, NobodyIsCount DEF Swap, TypeOK
<1>11. CASE NoReload(j)
  <2>1. job[j].key \in SUBSET Keys
    BY DEF TypeOK, Job
  <2> QED BY <1>11, <2>1, NoJobIsJob DEF NoReload, TypeOK
<1> QED BY <1>1, <1>2, <1>3, <1>4, <1>5, <1>6, <1>7, <1>8, <1>9, <1>10, <1>11
        DEF JobStep

LEMMA NextKeepsTypes ==
  ASSUME TypeOK, [Next]_vars
  PROVE  TypeOK'
<1>1. CASE FetchStep
  BY <1>1, FetchKeepsTypes
<1>2. ASSUME NEW j \in Jobs, JobStep(j) PROVE TypeOK'
  BY <1>2, JobsKeepTypes
<1>3. CASE Tick
  BY <1>3 DEF Tick, TypeOK
<1>4. CASE Restart
  <2>1. \A k \in Keys : Image(table[k]) \in Row
    BY ImageIsRow DEF TypeOK
  <2>2. 0 \in 0..(Wrap - 1)
    BY PoolAssumption
  <2> QED BY <1>4, <2>1, <2>2, RowsAreRows, NoJobIsJob, NobodyIsCount
          DEF Restart, TypeOK, NoFetch, Fetch
<1>5. CASE UNCHANGED vars
  BY <1>5 DEF vars, TypeOK
<1> QED BY <1>1, <1>2, <1>3, <1>4, <1>5 DEF Next

\* The pool's types, for any number of keys and jobs: above all, whatever
\* the order of reports, edits and reloads, a key that is not cooling has no
\* end of cool-down left over (ReportResult, SetUpstreamKeyStatus,
\* UpdateUpstreamQuota and Reload each reset it).
THEOREM PoolTypeCorrect == Spec => []TypeOK
BY InitTypeOK, NextKeepsTypes, PTL DEF Spec

-----------------------------------------------------------------------------
(* The image and the table.                                                *)

\* A fetch works for one key.
OneKey == \A i, k \in fetch.key : i = k

\* What the table will say once the fetch has stored its result.
Pending(k) ==
  IF fetch.stage = "store" /\ k \in fetch.key /\ table[k].here
  THEN fetch.row ELSE table[k]

\* A job has written the key and not yet rebuilt the image.
Held(k) ==
  \E j \in Jobs : job[j].stage \in {"import", "list", "revive"} /\ k \in job[j].key

\* A key that no job holds and nothing excuses is in memory what its row is
\* or is about to be.
KeyMirrored(k) == k \in excused \/ Held(k) \/ pool[k] = Pending(k)

\* The key whose result the fetch is about to store.
Storing == IF fetch.stage = "store" THEN fetch.key ELSE {}

\* The image a job has read says of every key it has not missed what the
\* table will say once the job has written the expired rows that are left.
ImageTrue(j, k) ==
  \/ k \in job[j].missed
  \/ /\ k \notin Storing
     /\ IF k \in job[j].todo
        THEN table[k].here /\ job[j].image[k] = Active
        ELSE job[j].image[k] = table[k]

ReloadInv ==
  \A j \in Jobs : job[j].stage = "revive" =>
    /\ job[j].todo \subseteq job[j].key
    /\ \A k \in Keys : ImageTrue(j, k)

MirrorInv == OneKey /\ (\A k \in Keys : KeyMirrored(k)) /\ ReloadInv

LEMMA InitMirror == Init => MirrorInv
BY DEF Init, MirrorInv, OneKey, KeyMirrored, ReloadInv, Pending, NoFetch, NoJob

\* What the write of a key does to the jobs.
LEMMA DisturbedJobs ==
  ASSUME TypeOK, NEW jobs, NEW k \in Keys
  PROVE  \A j \in Jobs :
           /\ Disturb(jobs, k)[j].stage = job[j].stage
           /\ Disturb(jobs, k)[j].key = job[j].key
           /\ Disturb(jobs, k)[j].todo = job[j].todo
           /\ Disturb(jobs, k)[j].image = job[j].image
           /\ job[j].missed \subseteq Disturb(jobs, k)[j].missed
           /\ (j \notin jobs /\ job[j].stage = "revive") =>
                k \in Disturb(jobs, k)[j].missed
BY DEF Disturb, TypeOK, Job

\* A write of one key spoils no image: the jobs that do not know of it miss it.
LEMMA WriteKeepsImages ==
  ASSUME TypeOK, ReloadInv, NEW jobs, NEW k \in Keys,
         \A i \in Keys \ {k} : table'[i] = table[i],
         Storing' \subseteq Storing \cup {k},
         NEW j \in Jobs \ jobs, job'[j] = Disturb(jobs, k)[j],
         job'[j].stage = "revive"
  PROVE  /\ job'[j].todo \subseteq job'[j].key
         /\ \A i \in Keys : ImageTrue(j, i)'
<1>1. /\ job[j].stage = "revive" /\ job'[j].key = job[j].key
      /\ job'[j].todo = job[j].todo /\ job'[j].image = job[j].image
      /\ job[j].missed \subseteq job'[j].missed /\ k \in job'[j].missed
  BY DisturbedJobs
<1>2. job[j].todo \subseteq job[j].key /\ \A i \in Keys : ImageTrue(j, i)
  BY <1>1 DEF ReloadInv
<1>3. ImageTrue(j, k)'
  BY <1>1 DEF ImageTrue
<1>4. ASSUME NEW i \in Keys \ {k} PROVE ImageTrue(j, i)'
  <2>1. CASE i \in job[j].missed
    BY <1>1, <2>1 DEF ImageTrue
  <2>2. CASE i \notin job[j].missed
    <3>1. /\ i \notin Storing
          /\ IF i \in job[j].todo
             THEN table[i].here /\ job[j].image[i] = Active
             ELSE job[j].image[i] = table[i]
      BY <1>2, <2>2 DEF ImageTrue
    <3>2. table'[i] = table[i] /\ i \notin Storing'
      BY <3>1
    <3> QED BY <1>1, <3>1, <3>2 DEF ImageTrue
  <2> QED BY <2>1, <2>2
<1> QED BY <1>1, <1>2, <1>3, <1>4

\* Nobody writes: an image stays true.
LEMMA SameImages ==
  ASSUME ReloadInv, UNCHANGED table,
         Storing' \subseteq Storing,
         NEW j \in Jobs, job'[j] = job[j], job'[j].stage = "revive"
  PROVE  /\ job'[j].todo \subseteq job'[j].key
         /\ \A i \in Keys : ImageTrue(j, i)'
BY DEF ReloadInv, ImageTrue

LEMMA FetchKeepsMirror ==
  ASSUME TypeOK, MirrorInv, FetchStep
  PROVE  MirrorInv'
<1>1. CASE PickFails
  BY <1>1 DEF PickFails, MirrorInv, OneKey, KeyMirrored, Held, ReloadInv, ImageTrue, Storing,
              Pending
<1>2. ASSUME NEW k \in Keys, Pick(k) PROVE MirrorInv'
  BY <1>2 DEF Pick, NoFetch, MirrorInv, OneKey, KeyMirrored, Held, ReloadInv,
              ImageTrue, Storing, Pending
<1>3. ASSUME NEW k \in Keys, StoreResult(k) PROVE MirrorInv'
  <2>1. /\ fetch.stage = "store" /\ fetch.key = {k} /\ UNCHANGED pool
        /\ fetch'.stage = "idle" /\ fetch'.key = {}
    BY <1>3 DEF StoreResult, MirrorInv, OneKey, NoFetch
  <2>2. CASE Write(k, fetch.row) /\ job' = Disturb({}, k) /\ UNCHANGED excused
    <3>1. \A i \in Keys : table'[i] = Pending(i)
      BY <2>1, <2>2 DEF Write, Pending, TypeOK
    <3>2. \A i \in Keys : Held(i)' <=> Held(i)
      BY <2>2, DisturbedJobs DEF Held
    <3>3. \A i \in Keys : KeyMirrored(i)'
      BY <2>1, <2>2, <3>1, <3>2 DEF MirrorInv, KeyMirrored, Pending
    <3>4. \A i \in Keys \ {k} : table'[i] = table[i]
      BY <2>1, <3>1 DEF Pending
    <3>5. ReloadInv'
      <4> SUFFICES ASSUME NEW j \in Jobs, job'[j].stage = "revive"
                   PROVE  /\ job'[j].todo \subseteq job'[j].key
                          /\ \A i \in Keys : ImageTrue(j, i)'
        BY DEF ReloadInv
      <4>1. j \in Jobs \ {} /\ job'[j] = Disturb({}, k)[j]
        BY <2>2
      <4> QED BY <2>1, <3>4, <4>1, WriteKeepsImages DEF MirrorInv, Storing
    <3> QED BY <2>1, <3>3, <3>5 DEF MirrorInv, OneKey
  <2>3. CASE excused' = excused \cup {k} /\ UNCHANGED <<table, job>>
    <3>1. \A i \in Keys : KeyMirrored(i)'
      BY <2>1, <2>3 DEF MirrorInv, KeyMirrored, Held, Pending
    <3>2. ReloadInv'
      BY <2>1, <2>3, SameImages DEF MirrorInv, ReloadInv, Storing
    <3> QED BY <2>1, <3>1, <3>2 DEF MirrorInv, OneKey
  <2> QED BY <1>3, <2>2, <2>3 DEF StoreResult
<1>4. ASSUME NEW k \in Keys, NEW rep \in Replies, ReportResult(k, rep)
      PROVE  MirrorInv'
  <2>1. /\ fetch.key = {k} /\ fetch.stage = "call"
        /\ UNCHANGED <<table, excused>>
    BY <1>4 DEF ReportResult, MirrorInv, OneKey
  <2>2. CASE fetch' = NoFetch /\ UNCHANGED <<pool, passed, job>>
    BY <1>4, <2>1, <2>2 DEF NoFetch, MirrorInv, OneKey, KeyMirrored, Held, ReloadInv,
                            ImageTrue, Storing, Pending
  <2>3. CASE /\ k \in Loaded
             /\ pool' = [pool EXCEPT ![k] = Reported(rep)]
             /\ fetch' = [fetch EXCEPT !.stage = "store", !.row = Reported(rep)]
             /\ job' = Disturb({}, k)
    <3>1. /\ fetch'.stage = "store" /\ fetch'.key = {k}
          /\ fetch'.row = Reported(rep)
      BY <2>1, <2>3 DEF TypeOK, Fetch
    <3>2. \A i \in Keys : Held(i)' <=> Held(i)
      BY <2>3, DisturbedJobs DEF Held
    <3>3. \A i \in Keys : KeyMirrored(i)'
      <4> SUFFICES ASSUME NEW i \in Keys, i \notin excused, ~Held(i)
                   PROVE  pool'[i] = Pending(i)'
        BY <2>1, <3>2 DEF KeyMirrored
      <4>1. pool[i] = table[i]
        BY <2>1 DEF MirrorInv, KeyMirrored, Pending
      <4>2. CASE i = k
        <5>1. table'[i].here
          BY <2>1, <2>3, <4>1, <4>2 DEF Loaded
        <5> QED BY <2>3, <3>1, <4>2, <5>1 DEF Pending, TypeOK
      <4>3. CASE i # k
        BY <2>1, <2>3, <3>1, <4>1, <4>3 DEF Pending, TypeOK
      <4> QED BY <4>2, <4>3
    <3>4. ReloadInv'
      <4> SUFFICES ASSUME NEW j \in Jobs, job'[j].stage = "revive"
                   PROVE  /\ job'[j].todo \subseteq job'[j].key
                          /\ \A i \in Keys : ImageTrue(j, i)'
        BY DEF ReloadInv
      <4>1. j \in Jobs \ {} /\ job'[j] = Disturb({}, k)[j]
        BY <2>3
      <4> QED BY <2>1, <3>1, <4>1, WriteKeepsImages DEF MirrorInv, Storing
    <3> QED BY <3>1, <3>3, <3>4 DEF MirrorInv, OneKey
  <2> QED BY <1>4, <2>2, <2>3 DEF ReportResult
<1> QED BY <1>1, <1>2, <1>3, <1>4 DEF FetchStep

\* A job that has written a key holds it until its Reload.
LEMMA HoldingMirror ==
  ASSUME TypeOK, MirrorInv, NEW j \in Jobs, NEW k \in Keys, NEW row \in Row,
         Write(k, row) \/ table' = [table EXCEPT ![k] = row],
         job'[j].stage \in {"import", "list"},
         job[j].stage \in {"import", "list", "revive"} => job[j].key \subseteq job'[j].key,
         k \in job'[j].key,
         \A i \in Jobs \ {j} : job'[i] = Disturb({}, k)[i],
         UNCHANGED <<fetch, pool, excused>>
  PROVE  MirrorInv'
<1>1. \A i \in Keys \ {k} : table'[i] = table[i]
  BY DEF Write, TypeOK
<1>2. \A i \in Keys : Held(i) => Held(i)'
  <2> SUFFICES ASSUME NEW i \in Keys, NEW h \in Jobs, i \in job[h].key,
                      job[h].stage \in {"import", "list", "revive"}
               PROVE  Held(i)'
    BY DEF Held
  <2>1. CASE h = j
    BY <2>1 DEF Held
  <2>2. CASE h # j
    BY <2>2, DisturbedJobs DEF Held
  <2> QED BY <2>1, <2>2
<1>3. Held(k)'
  BY DEF Held
<1>4. \A i \in Keys : KeyMirrored(i)'
  BY <1>1, <1>2, <1>3 DEF MirrorInv, KeyMirrored, Pending
<1>5. ReloadInv'
  <2> SUFFICES ASSUME NEW i \in Jobs, job'[i].stage = "revive"
               PROVE  /\ job'[i].todo \subseteq job'[i].key
                      /\ \A h \in Keys : ImageTrue(i, h)'
    BY DEF ReloadInv
  <2>1. i # j
    OBVIOUS
  <2>2. i \in Jobs \ {} /\ job'[i] = Disturb({}, k)[i]
    BY <2>1
  <2> QED BY <1>1, <2>2, WriteKeepsImages DEF MirrorInv, Storing
<1> QED BY <1>4, <1>5 DEF MirrorInv, OneKey

LEMMA ThenReloadMirror ==
  ASSUME TypeOK, MirrorInv, NEW j \in Jobs, NEW k \in Keys, NEW row \in Row,
         job[j].stage \in {"idle", "ask"},
         Write(k, row), ThenReload(j, k), UNCHANGED <<fetch, pool, excused>>
  PROVE  MirrorInv'
<1>1. Disturb({}, k) \in [Jobs -> Job]
  BY DisturbKeepsJobs DEF TypeOK
<1>2. /\ job'[j].stage = "list" /\ job'[j].key = {k}
      /\ \A i \in Jobs \ {j} : job'[i] = Disturb({}, k)[i]
  BY <1>1 DEF ThenReload, NoJob
<1> QED BY <1>2, HoldingMirror

\* A step of a job that writes no row and lets go of no key.
LEMMA QuietMirror ==
  ASSUME TypeOK, MirrorInv, NEW j \in Jobs, NEW next \in Job,
         job' = [job EXCEPT ![j] = next], next.stage # "revive",
         job[j].stage \in {"idle", "ask"},
         UNCHANGED <<table, fetch, pool, excused>>
  PROVE  MirrorInv'
<1>1. /\ job'[j] = next
      /\ \A i \in Jobs \ {j} : job'[i] = job[i]
  BY DEF TypeOK
<1>2. \A i \in Keys : Held(i) => Held(i)'
  BY <1>1 DEF Held
<1>3. \A i \in Keys : KeyMirrored(i)'
  BY <1>2 DEF MirrorInv, KeyMirrored, Pending
<1>4. ReloadInv'
  BY <1>1, SameImages DEF MirrorInv, ReloadInv, Storing
<1> QED BY <1>3, <1>4 DEF MirrorInv, OneKey

LEMMA JobsKeepMirror ==
  ASSUME TypeOK, MirrorInv, NEW j \in Jobs, JobStep(j)
  PROVE  MirrorInv'
<1>1. ASSUME NEW k \in Keys, NEW row \in {Active, Disabled}, SetStatus(j, k, row)
      PROVE  MirrorInv'
  BY <1>1, RowsAreRows, ThenReloadMirror DEF SetStatus, Begin, Edit
<1>2. ASSUME NEW k \in Keys, DeleteKey(j, k) PROVE MirrorInv'
  BY <1>2, RowsAreRows, ThenReloadMirror DEF DeleteKey, Begin, Edit
<1>3. ASSUME NEW k \in Keys, ImportKey(j, k) PROVE MirrorInv'
  <2>1. Disturb({}, k) \in [Jobs -> Job]
    BY DisturbKeepsJobs DEF TypeOK
  <2>2. Disturb({}, k)[j].key = job[j].key
    BY DisturbedJobs
  <2>3. /\ job'[j].stage = "import" /\ job'[j].key = job[j].key \cup {k}
        /\ \A i \in Jobs \ {j} : job'[i] = Disturb({}, k)[i]
    BY <1>3, <2>1, <2>2 DEF ImportKey, Job
  <2> QED BY <1>3, <2>3, RowsAreRows, HoldingMirror DEF ImportKey, Edit
<1>4. ASSUME NEW k \in Keys, StartCheck(j, k) PROVE MirrorInv'
  <2>1. [NoJob EXCEPT !.stage = "ask", !.key = {k}] \in Job
    BY RowsAreRows DEF NoJob, Job
  <2> QED BY <1>4, <2>1, QuietMirror DEF StartCheck, Begin, Edit, NoJob
<1>5. ASSUME NEW k \in Keys, CheckRefused(j, k) PROVE MirrorInv'
  <2>1. CASE Write(k, Disabled) /\ ThenReload(j, k)
    BY <1>5, <2>1, RowsAreRows, ThenReloadMirror DEF CheckRefused
  <2>2. CASE job' = [job EXCEPT ![j].stage = "list"] /\ UNCHANGED table
    <3> DEFINE next == [job[j] EXCEPT !.stage = "list"]
    <3>1. next \in Job /\ next.stage = "list"
      BY DEF TypeOK, Job
    <3>2. job' = [job EXCEPT ![j] = next]
      BY <2>2 DEF TypeOK
    <3>3. job[j].stage = "ask" /\ UNCHANGED <<table, fetch, pool, excused>>
      BY <1>5, <2>2 DEF CheckRefused
    <3> HIDE DEF next
    <3> QED BY <3>1, <3>2, <3>3, QuietMirror
  <2> QED BY <1>5, <2>1, <2>2 DEF CheckRefused
<1>6. ASSUME NEW k \in Keys, CheckAnswered(j, k) PROVE MirrorInv'
  <2>1. (IF table[k].status = "cooldown" THEN Active ELSE table[k]) \in Row
    BY RowsAreRows DEF TypeOK
  <2> QED BY <1>6, <2>1, ThenReloadMirror DEF CheckAnswered
<1>7. ASSUME NEW k \in Keys, Revive(j, k) PROVE MirrorInv'
  <2>0. /\ job[j].stage = "revive" /\ k \in job[j].todo
        /\ UNCHANGED <<fetch, pool, excused>>
        /\ job[j].todo \subseteq job[j].key
        /\ \A i \in Keys : ImageTrue(j, i)
    BY <1>7 DEF Revive, MirrorInv, ReloadInv
  <2>1. CASE Write(k, Active) /\ job' = [Disturb({j}, k) EXCEPT ![j].todo = @ \ {k}]
    <3>1. Disturb({j}, k)[j] = job[j] /\ Disturb({j}, k) \in [Jobs -> Job]
      BY DisturbKeepsJobs DEF Disturb, TypeOK
    <3>2. /\ job'[j].stage = "revive" /\ job'[j].key = job[j].key
          /\ job'[j].todo = job[j].todo \ {k} /\ job'[j].image = job[j].image
          /\ job'[j].missed = job[j].missed
          /\ \A i \in Jobs \ {j} : job'[i] = Disturb({j}, k)[i]
      BY <2>0, <2>1, <3>1 DEF Job, TypeOK
    <3>3. \A i \in Keys \ {k} : table'[i] = table[i]
      BY <2>1 DEF Write, TypeOK
    <3>4. \A i \in Keys : Held(i) <=> Held(i)'
      BY <2>0, <3>2, DisturbedJobs DEF Held
    <3>5. Held(k)'
      BY <2>0, <3>2 DEF Held
    <3>6. \A i \in Keys : KeyMirrored(i)'
      BY <2>0, <3>3, <3>4, <3>5 DEF MirrorInv, KeyMirrored, Pending
    <3>7. \A i \in Keys : ImageTrue(j, i)'
      <4>1. k \in job[j].missed \/ (table[k].here /\ table'[k] = Active)
        BY <2>0, <2>1 DEF ImageTrue, Storing, Write, TypeOK
      <4>2. ImageTrue(j, k)'
        BY <2>0, <3>2, <4>1 DEF ImageTrue, Storing
      <4>3. ASSUME NEW i \in Keys \ {k} PROVE ImageTrue(j, i)'
        BY <2>0, <3>2, <3>3 DEF ImageTrue, Storing
      <4> QED BY <4>2, <4>3
    <3>8. ReloadInv'
      <4> SUFFICES ASSUME NEW i \in Jobs, job'[i].stage = "revive"
                   PROVE  /\ job'[i].todo \subseteq job'[i].key
                          /\ \A h \in Keys : ImageTrue(i, h)'
        BY DEF ReloadInv
      <4>1. CASE i = j
        BY <2>0, <3>2, <3>7, <4>1
      <4>2. CASE i # j
        <5>1. i \in Jobs \ {j} /\ job'[i] = Disturb({j}, k)[i]
          BY <3>2, <4>2
        <5> QED BY <2>0, <3>3, <5>1, WriteKeepsImages DEF MirrorInv, Storing
      <4> QED BY <4>1, <4>2
    <3> QED BY <2>0, <3>6, <3>8 DEF MirrorInv, OneKey
  <2>2. CASE /\ job' = [job EXCEPT ![j].todo = @ \ {k}, ![j].missed = @ \cup {k}]
             /\ UNCHANGED table
    <3>1. /\ job'[j].stage = "revive" /\ job'[j].key = job[j].key
          /\ job'[j].todo = job[j].todo \ {k} /\ job'[j].image = job[j].image
          /\ job'[j].missed = job[j].missed \cup {k}
          /\ \A i \in Jobs \ {j} : job'[i] = job[i]
      BY <2>0, <2>2 DEF Job, TypeOK
    <3>2. \A i \in Keys : Held(i) <=> Held(i)'
      BY <2>0, <3>1 DEF Held
    <3>3. \A i \in Keys : KeyMirrored(i)'
      BY <2>0, <2>2, <3>2 DEF MirrorInv, KeyMirrored, Pending
    <3>4. \A i \in Keys : ImageTrue(j, i)'
      BY <2>0, <2>2, <3>1 DEF ImageTrue, Storing
    <3>5. ReloadInv'
      BY <2>0, <2>2, <3>1, <3>4, SameImages DEF MirrorInv, ReloadInv, Storing
    <3> QED BY <2>0, <3>3, <3>5 DEF MirrorInv, OneKey
  <2> QED BY <1>7, <2>1, <2>2 DEF Revive
<1>8. CASE CheckFailed(j)
  BY <1>8, NoJobIsJob, QuietMirror DEF CheckFailed, NoJob
<1>9. CASE ListRows(j)
  <2>0. /\ job[j].stage \in {"list", "import"}
        /\ UNCHANGED <<table, fetch, pool, excused>>
    BY <1>9 DEF ListRows
  <2>1. /\ job'[j].stage = "revive"
        /\ job'[j].key = job[j].key \cup {k \in Keys : Expired(table[k])}
        /\ job'[j].todo = {k \in Keys : Expired(table[k])}
        /\ job'[j].image = [k \in Keys |-> Image(table[k])]
        /\ job'[j].missed = IF fetch.stage = "store" THEN fetch.key ELSE {}
        /\ \A i \in Jobs \ {j} : job'[i] = job[i]
    BY <1>9 DEF ListRows, TypeOK
  <2>2. \A i \in Keys : Held(i) => Held(i)'
    <3> SUFFICES ASSUME NEW i \in Keys, NEW h \in Jobs, i \in job[h].key,
                        job[h].stage \in {"import", "list", "revive"}
                 PROVE  Held(i)'
      BY DEF Held
    <3>1. i \in job'[h].key /\ job'[h].stage \in {"import", "list", "revive"}
      BY <2>1
    <3> QED BY <3>1 DEF Held
  <2>3. \A i \in Keys : KeyMirrored(i)'
    BY <2>0, <2>2 DEF MirrorInv, KeyMirrored, Pending
  <2>4. \A i \in Keys : ImageTrue(j, i)'
    BY <2>0, <2>1 DEF ImageTrue, Storing, Image, Expired
  <2>5. ReloadInv'
    BY <2>0, <2>1, <2>4, SameImages DEF MirrorInv, ReloadInv, Storing
  <2> QED BY <2>0, <2>3, <2>5 DEF MirrorInv, OneKey
<1>10. CASE Swap(j)
  <2>1. /\ job[j].stage = "revive" /\ job[j].todo = {}
        /\ pool' = job[j].image /\ excused' = job[j].missed
        /\ UNCHANGED <<table, fetch>>
        /\ job'[j].stage = "idle"
        /\ \A i \in Jobs \ {j} : job'[i] = job[i]
    BY <1>10 DEF Swap, NoJob, TypeOK
  <2>2. \A i \in Keys : KeyMirrored(i)'
    <3> SUFFICES ASSUME NEW i \in Keys, i \notin job[j].missed
                 PROVE  pool'[i] = Pending(i)'
      BY <2>1 DEF KeyMirrored
    <3>1. ImageTrue(j, i)
      BY <2>1 DEF MirrorInv, ReloadInv
    <3> QED BY <2>1, <3>1 DEF ImageTrue, Storing, Pending
  <2>3. ReloadInv'
    BY <2>1, SameImages DEF MirrorInv, ReloadInv, Storing
  <2> QED BY <2>1, <2>2, <2>3 DEF MirrorInv, OneKey
<1>11. CASE NoReload(j)
  <2>1. /\ excused' = excused \cup job[j].key
        /\ UNCHANGED <<table, fetch, pool>>
        /\ job'[j].stage = "idle"
        /\ \A i \in Jobs \ {j} : job'[i] = job[i]
    BY <1>11 DEF NoReload, NoJob, TypeOK
  <2>2. \A i \in Keys : Held(i) => Held(i)' \/ i \in excused'
    BY <2>1 DEF Held
  <2>3. \A i \in Keys : KeyMirrored(i)'
    BY <2>1, <2>2 DEF MirrorInv, KeyMirrored, Pending
  <2>4. ReloadInv'
    BY <2>1, SameImages DEF MirrorInv, ReloadInv, Storing
  <2> QED BY <2>1, <2>3, <2>4 DEF MirrorInv, OneKey
<1> QED BY <1>1, <1>2, <1>3, <1>4, <1>5, <1>6, <1>7, <1>8, <1>9, <1>10, <1>11
        DEF JobStep

\* A key that is not excused, and that nobody is half-way through writing, is
\* in memory what its row is, for any number of keys, jobs and failed writes:
\* divergence always comes from a write that failed, a write no Reload followed
\* or a write that overlapped the last Reload.
THEOREM OthersAreMirrored == Spec => []OnlyExcusedKeysDiverge
<1>1. TypeOK /\ MirrorInv /\ [Next]_vars => MirrorInv'
  <2> SUFFICES ASSUME TypeOK, MirrorInv, [Next]_vars
               PROVE  MirrorInv'
    OBVIOUS
  <2>1. CASE FetchStep
    BY <2>1, FetchKeepsMirror
  <2>2. ASSUME NEW j \in Jobs, JobStep(j) PROVE MirrorInv'
    BY <2>2, JobsKeepMirror
  <2>3. CASE Tick
    BY <2>3 DEF Tick, MirrorInv, OneKey, KeyMirrored, Held, ReloadInv, ImageTrue, Storing,
                Pending
  <2>4. CASE Restart
    <3>1. /\ excused' \subseteq {k \in Keys : Expired(table[k])}
          /\ \A k \in Keys : k \in excused' \/ pool'[k] = table'[k]
          /\ fetch'.stage = "idle" /\ fetch'.key = {}
          /\ \A j \in Jobs : job'[j].stage = "idle"
      BY <2>4 DEF Restart, NoFetch, NoJob
    <3> QED BY <3>1 DEF MirrorInv, OneKey, KeyMirrored, ReloadInv, Pending
  <2>5. CASE UNCHANGED vars
    BY <2>5 DEF vars, MirrorInv, OneKey, KeyMirrored, Held, ReloadInv, ImageTrue, Storing,
                Pending
  <2> QED BY <2>1, <2>2, <2>3, <2>4, <2>5 DEF Next
<1>2. MirrorInv => OnlyExcusedKeysDiverge
  BY DEF MirrorInv, KeyMirrored, Held, Pending, OnlyExcusedKeysDiverge, InHand
<1> QED BY <1>1, <1>2, InitMirror, PoolTypeCorrect, PTL DEF Spec

-----------------------------------------------------------------------------
(* Remainders.                                                             *)

LEMMA Division ==
  ASSUME NEW n \in Nat \ {0}, NEW a \in Int
  PROVE  a % n \in 0 .. n - 1 /\ \E q \in Int : a = n * q + (a % n)
<1>1. a \div n \in Int /\ a % n \in 0 .. n - 1 /\ a = n * (a \div n) + (a % n)
  OBVIOUS
<1> QED BY <1>1

LEMMA MultiplesApart ==
  ASSUME NEW n \in Nat \ {0}, NEW p \in Int, NEW q \in Int, p < q
  PROVE  n * p + n <= n * q
<1>1. PICK d \in Nat \ {0} : q = p + d
  <2>1. q - p \in Nat \ {0} /\ q = p + (q - p)
    OBVIOUS
  <2> QED BY <2>1
<1>2. n * q = n * p + n * d /\ n * d >= n
  BY <1>1
<1> QED BY <1>2

\* A number has one quotient and one remainder.
LEMMA DivisionIsUnique ==
  ASSUME NEW n \in Nat \ {0}, NEW p \in Int, NEW q \in Int,
         NEW r \in 0 .. n - 1, NEW s \in 0 .. n - 1, n * p + r = n * q + s
  PROVE  p = q /\ r = s
<1>1. n * p \in Int /\ n * q \in Int
  OBVIOUS
<1>2. ~(p < q)
  BY <1>1, MultiplesApart
<1>3. ~(q < p)
  <2>1. q < p => n * q + n <= n * p
    BY MultiplesApart
  <2> QED BY <1>1, <2>1
<1>4. p = q
  BY <1>2, <1>3
<1> QED BY <1>1, <1>4

LEMMA Remainder ==
  ASSUME NEW n \in Nat \ {0}, NEW a \in Int, NEW q \in Int, NEW r \in 0 .. n - 1,
         a = n * q + r
  PROVE  a % n = r
<1> DEFINE s == a % n
<1>1. s \in 0 .. n - 1 /\ \E p \in Int : a = n * p + s
  BY Division
<1> HIDE DEF s
<1>2. PICK p \in Int : n * p + s = n * q + r
  BY <1>1
<1>3. s = r
  BY <1>1, <1>2, DivisionIsUnique
<1> QED BY <1>3 DEF s

\* Places less than n apart have different remainders.
LEMMA ApartModulo ==
  ASSUME NEW n \in Nat \ {0}, NEW i \in 0 .. n - 1, NEW k \in 0 .. n - 1, NEW s \in Int,
         (i - s) % n = (k - s) % n
  PROVE  i = k
<1> DEFINE r == (i - s) % n
<1>1. i - s \in Int /\ k - s \in Int
  OBVIOUS
<1>2. r \in 0 .. n - 1 /\ \E p \in Int : i - s = n * p + r
  BY <1>1, Division
<1>3. \E q \in Int : k - s = n * q + r
  BY <1>1, Division
<1> HIDE DEF r
<1>4. PICK p \in Int : i - s = n * p + r
  BY <1>2
<1>5. PICK q \in Int : k - s = n * q + r
  BY <1>3
<1>6. n * p \in Int /\ n * q \in Int
  OBVIOUS
<1>7. (p < q => n * p + n <= n * q) /\ (q < p => n * q + n <= n * p)
  BY MultiplesApart
<1>8. p = q
  BY <1>2, <1>4, <1>5, <1>6, <1>7
<1> QED BY <1>2, <1>4, <1>5, <1>6, <1>8

\* The start of the round moves on by one, also where the counter wraps.
LEMMA OneNearer ==
  ASSUME NEW n \in Nat \ {0}, Wrap % n = 0, NEW place \in Int,
         NEW s \in 0 .. Wrap - 1
  PROVE  LET d == (place - (s + 1)) % n
             e == (place - (((s + 1) % Wrap) + 1)) % n
         IN  d \in 0 .. n - 1 /\ e \in 0 .. n - 1 /\ (d # 0 => e = d - 1)
<1> DEFINE d == (place - (s + 1)) % n
           t == (s + 1) % Wrap
           e == (place - (t + 1)) % n
<1>1. s + 1 \in Int /\ place - (s + 1) \in Int /\ Wrap \in Nat \ {0}
  BY PoolAssumption
<1>2. d \in 0 .. n - 1 /\ \E q \in Int : place - (s + 1) = n * q + d
  BY <1>1, Division
<1>3. PICK w \in Int : Wrap = n * w
  <2>1. \E w \in Int : Wrap = n * w + (Wrap % n)
    <3>1. Wrap \in Int
      BY <1>1
    <3> QED BY <3>1, Division
  <2>2. \A w \in Int : n * w + 0 = n * w
    OBVIOUS
  <2> QED BY <2>1, <2>2
<1>4. t = s + 1 \/ (s + 1 = Wrap /\ t = 0)
  <2>1. CASE s + 1 < Wrap
    <3>1. s + 1 \in 0 .. Wrap - 1 /\ s + 1 = Wrap * 0 + (s + 1)
      BY <1>1, <2>1
    <3> QED BY <1>1, <3>1, Remainder
  <2>2. CASE s + 1 = Wrap
    <3>1. 0 \in 0 .. Wrap - 1 /\ s + 1 = Wrap * 1 + 0
      BY <1>1, <2>2
    <3>2. t = 0
      BY <1>1, <3>1, Remainder
    <3> QED BY <2>2, <3>2
  <2> QED BY <1>1, <2>1, <2>2
<1> HIDE DEF d, t
<1>5. t \in Int /\ place - (t + 1) \in Int
  BY <1>1, <1>4
<1>6. e \in 0 .. n - 1
  BY <1>5, Division
<1>7. ASSUME d # 0 PROVE e = d - 1
  <2>1. d - 1 \in 0 .. n - 1
    BY <1>2, <1>7
  <2>2. PICK q \in Int : place - (s + 1) = n * q + d
    BY <1>2
  <2>3. n * q \in Int /\ n * w \in Int /\ n * (q + w) = n * q + n * w /\ q + w \in Int
    OBVIOUS
  <2>4. \E p \in Int : place - (t + 1) = n * p + (d - 1)
    <3>1. CASE t = s + 1
      <4>1. place - (t + 1) = n * q + (d - 1)
        BY <1>1, <1>2, <2>2, <2>3, <3>1
      <4> QED BY <4>1
    <3>2. CASE s + 1 = Wrap /\ t = 0
      <4>1. place - (t + 1) = n * q + n * w + (d - 1)
        BY <1>1, <1>2, <1>3, <2>2, <2>3, <3>2
      <4>2. place - (t + 1) = n * (q + w) + (d - 1)
        BY <2>3, <4>1
      <4> QED BY <2>3, <4>2
    <3> QED BY <1>4, <3>1, <3>2
  <2> QED BY <1>5, <2>1, <2>4, Remainder
<1> QED BY <1>2, <1>6, <1>7 DEF d, t

-----------------------------------------------------------------------------
(* The round.                                                              *)

\* A key that has been passed over has come nearer to the start of the round
\* as many times.
RoundInv == \A k \in Pickable : passed[k] + Distance(k) < Cardinality(Loaded)

LEMMA KeysCount ==
  ASSUME NEW S \in SUBSET Keys
  PROVE  /\ IsFiniteSet(S) /\ Cardinality(S) \in Nat
         /\ S # {} => Cardinality(S) \in Nat \ {0} /\ Wrap % Cardinality(S) = 0
<1>1. IsFiniteSet(Keys) /\ \A n \in 1 .. Cardinality(Keys) : Wrap % n = 0
  BY PoolAssumption
<1>2. IsFiniteSet(S) /\ Cardinality(S) <= Cardinality(Keys)
  BY <1>1, FS_Subset
<1>3. Cardinality(S) \in Nat /\ Cardinality(Keys) \in Nat
  BY <1>1, <1>2, FS_CardinalityType
<1>4. Cardinality(S) = 0 <=> S = {}
  BY <1>2, FS_EmptySet
<1>5. S # {} => Cardinality(S) \in 1 .. Cardinality(Keys)
  BY <1>2, <1>3, <1>4
<1> QED BY <1>1, <1>2, <1>3, <1>5

LEMMA LoadedFinite ==
  /\ IsFiniteSet(Loaded) /\ Cardinality(Loaded) \in Nat
  /\ Loaded # {} => Cardinality(Loaded) \in Nat \ {0} /\ Wrap % Cardinality(Loaded) = 0
<1>1. Loaded \in SUBSET Keys
  BY DEF Loaded
<1> QED BY <1>1, KeysCount

LEMMA PositionIsCount ==
  ASSUME NEW i \in Loaded
  PROVE  Position(i) \in Nat
<1>1. {x \in Loaded : x < i} \in SUBSET Loaded
  OBVIOUS
<1>2. IsFiniteSet({x \in Loaded : x < i})
  BY <1>1, LoadedFinite, FS_Subset
<1> QED BY <1>2, FS_CardinalityType DEF Position

\* A set that holds a key and those before it is larger than its position.
LEMMA PositionBelow ==
  ASSUME NEW i \in Loaded, NEW S \in SUBSET Loaded, i \in S,
         {x \in Loaded : x < i} \subseteq S
  PROVE  Position(i) < Cardinality(S)
<1>1. IsFiniteSet(S)
  BY LoadedFinite, FS_Subset
<1>2. Cardinality(S) \in Nat
  BY <1>1, FS_CardinalityType
<1>3. IsFiniteSet(S \ {i}) /\ Cardinality(S \ {i}) = Cardinality(S) - 1
  BY <1>1, FS_RemoveElement
<1>4. {x \in Loaded : x < i} \in SUBSET (S \ {i})
  BY PoolAssumption DEF Loaded
<1>5. Position(i) <= Cardinality(S \ {i})
  BY <1>3, <1>4, FS_Subset DEF Position
<1>6. Position(i) \in Nat
  BY PositionIsCount
<1> QED BY <1>2, <1>3, <1>5, <1>6

\* The keys are numbered without gaps or repetition.
LEMMA Positions ==
  ASSUME NEW k \in Loaded
  PROVE  /\ Position(k) \in 0 .. Cardinality(Loaded) - 1
         /\ \A i \in Loaded : i < k => Position(i) < Position(k)
<1>0. Loaded \subseteq Nat
  BY PoolAssumption DEF Loaded
<1>1. Position(k) \in Nat /\ Position(k) < Cardinality(Loaded)
  BY PositionIsCount, PositionBelow
<1>2. ASSUME NEW i \in Loaded, i < k PROVE Position(i) < Position(k)
  <2> DEFINE S == {x \in Loaded : x < k}
  <2>1. i \in S /\ S \in SUBSET Loaded
    BY <1>2
  <2>2. ASSUME NEW x \in Loaded, x < i PROVE x \in S
    <3>1. x \in Int /\ i \in Int /\ k \in Int
      BY <1>0
    <3>2. x < k
      BY <1>2, <2>2, <3>1
    <3> QED BY <3>2
  <2>3. Position(i) < Cardinality(S)
    BY <2>1, <2>2, PositionBelow
  <2> QED BY <2>3 DEF Position
<1> QED BY <1>1, <1>2, LoadedFinite

LEMMA DistancesDiffer ==
  ASSUME TypeOK, NEW i \in Loaded, NEW k \in Loaded, i # k
  PROVE  Distance(i) # Distance(k)
<1>1. Position(i) # Position(k)
  <2>1. i \in Nat /\ k \in Nat
    BY PoolAssumption DEF Loaded
  <2>2. i < k \/ k < i
    BY <2>1
  <2>3. Position(i) \in Int /\ Position(k) \in Int
    BY Positions
  <2> QED BY <2>2, <2>3, Positions
<1>2. rr + 1 \in Int
  BY DEF TypeOK
<1> QED BY <1>1, <1>2, LoadedFinite, Positions, ApartModulo DEF Distance

\* What one more pick does to a key's distance while the pool stays.
LEMMA PickComesNearer ==
  ASSUME TypeOK, rr' = (rr + 1) % Wrap, UNCHANGED pool, NEW k \in Loaded
  PROVE  /\ Loaded' = Loaded
         /\ Distance(k) \in 0 .. Cardinality(Loaded) - 1
         /\ Distance(k)' \in 0 .. Cardinality(Loaded) - 1
         /\ Distance(k) # 0 => Distance(k)' = Distance(k) - 1
<1>1. Loaded' = Loaded
  BY DEF Loaded
<1>2. Position(k)' = Position(k)
  BY <1>1 DEF Position
<1>3. Position(k) \in Int /\ rr \in 0 .. Wrap - 1
  BY Positions DEF TypeOK
<1>4. Distance(k)' = (Position(k) - (((rr + 1) % Wrap) + 1)) % Cardinality(Loaded)
  BY <1>1, <1>2 DEF Distance
<1> QED BY <1>1, <1>3, <1>4, LoadedFinite, OneNearer DEF Distance

\* Only an active key can be picked, whatever the time.
LEMMA PickableIsActive ==
  ASSUME TypeOK
  PROVE  Pickable = {k \in Loaded : pool[k].status = "active"}
<1>1. now \in Nat /\ \A k \in Keys : /\ pool[k].until \in Nat
                                     /\ pool[k].until > 0 <=> pool[k].status = "cooldown"
  BY DEF TypeOK, Row
<1>2. \A k \in Keys : pool[k].status = "active" => pool[k].until <= now
  BY <1>1
<1> QED BY <1>2 DEF Pickable, Loaded

\* A new pool: nobody has been passed over.
LEMMA NewRound ==
  ASSUME TypeOK', passed' = Nobody PROVE RoundInv'
<1> SUFFICES ASSUME NEW k \in Pickable'
             PROVE  passed'[k] + Distance(k)' < Cardinality(Loaded)'
  BY DEF RoundInv
<1>1. k \in Loaded' /\ passed'[k] = 0
  BY DEF Pickable, Loaded, Nobody
<1>2. Loaded' \in SUBSET Keys /\ {i \in Loaded' : i < k} \in SUBSET Keys
  BY DEF Loaded
<1>3. Cardinality(Loaded') \in Nat \ {0} /\ Position(k)' \in Nat
  BY <1>1, <1>2, KeysCount DEF Position
<1>4. Position(k)' - (rr' + 1) \in Int
  BY <1>3 DEF TypeOK
<1>5. Distance(k)' \in 0 .. Cardinality(Loaded') - 1
  BY <1>3, <1>4, Division DEF Distance
<1> QED BY <1>1, <1>3, <1>5

LEMMA SameRound ==
  ASSUME TypeOK, TypeOK', RoundInv, UNCHANGED <<pool, rr, passed>>
  PROVE  RoundInv'
<1>1. Loaded' = Loaded /\ Pickable = {k \in Loaded : pool[k].status = "active"}
  BY PickableIsActive DEF Loaded
<1>2. \A k \in Keys : /\ pool'[k].until \in Nat /\ now' \in Nat
                      /\ pool'[k].until > 0 <=> pool'[k].status = "cooldown"
  BY DEF TypeOK, Row
<1>3. Pickable' \subseteq Pickable
  BY <1>1, <1>2 DEF Pickable, TypeOK, Row, Status
<1>4. \A k : Distance(k)' = Distance(k)
  BY <1>1 DEF Distance, Position
<1> QED BY <1>1, <1>3, <1>4 DEF RoundInv

LEMMA PickKeepsRound ==
  ASSUME TypeOK, RoundInv, NEW k \in Keys, Pick(k)
  PROVE  RoundInv'
<1>1. /\ k \in Pickable /\ \A i \in Pickable : Distance(k) <= Distance(i)
      /\ rr' = (rr + 1) % Wrap /\ UNCHANGED <<pool, now>>
      /\ passed' = [i \in Keys |-> IF i \in Pickable \ {k} THEN passed[i] + 1 ELSE 0]
  BY DEF Pick
<1>2. Pickable' = Pickable /\ Pickable \subseteq Loaded /\ Loaded \subseteq Keys
  BY <1>1 DEF Pickable, Loaded
<1>3. \A i \in Pickable :
        /\ Distance(i) \in 0 .. Cardinality(Loaded) - 1
        /\ Distance(i)' \in 0 .. Cardinality(Loaded) - 1
        /\ Distance(i) # 0 => Distance(i)' = Distance(i) - 1
        /\ Loaded' = Loaded
  BY <1>1, <1>2, PickComesNearer
<1>4. Cardinality(Loaded) \in Nat /\ passed \in [Keys -> Nat]
  BY LoadedFinite DEF TypeOK
<1> SUFFICES ASSUME NEW i \in Pickable
             PROVE  passed'[i] + Distance(i)' < Cardinality(Loaded)
  BY <1>1, <1>2, <1>3 DEF RoundInv
<1>5. CASE i = k
  BY <1>1, <1>2, <1>3, <1>4, <1>5
<1>6. CASE i # k
  <2>1. Distance(k) <= Distance(i) /\ Distance(i) # Distance(k)
    BY <1>1, <1>2, <1>6, DistancesDiffer
  <2>2. Distance(i)' = Distance(i) - 1
    BY <1>1, <1>3, <2>1
  <2>3. passed'[i] = passed[i] + 1 /\ passed[i] \in Nat
    BY <1>1, <1>2, <1>4, <1>6
  <2>4. passed[i] + Distance(i) < Cardinality(Loaded)
    BY DEF RoundInv
  <2> QED BY <1>3, <1>4, <2>2, <2>3, <2>4
<1> QED BY <1>5, <1>6

LEMMA NextKeepsRound ==
  ASSUME TypeOK, RoundInv, [Next]_vars
  PROVE  RoundInv'
<1>1. TypeOK'
  BY NextKeepsTypes
<1>2. ASSUME NEW k \in Keys, Pick(k) PROVE RoundInv'
  BY <1>2, PickKeepsRound
<1>3. CASE PickFails
  <2>1. Pickable' = {}
    BY <1>3 DEF PickFails, Pickable, Loaded
  <2> QED BY <2>1 DEF RoundInv
<1>4. ASSUME NEW k \in Keys, NEW rep \in Replies, ReportResult(k, rep) PROVE RoundInv'
  <2>1. passed' = Nobody \/ UNCHANGED <<pool, rr, passed>>
    BY <1>4 DEF ReportResult
  <2> QED BY <1>1, <2>1, NewRound, SameRound
<1>5. ASSUME NEW j \in Jobs, JobStep(j) PROVE RoundInv'
  <2>1. passed' = Nobody \/ UNCHANGED <<pool, rr, passed>>
    BY <1>5 DEF JobStep, SetStatus, DeleteKey, ImportKey, StartCheck, CheckRefused,
                CheckAnswered, Revive, CheckFailed, ListRows, NoReload, Swap, Begin, Edit
  <2> QED BY <1>1, <2>1, NewRound, SameRound
<1>6. CASE Tick \/ Restart \/ UNCHANGED vars
  <2>1. passed' = Nobody \/ UNCHANGED <<pool, rr, passed>>
    BY <1>6 DEF Tick, Restart, vars
  <2> QED BY <1>1, <2>1, NewRound, SameRound
<1>7. ASSUME NEW k \in Keys, StoreResult(k) PROVE RoundInv'
  <2>1. UNCHANGED <<pool, rr, passed>>
    BY <1>7 DEF StoreResult
  <2> QED BY <1>1, <2>1, SameRound
<1> QED BY <1>2, <1>3, <1>4, <1>5, <1>6, <1>7 DEF Next, FetchStep

LEMMA InitRound == ASSUME Init PROVE RoundInv
<1>1. TypeOK
  BY InitTypeOK
<1> SUFFICES ASSUME NEW k \in Pickable
             PROVE  passed[k] + Distance(k) < Cardinality(Loaded)
  BY DEF RoundInv
<1>2. k \in Loaded /\ passed[k] = 0 /\ rr + 1 \in Int
  BY <1>1 DEF Init, Pickable, Loaded, Nobody, TypeOK
<1>3. Cardinality(Loaded) \in Nat \ {0} /\ Position(k) - (rr + 1) \in Int
  BY <1>2, LoadedFinite, PositionIsCount
<1>4. Distance(k) \in 0 .. Cardinality(Loaded) - 1
  BY <1>3, Division DEF Distance
<1> QED BY <1>2, <1>3, <1>4

\* The round robin is fair for any number of keys, disabled and cooling ones
\* among them, and where its counter wraps: each time a key is passed over,
\* the start of the next round (Pool.Pick) has come one key nearer to it.
THEOREM EveryKeyHasItsTurn == Spec => []NoActiveKeyStarves
<1>1. TypeOK /\ RoundInv => NoActiveKeyStarves
  <2> SUFFICES ASSUME TypeOK, RoundInv, NEW k \in Pickable
               PROVE  passed[k] < Cardinality(Loaded)
    BY DEF NoActiveKeyStarves
  <2>1. k \in Loaded /\ passed[k] \in Nat /\ Position(k) - (rr + 1) \in Int
    BY PositionIsCount DEF TypeOK, Pickable, Loaded
  <2>2. Cardinality(Loaded) \in Nat \ {0}
    BY <2>1, LoadedFinite
  <2>3. Distance(k) \in 0 .. Cardinality(Loaded) - 1
    BY <2>1, <2>2, Division DEF Distance
  <2>4. passed[k] + Distance(k) < Cardinality(Loaded)
    BY DEF RoundInv
  <2> QED BY <2>1, <2>2, <2>3, <2>4
<1> QED BY <1>1, InitRound, NextKeepsRound, PoolTypeCorrect, PTL DEF Spec
=============================================================================
