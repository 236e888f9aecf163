---------------------------- MODULE DailyRounds ----------------------------
(***************************************************************************)
(* The two daily background jobs and the rounds the administrator starts:  *)
(* the check-in of every account (server/checkin_auto.go) and the quota    *)
(* check of every upstream key (server/quota_auto.go).  Both loops have    *)
(* the same shape; a behaviour is about one of them, kind says which.      *)
(*                                                                         *)
(*   loop:   boot (-> delay) -> [run ->] plan -> sleep -> run -> plan ...  *)
(*   round:  next -> call -> next -> ... -> idle                           *)
(*                                                                         *)
(* A tick stands for an open interval of time; Buffer of them make the two *)
(* minutes after midnight in which the gateway resets its quotas.          *)
(***************************************************************************)
EXTENDS Integers, FiniteSets

CONSTANTS
  Kinds,    \* which jobs: "checkin", "quota"
  Items,    \* accounts, respectively upstream keys, in the order of their id
  Manual,   \* requests of the administrator
  Daily,     \* the round of the loop
  Length,   \* ticks of a Beijing day
  Buffer,   \* ticks after midnight before the daily round
  MaxTime,  \* bound: the clock
  MaxEvents \* bound: items edited and crashes of the process

ASSUME DailyAssumption ==
  /\ Kinds \subseteq {"checkin", "quota"}
  /\ Items \subseteq Nat
  /\ Daily \notin Manual
  /\ Length \in Nat /\ Buffer \in Nat
  /\ 0 < Buffer /\ Buffer < Length
  /\ MaxTime \in Nat /\ MaxEvents \in Nat

VARIABLES
  kind,    \* the job
  now,     \* the clock; it starts in day 1, and 0 is "never"
  usable,  \* SUBSET Items: authorised and enabled accounts; keys that exist
  last,    \* [Items -> Nat]: last_checkin_at, quota_checked_at
  loop,    \* the loop's goroutine
  busy,    \* checkinRunning, quotaChecking
  round,   \* [Rounds -> Round \cup {NoRound}]
  events,  \* edits and crashes so far
  steady,  \* history: items usable since midnight
  tried,   \* history: SUBSET Items: tried since midnight
  ran,     \* history: the loop's last round began after midnight
  skipped  \* history: what the loop found when it last began no round, or "no"

history == <<steady, tried, ran, skipped>>
vars == <<kind, now, usable, last, loop, busy, round, events, history>>

-----------------------------------------------------------------------------
Rounds == Manual \cup {Daily}

Loop == [stage : {"down", "boot", "delay", "run", "plan", "sleep"}, wake : Nat]

\* full: the round has taken the lock.
NoRound == [stage |-> "idle", todo |-> {}, full |-> FALSE]
Round == [stage : {"next", "call"}, todo : SUBSET Items, full : BOOLEAN]
Over(items, full) == [stage |-> "next", todo |-> items, full |-> full]

Today == now \div Length
Midnight == Today * Length

\* Faulty: the round of a day that has just begun is put off by a day.
FaultyNextQuotaRefreshTime == Midnight + Length + Buffer

NextQuotaRefreshTime ==
  IF now - Midnight < Buffer THEN Midnight + Buffer ELSE Midnight + Length + Buffer

\* LatestCheckinAt, LatestUpstreamQuotaCheckedAt: any item counts.
DoneToday == \E i \in Items : last[i] >= Midnight

Init ==
  /\ kind \in Kinds
  /\ now = Length
  /\ usable \in SUBSET Items
  /\ last = [i \in Items |-> 0]
  /\ loop = [stage |-> "boot", wake |-> 0]
  /\ busy = FALSE
  /\ round = [x \in Rounds |-> NoRound]
  /\ events = 0
  /\ steady = usable
  /\ tried = {}
  /\ ran = FALSE
  /\ skipped = "no"

-----------------------------------------------------------------------------
(* The loop: checkinAutoLoop, quotaAutoRefreshLoop.                        *)

Enter(stage) == loop' = [loop EXCEPT !.stage = stage]

\* Faulty: what was done on any earlier day counts for today.
FaultyCatchUp ==
  /\ loop.stage = "boot"
  /\ IF \E i \in Items : last[i] > 0
     THEN Enter("plan") ELSE Enter("delay")
  /\ skipped' = IF DoneToday THEN "done" ELSE "early"
  /\ UNCHANGED <<kind, now, usable, last, busy, round, events, steady, tried, ran>>

\* catchUpCheckin, catchUpQuotaRefresh: is there a round to catch up on?  A
\* query that fails says that nothing was ever done.
CatchUp ==
  /\ loop.stage = "boot"
  /\ \/ DoneToday /\ Enter("plan") /\ skipped' = "done"
     \/ Enter("delay") /\ skipped' = "early"
  /\ UNCHANGED <<kind, now, usable, last, busy, round, events, steady, tried, ran>>

Due == loop.stage = "sleep" /\ loop.wake <= now

\* runCheckinAuto, runQuotaAutoRefresh: the lock is taken and the items are
\* listed, or the round is left out.
RunAuto ==
  /\ loop.stage = "delay" \/ Due
  /\ ~busy
  /\ busy' = TRUE
  /\ round' = [round EXCEPT ![Daily] = Over(usable, TRUE)]
  /\ Enter("run")
  /\ ran' = TRUE
  /\ skipped' = "no"
  /\ UNCHANGED <<kind, now, usable, last, events, steady, tried>>

LeaveOut ==
  /\ loop.stage = "delay" \/ Due
  /\ busy
  /\ Enter("plan")
  /\ skipped' = "busy"
  /\ UNCHANGED <<kind, now, usable, last, busy, round, events, steady, tried, ran>>

\* The accounts or keys cannot be listed: an error is logged, the lock is
\* released and the loop goes on to the next day.
ListFails ==
  /\ loop.stage = "delay" \/ Due
  /\ ~busy
  /\ Enter("plan")
  /\ skipped' = "unlisted"
  /\ UNCHANGED <<kind, now, usable, last, busy, round, events, steady, tried, ran>>

\* The loop works out when to wake up and goes to sleep.
Plan ==
  /\ loop.stage = "plan"
  /\ loop' = [stage |-> "sleep", wake |-> NextQuotaRefreshTime]
  /\ UNCHANGED <<kind, now, usable, last, busy, round, events, history>>

-----------------------------------------------------------------------------
(* The administrator's rounds.                                             *)

\* handleCheckAllCheckin and handleCheckAllQuotas: only the latter takes the
\* lock, and is refused when it is taken.
CheckAll(m) ==
  /\ loop.stage # "down"
  /\ round[m] = NoRound
  /\ kind = "quota" => ~busy
  /\ busy' = (busy \/ kind = "quota")
  /\ round' = [round EXCEPT ![m] = Over(usable, kind = "quota")]
  /\ UNCHANGED <<kind, now, usable, last, loop, events, history>>

\* handleCheckinOne, handleCheckUpstreamQuota, and the check-in at the end of
\* an authorisation.
CheckOne(m, i) ==
  /\ loop.stage # "down"
  /\ round[m] = NoRound
  /\ round' = [round EXCEPT ![m] = Over({i}, FALSE)]
  /\ UNCHANGED <<kind, now, usable, last, loop, busy, events, history>>

-----------------------------------------------------------------------------
(* A round: runCheckinAll, checkAllQuotas.                                 *)

IsNext(x, i) ==
  /\ round[x].stage = "next"
  /\ i \in round[x].todo
  /\ \A k \in round[x].todo : i <= k

\* Faulty: an item that is not usable any more is tried again and again.
FaultyPass(x, i) ==
  /\ IsNext(x, i)
  /\ i \notin usable
  /\ round' = [round EXCEPT ![x].todo = @ \cup {i}]
  /\ UNCHANGED <<kind, now, usable, last, loop, busy, events, history>>

\* checkinOne, checkQuotaFor read the row again: it may not be usable now.
Pass(x, i) ==
  /\ IsNext(x, i)
  /\ i \notin usable
  /\ round' = [round EXCEPT ![x].todo = @ \ {i}]
  /\ UNCHANGED <<kind, now, usable, last, loop, busy, events, history>>

Call(x, i) ==
  /\ IsNext(x, i)
  /\ i \in usable
  /\ round' = [round EXCEPT ![x].stage = "call"]
  /\ tried' = tried \cup {i}
  /\ UNCHANGED <<kind, now, usable, last, loop, busy, events, steady, ran, skipped>>

\* The site or the gateway answers, or the time is up; a success stores its
\* time, unless the key has been deleted.
Answer(x, i, ok) ==
  /\ round[x].stage = "call"
  /\ i \in round[x].todo
  /\ \A k \in round[x].todo : i <= k
  /\ round' = [round EXCEPT ![x].stage = "next", ![x].todo = @ \ {i}]
  /\ last' = IF ok /\ (kind = "checkin" \/ i \in usable)
             THEN [last EXCEPT ![i] = now] ELSE last
  /\ UNCHANGED <<kind, now, usable, loop, busy, events, history>>

\* Faulty: whoever ends a round of his own releases the lock.
FaultyEnd(x) ==
  /\ round[x].stage = "next"
  /\ round[x].todo = {}
  /\ round' = [round EXCEPT ![x] = NoRound]
  /\ busy' = FALSE
  /\ IF x = Daily THEN Enter("plan") ELSE UNCHANGED loop
  /\ UNCHANGED <<kind, now, usable, last, events, history>>

\* The round is over; its lock is released.
End(x) ==
  /\ round[x].stage = "next"
  /\ round[x].todo = {}
  /\ round' = [round EXCEPT ![x] = NoRound]
  /\ busy' = (busy /\ ~round[x].full)
  /\ IF x = Daily THEN Enter("plan") ELSE UNCHANGED loop
  /\ UNCHANGED <<kind, now, usable, last, events, history>>

-----------------------------------------------------------------------------
(* The rest of the server, and time.                                       *)

\* An account is enabled, authorised, disabled or refused, and keeps its row;
\* a key is added or deleted, and an added key is a new row.
Edit(i) ==
  /\ events < MaxEvents
  /\ events' = events + 1
  /\ usable' = IF i \in usable THEN usable \ {i} ELSE usable \cup {i}
  /\ last' = IF kind = "quota" THEN [last EXCEPT ![i] = 0] ELSE last
  /\ steady' = steady \ {i}
  /\ UNCHANGED <<kind, now, loop, busy, round, tried, ran, skipped>>

\* Timers fire and goroutines plan within a tick.
Tick ==
  /\ now < MaxTime
  /\ ~Due /\ loop.stage \notin {"boot", "plan"}
  /\ now' = now + 1
  /\ IF (now + 1) % Length = 0
     THEN steady' = usable /\ tried' = {} /\ ran' = FALSE
     ELSE UNCHANGED <<steady, tried, ran>>
  /\ UNCHANGED <<kind, usable, last, loop, busy, round, events, skipped>>

Crash ==
  /\ loop.stage # "down"
  /\ events < MaxEvents
  /\ events' = events + 1
  /\ Enter("down")
  /\ busy' = FALSE
  /\ round' = [x \in Rounds |-> NoRound]
  /\ UNCHANGED <<kind, now, usable, last, history>>

Start ==
  /\ loop.stage = "down"
  /\ Enter("boot")
  /\ UNCHANGED <<kind, now, usable, last, busy, round, events, history>>

-----------------------------------------------------------------------------
LoopStep == CatchUp \/ RunAuto \/ LeaveOut \/ ListFails \/ Plan

RoundStep(x) ==
  \/ \E i \in Items : Pass(x, i) \/ Call(x, i) \/ \E ok \in BOOLEAN : Answer(x, i, ok)
  \/ End(x)

Environment ==
  \/ \E m \in Manual : CheckAll(m) \/ \E i \in Items : CheckOne(m, i)
  \/ \E i \in Items : Edit(i)
  \/ Tick \/ Crash \/ Start

Next == LoopStep \/ (\E x \in Rounds : RoundStep(x)) \/ Environment

Spec == Init /\ [][Next]_vars

\* Every call has a limit of 30, 90 or 120 s, and goroutines run.
FairSpec == Spec /\ WF_vars(LoopStep) /\ \A x \in Rounds : WF_vars(RoundStep(x))
-----------------------------------------------------------------------------
(* Correctness.                                                            *)

\* Every variable stays in its range.
TypeOK ==
  /\ kind \in {"checkin", "quota"}
  /\ now \in Nat
  /\ usable \in SUBSET Items
  /\ last \in [Items -> Nat]
  /\ loop \in Loop
  /\ busy \in BOOLEAN
  /\ round \in [Rounds -> Round \cup {NoRound}]
  /\ events \in Nat
  /\ steady \in SUBSET Items
  /\ tried \in SUBSET Items
  /\ ran \in BOOLEAN
  /\ skipped \in {"no", "done", "early", "busy", "unlisted"}

\* Of the rounds that take the lock one is under way at a time, whatever
\* order automatic rounds, manual rounds, single checks and restarts come in,
\* and the lock is never left behind: when it is taken, somebody works
\* (quotaChecking in runQuotaAutoRefresh and handleCheckAllQuotas).
FullRoundsExclusive ==
  /\ \A x, y \in Rounds : (round[x].full /\ round[y].full) => x = y
  /\ busy <=> \E x \in Rounds : round[x].full

\* The loop does not put off its work to another day before everything that
\* has been usable all day was tried, except for the four reasons the code
\* has: at the start something had been done today, a manual round held the
\* lock, the listing failed (which is logged and not tried again that day), or
\* the round of the day before has lasted until after the time of today's
\* (nextQuotaRefreshTime, the catch-up and the listing together).
DayServedBeforeSleep ==
  [][(loop.stage = "plan" /\ loop'.stage = "sleep" /\ loop'.wake >= Midnight + Length)
     => \/ steady \subseteq tried
        \/ skipped = "done"
        \/ skipped = "busy" /\ kind = "quota"
        \/ skipped = "unlisted"
        \/ skipped = "no" /\ ~ran /\ now - Midnight >= Buffer]_vars

\* A round that has begun ends, although items are disabled, deleted and
\* fail while it is under way; the loop gets to its next day.
EveryRoundEnds ==
  \A x \in Rounds : round[x].stage # "idle" ~> round[x].stage = "idle"
=============================================================================
