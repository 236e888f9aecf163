--------------------------- MODULE CheckinProofs ---------------------------
(***************************************************************************)
(* Proofs about the check-ins, first about the rounds and then about one   *)
(* account.                                                                *)
(*                                                                         *)
(* DailyRounds for every number of items and requests, any day length and  *)
(* any bound: types, the exclusion of full rounds, and that a day is never *)
(* slept away before its work was tried.                                   *)
(*                                                                         *)
(* WebCheckin for every number of runs and packages and any bound: types,  *)
(* the cap-tokens, the truth of what the row says, and that an undisturbed *)
(* check-in shows what it has claimed.                                     *)
(***************************************************************************)
EXTENDS DailyRounds, WebCheckin, TLAPS

\* The loop is in its round exactly while that round exists, and only quota
\* rounds of the administrator take the lock.
OwnerInv ==
  /\ loop.stage = "run" <=> round[Daily] # NoRound
  /\ \A m \in Manual : round[m].full => kind = "quota"

\* What was usable since midnight is usable, and the loop's round of today has
\* tried it or is going to.
ServedInv ==
  /\ steady \subseteq usable
  /\ loop.stage = "run" =>
       /\ skipped = "no"
       /\ ran => steady \subseteq tried \cup round[Daily].todo
       /\ (ran /\ round[Daily].stage = "call") =>
            \A i \in round[Daily].todo : (\A k \in round[Daily].todo : i <= k) => i \in tried
  /\ loop.stage = "plan" =>
       \/ skipped = "done"
       \/ skipped = "busy" /\ kind = "quota"
       \/ skipped = "unlisted"
       \/ skipped = "no" /\ (ran => steady \subseteq tried)

Inv == TypeOK /\ FullRoundsExclusive /\ OwnerInv /\ ServedInv

\* Midnight is a time of the clock.
LEMMA MidnightNat == ASSUME now \in Nat PROVE Today \in Nat /\ Midnight \in Nat
<1>1. Length \in Nat /\ Length > 0  BY DailyAssumption
<1>2. Today \in Nat  BY <1>1 DEF Today
<1> QED  BY <1>1, <1>2 DEF Midnight

\* A round that begins is a round under way.
LEMMA RoundTypes ==
  ASSUME NEW items \in SUBSET Items, NEW full \in BOOLEAN
  PROVE  Over(items, full) \in Round /\ Over(items, full) # NoRound
BY DEF Over, Round, NoRound

\* The server starts with no round and no lock taken.
LEMMA InitInv == Init => Inv
<1> SUFFICES ASSUME Init PROVE Inv  OBVIOUS
<1>1. TypeOK
  <2>1. loop \in Loop  BY DEF Init, Loop
  <2>2. round \in [Rounds -> Round \cup {NoRound}]  BY DEF Init
  <2>3. last \in [Items -> Nat]  BY DEF Init
  <2>4. kind \in {"checkin", "quota"} /\ now \in Nat  BY DailyAssumption DEF Init
  <2> QED  BY <2>1, <2>2, <2>3, <2>4 DEF Init, TypeOK
<1>2. \A x \in Rounds : round[x] = NoRound /\ ~round[x].full  BY DEF Init, NoRound
<1>3. FullRoundsExclusive  BY <1>2 DEF Init, FullRoundsExclusive
<1>4. OwnerInv /\ ServedInv  BY <1>2 DEF Init, OwnerInv, ServedInv, Rounds
<1> QED  BY <1>1, <1>3, <1>4 DEF Inv

\* A step keeps the types: one case for every action.
LEMMA TypeStep == Inv /\ [Next]_vars => TypeOK'
<1> SUFFICES ASSUME Inv, [Next]_vars PROVE TypeOK'  OBVIOUS
<1> USE DEF Inv, TypeOK, Rounds, history
<1>1. CASE UNCHANGED vars  BY <1>1 DEF vars
<1>2. CASE CatchUp \/ ListFails  BY <1>2 DEF CatchUp, ListFails, Enter, Loop
<1>3. CASE RunAuto
  <2>1. Over(usable, TRUE) \in Round  BY RoundTypes
  <2> QED  BY <1>3, <2>1 DEF RunAuto, Enter, Loop
<1>4. CASE LeaveOut  BY <1>4 DEF LeaveOut, Enter, Loop
<1>5. CASE Plan
  <2>1. NextQuotaRefreshTime \in Nat
    <3>1. now \in Nat /\ Midnight \in Nat  BY MidnightNat
    <3> QED  BY <3>1, DailyAssumption DEF NextQuotaRefreshTime
  <2> QED  BY <1>5, <2>1 DEF Plan, Loop
<1>6. ASSUME NEW x \in Rounds, RoundStep(x) PROVE TypeOK'
  <2>1. ASSUME NEW i \in Items, Pass(x, i) PROVE TypeOK'
    <3>1. round[x] \in Round  BY <2>1 DEF Pass, IsNext, NoRound
    <3>2. [round[x] EXCEPT !.todo = @ \ {i}] \in Round  BY <3>1 DEF Round
    <3> QED  BY <2>1, <3>2 DEF Pass
  <2>2. ASSUME NEW i \in Items, Call(x, i) PROVE TypeOK'
    <3>1. round[x] \in Round  BY <2>2 DEF Call, IsNext, NoRound
    <3>2. [round[x] EXCEPT !.stage = "call"] \in Round  BY <3>1 DEF Round
    <3> QED  BY <2>2, <3>2 DEF Call
  <2>3. ASSUME NEW i \in Items, NEW ok \in BOOLEAN, Answer(x, i, ok) PROVE TypeOK'
    <3>1. round[x] \in Round  BY <2>3 DEF Answer, NoRound
    <3>2. [round[x] EXCEPT !.stage = "next", !.todo = @ \ {i}] \in Round
      BY <3>1 DEF Round
    <3>3. round' \in [Rounds -> Round \cup {NoRound}]  BY <2>3, <3>2 DEF Answer
    <3>4. last' \in [Items -> Nat]  BY <2>3 DEF Answer
    <3> QED  BY <2>3, <3>3, <3>4 DEF Answer
  <2>4. CASE End(x)  BY <2>4 DEF End, Enter, Loop
  <2> QED  BY <1>6, <2>1, <2>2, <2>3, <2>4 DEF RoundStep
<1>7. ASSUME NEW m \in Manual, CheckAll(m) PROVE TypeOK'
  <2>1. Over(usable, kind = "quota") \in Round  BY RoundTypes
  <2> QED  BY <1>7, <2>1 DEF CheckAll
<1>8. ASSUME NEW m \in Manual, NEW i \in Items, CheckOne(m, i) PROVE TypeOK'
  <2>1. Over({i}, FALSE) \in Round  BY RoundTypes
  <2> QED  BY <1>8, <2>1 DEF CheckOne
<1>9. ASSUME NEW i \in Items, Edit(i) PROVE TypeOK'  BY <1>9 DEF Edit
<1>10. CASE Tick
  <2>1. now' \in Nat  BY <1>10 DEF Tick
  <2>2. steady' \in SUBSET Items /\ tried' \in SUBSET Items /\ ran' \in BOOLEAN
    <3>1. CASE (now + 1) % Length = 0  BY <1>10, <3>1 DEF Tick
    <3>2. CASE (now + 1) % Length # 0  BY <1>10, <3>2 DEF Tick
    <3> QED  BY <3>1, <3>2
  <2>3. skipped' \in {"no", "done", "early", "busy", "unlisted"}  BY <1>10 DEF Tick
  <2> QED  BY <1>10, <2>1, <2>2, <2>3 DEF Tick
<1>11. CASE Crash
  <2>1. round' \in [Rounds -> Round \cup {NoRound}]  BY <1>11 DEF Crash
  <2>2. loop' \in Loop  BY <1>11 DEF Crash, Enter, Loop
  <2>3. UNCHANGED <<kind, now, usable, last, steady, tried, ran, skipped>>
    BY <1>11 DEF Crash
  <2>4. events' \in Nat  BY <1>11 DEF Crash
  <2>5. busy' = FALSE  BY <1>11 DEF Crash
  <2>6. busy' \in BOOLEAN  BY <2>5
  <2> QED  BY <2>1, <2>2, <2>3, <2>4, <2>6
<1>12. CASE Start  BY <1>12 DEF Start, Enter, Loop
<1> QED
  BY <1>1, <1>2, <1>3, <1>4, <1>5, <1>6, <1>7, <1>8, <1>9, <1>10, <1>11, <1>12
  DEF Next, LoopStep, Environment

\* The lock follows the rounds that took it.
LEMMA ExclusiveStep == Inv /\ [Next]_vars => FullRoundsExclusive'
<1> SUFFICES ASSUME Inv, [Next]_vars PROVE FullRoundsExclusive'  OBVIOUS
<1> USE DEF Inv, TypeOK, FullRoundsExclusive, Rounds, Over, NoRound
<1>1. CASE UNCHANGED <<busy, round>>  BY <1>1
<1>2. CASE RunAuto  BY <1>2 DEF RunAuto
<1>3. ASSUME NEW x \in Rounds, RoundStep(x) PROVE FullRoundsExclusive'
  <2>1. CASE /\ busy' = busy
             /\ \A y \in Rounds : round'[y].full = round[y].full
    BY <2>1
  <2>2. ASSUME NEW i \in Items,
               Pass(x, i) \/ Call(x, i) \/ \E ok \in BOOLEAN : Answer(x, i, ok)
        PROVE  FullRoundsExclusive'
    <3>1. busy' = busy /\ \A y \in Rounds : round'[y].full = round[y].full
      BY <2>2 DEF Pass, Call, Answer, Round
    <3> QED  BY <3>1, <2>1
  <2>3. CASE End(x)  BY <2>3 DEF End
  <2> QED  BY <1>3, <2>2, <2>3 DEF RoundStep
<1>4. ASSUME NEW m \in Manual, CheckAll(m) PROVE FullRoundsExclusive'
  <2>1. CASE kind = "quota"  BY <1>4, <2>1 DEF CheckAll
  <2>2. CASE kind # "quota"
    <3>1. busy' = busy  BY <1>4, <2>2 DEF CheckAll
    <3>2. \A y \in Rounds : y # m => round'[y] = round[y]  BY <1>4, <2>2 DEF CheckAll
    <3>3. ~round[m].full  BY <1>4 DEF CheckAll
    <3>4. round'[m].full = (kind = "quota")  BY <1>4 DEF CheckAll
    <3> QED  BY <3>1, <3>2, <3>3, <3>4, <2>2
  <2> QED  BY <2>1, <2>2
<1>5. ASSUME NEW m \in Manual, NEW i \in Items, CheckOne(m, i) PROVE FullRoundsExclusive'
  BY <1>5 DEF CheckOne
<1>6. CASE Crash  BY <1>6 DEF Crash
<1>7. ASSUME \/ UNCHANGED vars \/ CatchUp \/ LeaveOut \/ ListFails \/ Plan \/ Tick
             \/ Start \/ \E i \in Items : Edit(i)
      PROVE  UNCHANGED <<busy, round>>
  BY <1>7 DEF vars, CatchUp, LeaveOut, ListFails, Plan, Tick, Start, Edit
<1> QED
  BY <1>1, <1>2, <1>3, <1>4, <1>5, <1>6, <1>7 DEF Next, LoopStep, Environment

\* The loop and its round begin and end together.
LEMMA OwnerStep == Inv /\ [Next]_vars => OwnerInv'
<1> SUFFICES ASSUME Inv, [Next]_vars PROVE OwnerInv'  OBVIOUS
<1> USE DEF Inv, TypeOK, OwnerInv, Rounds
<1>1. ASSUME UNCHANGED <<kind, round>>,
             (loop.stage # "run" /\ loop'.stage # "run") \/ UNCHANGED loop
      PROVE  OwnerInv'
  BY <1>1
<1>2. CASE UNCHANGED vars \/ Tick \/ \E i \in Items : Edit(i)
  BY <1>1, <1>2 DEF vars, Tick, Edit
<1>3. CASE CatchUp \/ LeaveOut \/ ListFails \/ Plan \/ Start
  BY <1>1, <1>3 DEF CatchUp, LeaveOut, ListFails, Due, Plan, Start, Enter, Loop
<1>4. CASE RunAuto
  <2>1. round'[Daily] # NoRound /\ loop'.stage = "run"
    BY <1>4, RoundTypes DEF RunAuto, Enter, Loop
  <2> QED  BY <1>4, <2>1, DailyAssumption DEF RunAuto
<1>5. ASSUME NEW x \in Rounds, RoundStep(x) PROVE OwnerInv'
  <2>1. ASSUME NEW i \in Items,
               Pass(x, i) \/ Call(x, i) \/ \E ok \in BOOLEAN : Answer(x, i, ok)
        PROVE  OwnerInv'
    <3>1. round[x] # NoRound  BY <2>1 DEF Pass, Call, Answer, IsNext, NoRound
    <3>2. round'[x].stage \in {"next", "call"} /\ round'[x].full = round[x].full
      BY <2>1, <3>1 DEF Pass, Call, Answer, IsNext, Round
    <3>3. \A y \in Rounds \ {x} : round'[y] = round[y]
      BY <2>1 DEF Pass, Call, Answer
    <3>4. round'[x] # NoRound  BY <3>2 DEF NoRound
    <3> QED  BY <2>1, <3>1, <3>2, <3>3, <3>4 DEF Pass, Call, Answer
  <2>2. CASE End(x)
    <3>1. CASE x = Daily
      BY <2>2, <3>1, DailyAssumption DEF End, Enter, Loop
    <3>2. CASE x \in Manual
      BY <2>2, <3>2, DailyAssumption DEF End, NoRound
    <3> QED  BY <3>1, <3>2
  <2> QED  BY <1>5, <2>1, <2>2 DEF RoundStep
<1>6. ASSUME NEW m \in Manual, CheckAll(m) PROVE OwnerInv'
  BY <1>6, DailyAssumption DEF CheckAll, Over
<1>7. ASSUME NEW m \in Manual, NEW i \in Items, CheckOne(m, i) PROVE OwnerInv'
  BY <1>7, DailyAssumption DEF CheckOne, Over
<1>8. CASE Crash
  BY <1>8 DEF Crash, Enter, Loop, NoRound
<1> QED
  BY <1>2, <1>3, <1>4, <1>5, <1>6, <1>7, <1>8 DEF Next, LoopStep, Environment

\* Nothing that was usable all day drops out of the round untried.
LEMMA ServedStep == Inv /\ [Next]_vars => ServedInv'
<1> SUFFICES ASSUME Inv, [Next]_vars PROVE ServedInv'  OBVIOUS
<1> USE DEF Inv, TypeOK, ServedInv, Rounds, history
<1>1. CASE UNCHANGED vars  BY <1>1 DEF vars
<1>2. CASE CatchUp \/ ListFails  BY <1>2 DEF CatchUp, ListFails, Enter, Loop
<1>3. CASE RunAuto  BY <1>3 DEF RunAuto, Enter, Loop, Over
<1>4. CASE LeaveOut
  <2>1. kind = "quota"
    <3>1. PICK x \in Rounds : round[x].full
      BY <1>4 DEF LeaveOut, FullRoundsExclusive
    <3>2. x # Daily
      BY <1>4, <3>1 DEF LeaveOut, Due, OwnerInv, NoRound
    <3> QED  BY <3>1, <3>2, DailyAssumption DEF OwnerInv
  <2> QED  BY <1>4, <2>1 DEF LeaveOut, Enter, Loop
<1>5. CASE Plan  BY <1>5 DEF Plan
<1>6. ASSUME NEW m \in Manual, CheckAll(m) \/ \E i \in Items : CheckOne(m, i) PROVE ServedInv'
  <2>1. round'[Daily] = round[Daily]  BY <1>6, DailyAssumption DEF CheckAll, CheckOne
  <2>2. UNCHANGED <<kind, usable, loop, steady, tried, ran, skipped>>
    BY <1>6 DEF CheckAll, CheckOne
  <2> QED  BY <2>1, <2>2
<1>7. ASSUME NEW x \in Manual, RoundStep(x) PROVE ServedInv'
  <2>1. round'[Daily] = round[Daily]
    BY <1>7, DailyAssumption DEF RoundStep, Pass, Call, Answer, End
  <2>2. UNCHANGED <<kind, usable, loop, steady, ran, skipped>> /\ tried \subseteq tried'
    BY <1>7, DailyAssumption DEF RoundStep, Pass, Call, Answer, End
  <2> QED  BY <2>1, <2>2
<1>8. CASE RoundStep(Daily)
  <2> USE DEF IsNext, OwnerInv
  <2>1. CASE End(Daily)
    BY <2>1 DEF End, Enter, Loop, NoRound
  <2>2. ASSUME NEW i \in Items, Pass(Daily, i) PROVE ServedInv'
    <3>1. round[Daily] \in Round  BY <2>2 DEF Pass, NoRound
    <3>2. round'[Daily].stage = "next" /\ round'[Daily].todo = round[Daily].todo \ {i}
      BY <2>2, <3>1 DEF Pass, Round
    <3> QED  BY <2>2, <3>2 DEF Pass
  <2>3. ASSUME NEW i \in Items, Call(Daily, i) PROVE ServedInv'
    <3>1. round[Daily] \in Round  BY <2>3 DEF Call, NoRound
    <3>2. round'[Daily].todo = round[Daily].todo  BY <2>3, <3>1 DEF Call, Round
    <3>3. \A j \in round[Daily].todo : (\A k \in round[Daily].todo : j <= k) => j = i
      BY <2>3, <3>1, DailyAssumption DEF Call, Round
    <3> QED  BY <2>3, <3>2, <3>3 DEF Call
  <2>4. ASSUME NEW i \in Items, NEW ok \in BOOLEAN, Answer(Daily, i, ok) PROVE ServedInv'
    <3>1. round[Daily] \in Round  BY <2>4 DEF Answer, NoRound
    <3>2. round'[Daily].stage = "next" /\ round'[Daily].todo = round[Daily].todo \ {i}
      BY <2>4, <3>1 DEF Answer, Round
    <3>3. loop.stage = "run" /\ ran => i \in tried  BY <2>4 DEF Answer
    <3> QED  BY <2>4, <3>2, <3>3 DEF Answer
  <2> QED  BY <1>8, <2>1, <2>2, <2>3, <2>4 DEF RoundStep
<1>9. ASSUME NEW i \in Items, Edit(i) PROVE ServedInv'  BY <1>9 DEF Edit
<1>10. CASE Tick
  <2>1. CASE (now + 1) % Length = 0  BY <1>10, <2>1 DEF Tick
  <2>2. CASE (now + 1) % Length # 0  BY <1>10, <2>2 DEF Tick
  <2> QED  BY <2>1, <2>2
<1>11. CASE Crash  BY <1>11 DEF Crash, Enter, Loop
<1>12. CASE Start  BY <1>12 DEF Start, Enter, Loop
<1> QED
  BY <1>1, <1>2, <1>3, <1>4, <1>5, <1>6, <1>7, <1>8, <1>9, <1>10, <1>11, <1>12
  DEF Next, LoopStep, Environment

\* The inductive invariant of both loops and their rounds (runCheckinAuto,
\* runQuotaAutoRefresh, handleCheckAllQuotas).
THEOREM DailyInvariant == Spec => []Inv
<1>1. Init => Inv  BY InitInv
<1>2. Inv /\ [Next]_vars => Inv'
  BY TypeStep, ExclusiveStep, OwnerStep, ServedStep DEF Inv
<1> QED  BY <1>1, <1>2, PTL DEF Spec

\* Every variable stays in its range, whatever the numbers of items, requests
\* and ticks (checkinAutoLoop, quotaAutoRefreshLoop and their rounds).
THEOREM DailyTypes == Spec => []TypeOK
<1>1. Inv => TypeOK  BY DEF Inv
<1> QED  BY DailyInvariant, <1>1, PTL

\* However many requests of the administrator compete with the loop, one round
\* at a time has the lock, and a lock that is taken has its round
\* (quotaChecking, checkinRunning).
THEOREM OneFullRound == Spec => []FullRoundsExclusive
<1>1. Inv => FullRoundsExclusive  BY DEF Inv
<1> QED  BY DailyInvariant, <1>1, PTL

\* Whatever happens to the items, the lock and the process, the loop puts off
\* its work to another day only for the reasons the code has
\* (catchUpCheckin, catchUpQuotaRefresh, nextQuotaRefreshTime).
THEOREM DayServed == Spec => DayServedBeforeSleep
<1> DEFINE Slept ==
      (loop.stage = "plan" /\ loop'.stage = "sleep" /\ loop'.wake >= Midnight + Length)
      => \/ steady \subseteq tried
         \/ skipped = "done"
         \/ skipped = "busy" /\ kind = "quota"
         \/ skipped = "unlisted"
         \/ skipped = "no" /\ ~ran /\ now - Midnight >= Buffer
<1>1. Inv /\ [Next]_vars => [Slept]_vars
  <2> SUFFICES ASSUME Inv, [Next]_vars,
                      loop.stage = "plan", loop'.stage = "sleep",
                      loop'.wake >= Midnight + Length
               PROVE  Slept
    OBVIOUS
  <2>1. CASE Plan
    <3>1. now \in Nat /\ Midnight \in Nat  BY MidnightNat DEF Inv, TypeOK
    <3>2. loop'.wake = NextQuotaRefreshTime  BY <2>1 DEF Plan
    <3>3. now - Midnight >= Buffer
      BY <3>1, <3>2, DailyAssumption DEF NextQuotaRefreshTime
    <3> QED  BY <3>3 DEF Inv, ServedInv
  <2>2. CASE ~Plan
    <3>1. UNCHANGED loop \/ loop'.stage # "sleep"
      BY <2>2 DEF Next, LoopStep, Environment, RoundStep, vars, CatchUp, RunAuto, LeaveOut,
                  ListFails, Due, Pass, Call, Answer, End, CheckAll, CheckOne, Edit, Tick, Crash, Start,
                  Enter, Inv, TypeOK, Loop
    <3> QED  BY <3>1
  <2> QED  BY <2>1, <2>2
<1> QED  BY DailyInvariant, <1>1, PTL DEF Spec, DayServedBeforeSleep

-----------------------------------------------------------------------------
(* The check-in of one account.                                            *)

\* The way of a web check-in up to the day's claim and from there to the mark.
BeforeClaim(x) == \/ x.stage \in {"credential", "login", "daily", "error"}
                  \/ x.stage = "solve" /\ x.goal # "extra"
AfterClaim(x) == \/ x.stage \in {"me", "extra", "mark"}
                 \/ x.stage = "solve" /\ x.goal = "extra"
Closing(x) == x.web /\ x.stage \in {"quota", "fetch", "save", "status"}

\* What one run knows is what the site has granted to it: nothing before the
\* day's claim, and the day's package after it unless a failure is noted.
ClaimInv(x) ==
  /\ x.stage \in {"login", "daily", "extra"} => x.cap = "fresh"
  /\ x.stage = "credential" => x.goal = "login"
  /\ x.stage \in {"me", "extra"} => x.goal = "extra"
  /\ AfterClaim(x) \/ x.stage = "status" => x.web
  /\ AfterClaim(x) \/ x.stage \in {"keep", "remain"} => asked
  /\ BeforeClaim(x) => x.got = {}
  /\ x.won \subseteq x.got
  /\ x.amount => DailyPackage \in x.got
  /\ AfterClaim(x) \/ Closing(x) => x.lost \/ DailyPackage \in x.got

RunInv == \A r \in Runs : run[r] # NoRun => ClaimInv(run[r])

\* A run that has had the account to itself still has, and what it was granted
\* and is not used up is on the list it fetched, then in the row.
ShownInv ==
  \A r \in Runs :
    run[r] # NoRun /\ run[r].alone =>
      /\ \A x \in Runs \ {r} : run[x] = NoRun
      /\ At(r, "save") => run[r].got \cap left \subseteq run[r].list
      /\ run[r].kept =>
           /\ At(r, "status")
           /\ row # NoRow => run[r].got \cap left \subseteq row.snapshot

\* A row is no missing row, and a run no missing run.
LEMMA RunsAndRows ==
  /\ \A x \in Run : x # NoRun
  /\ \A x \in Row : x # NoRow
BY DEF Run, Stages, NoRun, Row, Passwords, NoRow

\* A run that has come to a stage is one.
LEMMA Running ==
  ASSUME CheckinTypeOK, NEW r \in Runs, run[r].stage \in Stages
  PROVE  run[r] \in Run
BY DEF CheckinTypeOK, NoRun, Stages

\* The packages of the extra claims are packages.
LEMMA ExtraIsKind ==
  \A i \in DOMAIN Extras : Extras[i] \in ExtraKinds /\ Extras[i] \in Packages
BY DEF ExtraKinds, Packages

\* A run that begins.
LEMMA NewRunType ==
  ASSUME NEW stage \in {"credential", "quota", "packages"}
  PROVE  NewRun(stage) \in Run
BY DEF NewRun, Run, Stages, Passwords

-----------------------------------------------------------------------------
(* Types.                                                                  *)

LEMMA InitCheckin == CheckinInit => CheckinTypeOK
<1> SUFFICES ASSUME CheckinInit PROVE CheckinTypeOK
  OBVIOUS
<1>1. row \in Row
  <2>1. PICK password \in Passwords :
          row = [password |-> password, usable |-> TRUE, marked |-> FALSE,
                 snapshot |-> {}, status |-> "none"]
    BY DEF CheckinInit
  <2> QED  BY <2>1 DEF Row
<1> QED  BY <1>1 DEF CheckinInit, CheckinTypeOK

LEMMA EnterType ==
  ASSUME CheckinTypeOK, NEW r \in Runs, NEW stage \in {"credential", "quota", "packages"},
         StartRun(r, stage)
  PROVE  run' \in [Runs -> Run \cup {NoRun}]
<1>1. NewRun(stage) \in Run
  BY NewRunType
<1>2. ASSUME NEW x \in Runs, run[x] # NoRun
      PROVE  [run[x] EXCEPT !.alone = FALSE] \in Run
  BY <1>2 DEF CheckinTypeOK, Run
<1> QED  BY <1>1, <1>2 DEF StartRun

\* The end of an extra claim.
LEMMA ExtraType ==
  ASSUME CheckinTypeOK, NEW r \in Runs, run[r] \in Run, NEW i \in DOMAIN Extras,
         NEW won \in SUBSET Packages, NEW lost \in BOOLEAN, NEW got \in SUBSET Packages,
         ExtraOver(r, i, won, lost, got)
  PROVE  run' \in [Runs -> Run \cup {NoRun}]
<1> DEFINE next == NextExtra(run[r].todo \ {i})
<1>1. next \in {"mark", "solve"}
  BY DEF NextExtra
<1>2. run' = [run EXCEPT ![r].stage = next, ![r].cap = "spent",
                         ![r].todo = @ \ {i}, ![r].won = @ \cup won,
                         ![r].lost = @ \/ lost, ![r].got = @ \cup got]
  BY DEF ExtraOver
<1> HIDE DEF next
<1>3. (run[r].lost \/ lost) \in BOOLEAN
  OBVIOUS
<1>4. [run[r] EXCEPT !.stage = next, !.cap = "spent", !.todo = @ \ {i},
                     !.won = @ \cup won, !.lost = @ \/ lost,
                     !.got = @ \cup got] \in Run
  BY <1>1, <1>3 DEF Run, Stages
<1> QED  BY <1>2, <1>4 DEF CheckinTypeOK

\* The steps between the site and the program.
LEMMA SiteType ==
  ASSUME CheckinTypeOK, NEW r \in Runs,
         \/ Credential(r) \/ NoService(r) \/ Solve(r)
         \/ Unsolved(r) \/ SiteStep(r)
  PROVE  CheckinTypeOK'
<1>0. \A todo : NextExtra(todo) \in {"mark", "solve"}
  BY DEF NextExtra
<1>1. CASE NoService(r) \/ (Credential(r) /\ row = NoRow)
  BY <1>1 DEF CheckinTypeOK, NoService, Credential, Leave
<1>2. CASE Credential(r) /\ row # NoRow
  <2>1. run[r] \in Run /\ row.password \in Passwords
    BY <1>2, Running DEF Credential, At, Stages, CheckinTypeOK, Row
  <2> QED  BY <1>2, <2>1 DEF CheckinTypeOK, Credential, Run, Stages
<1>3. CASE Solve(r)
  <2>1. run[r] \in Run
    BY <1>3, Running DEF Solve, At, Stages
  <2> QED  BY <1>3, <2>1 DEF CheckinTypeOK, Solve, Run, Stages
<1>4. CASE Unsolved(r)
  <2>1. run[r] \in Run
    BY <1>4, Running DEF Unsolved, At, Stages
  <2>2. CASE run[r].goal = "extra"
    <3>1. PICK i \in DOMAIN Extras :
            run' = [run EXCEPT ![r].stage = NextExtra(run[r].todo \ {i}),
                               ![r].todo = @ \ {i}, ![r].lost = TRUE]
      BY <1>4, <2>2 DEF Unsolved
    <3>2. [run[r] EXCEPT !.stage = NextExtra(run[r].todo \ {i}),
                         !.todo = @ \ {i}, !.lost = TRUE] \in Run
      BY <1>0, <2>1 DEF Run, Stages
    <3>3. run' \in [Runs -> Run \cup {NoRun}]
      BY <3>1, <3>2 DEF CheckinTypeOK
    <3> QED  BY <1>4, <3>3 DEF Unsolved, CheckinTypeOK
  <2>3. CASE run[r].goal # "extra"
    BY <1>4, <2>1, <2>3 DEF CheckinTypeOK, Unsolved, Go, Run, Stages
  <2> QED  BY <2>2, <2>3
<1>5. ASSUME NEW ok \in BOOLEAN, Login(r, ok) PROVE CheckinTypeOK'
  <2>1. run[r] \in Run
    BY <1>5, Running DEF Login, At, Stages
  <2> DEFINE next == IF ok THEN "solve" ELSE "error"
  <2>2. [run[r] EXCEPT !.stage = next, !.password = "none", !.cap = "spent",
                       !.goal = "daily"] \in Run
    BY <2>1 DEF Run, Stages, Passwords
  <2>3. run' = [run EXCEPT ![r].stage = next, ![r].password = "none",
                           ![r].cap = "spent", ![r].goal = "daily"]
    BY <1>5 DEF Login
  <2> HIDE DEF next
  <2>4. run' \in [Runs -> Run \cup {NoRun}]
    BY <2>2, <2>3 DEF CheckinTypeOK
  <2> QED  BY <1>5, <2>4 DEF Login, CheckinTypeOK
<1>6. ASSUME NEW amount \in BOOLEAN, NEW arrives \in BOOLEAN,
             DailyGranted(r, amount, arrives)
      PROVE  CheckinTypeOK'
  <2>1. run[r] \in Run
    BY <1>6, Running DEF DailyGranted, At, Stages
  <2> QED  BY <1>6, <2>1 DEF CheckinTypeOK, DailyGranted, Run, Stages,
                             Packages
<1>7. CASE DailyRefused(r)
  <2>1. run[r] \in Run
    BY <1>7, Running DEF DailyRefused, At, Stages
  <2> QED  BY <1>7, <2>1 DEF CheckinTypeOK, DailyRefused, Run, Stages
<1>8. CASE Me(r) \/ NoMe(r)
  <2>1. run[r] \in Run
    BY <1>8, Running DEF Me, NoMe, At, Stages
  <2> QED  BY <1>8, <2>1 DEF CheckinTypeOK, Me, NoMe, NextExtra, Go,
                             Run, Stages
<1>9. ASSUME NEW i \in DOMAIN Extras, NEW arrives \in BOOLEAN,
             ExtraGranted(r, i, arrives)
      PROVE  CheckinTypeOK'
  <2>1. run[r] \in Run
    BY <1>9, Running DEF ExtraGranted, At, Stages
  <2>2. run' \in [Runs -> Run \cup {NoRun}]
    <3>1. /\ Extras[i] \in Packages
          /\ ExtraOver(r, i, IF arrives THEN {Extras[i]} ELSE {}, ~arrives,
                           {Extras[i]})
      BY <1>9, ExtraIsKind DEF ExtraGranted
    <3> QED  BY <2>1, <3>1, ExtraType
  <2> QED  BY <1>9, <2>2, ExtraIsKind DEF CheckinTypeOK, ExtraGranted
<1>10. ASSUME NEW i \in DOMAIN Extras, ExtraRefused(r, i) PROVE CheckinTypeOK'
  <2>1. run[r] \in Run
    BY <1>10, Running DEF ExtraRefused, At, Stages
  <2>2. ExtraOver(r, i, {}, TRUE, {})
    BY <1>10 DEF ExtraRefused
  <2>3. {} \in SUBSET Packages /\ TRUE \in BOOLEAN
    OBVIOUS
  <2>4. run' \in [Runs -> Run \cup {NoRun}]
    BY <2>1, <2>2, <2>3, ExtraType
  <2> QED  BY <1>10, <2>4 DEF CheckinTypeOK, ExtraRefused
<1> QED  BY <1>1, <1>2, <1>3, <1>4, <1>5, <1>6, <1>7, <1>8, <1>9, <1>10 DEF SiteStep

\* The steps between the program and its database, and the packages of the
\* gateway.
LEMMA StoreType ==
  ASSUME CheckinTypeOK, NEW r \in Runs,
         StoreStep(r) \/ ReadAccount(r) \/ Fetch(r) \/ NoFetch(r)
  PROVE  CheckinTypeOK'
<1>1. ASSUME NEW ok \in BOOLEAN,
             \/ Mark(r, ok) \/ Remain(r, ok)
             \/ Keep(r, ok) \/ Save(r, ok)
      PROVE  CheckinTypeOK'
  <2>1. run[r] \in Run
    BY <1>1, Running DEF Mark, Remain, Keep, Save, At,
                         Stages
  <2>2. row' \in Row \cup {NoRow}
    BY <1>1, <2>1
       DEF Mark, Remain, Keep, Save, Stored, SnapshotRow,
           CheckinTypeOK, Row, Run
  <2>3. run' \in [Runs -> Run \cup {NoRun}]
    BY <1>1, <2>1 DEF Mark, Remain, Keep, Save, Go, Leave,
                      CheckinTypeOK, Run, Stages
  <2> QED  BY <1>1, <2>2, <2>3 DEF Mark, Remain, Keep, Save,
                                   CheckinTypeOK
<1>2. ASSUME NEW ok \in BOOLEAN, WriteStatus(r, ok) \/ WriteError(r, ok)
      PROVE  CheckinTypeOK'
  <2>1. run[r] \in Run
    BY <1>2, Running DEF WriteStatus, WriteError, At, Stages
  <2>2. row' \in Row \cup {NoRow}
    BY <1>2 DEF WriteStatus, WriteError, Stored, StatusOf,
                CheckinTypeOK, Row
  <2>3. run' \in [Runs -> Run \cup {NoRun}]
    BY <1>2 DEF WriteStatus, WriteError, Leave, CheckinTypeOK
  <2> QED  BY <1>2, <2>1, <2>2, <2>3 DEF WriteStatus, WriteError,
                                         CheckinTypeOK, Run
<1>3. CASE ReadAccount(r) \/ Fetch(r) \/ NoFetch(r)
  <2>1. run[r] \in Run
    BY <1>3, Running DEF ReadAccount, Fetch, NoFetch, At, Stages
  <2>2. run' \in [Runs -> Run \cup {NoRun}]
    BY <1>3, <2>1
       DEF ReadAccount, Fetch, NoFetch, QuotaOver, Go,
           Leave, At, CheckinTypeOK, Run, Stages
  <2> QED  BY <1>3, <2>2 DEF ReadAccount, Fetch, NoFetch, At,
                             CheckinTypeOK
<1> QED  BY <1>1, <1>2, <1>3 DEF StoreStep

\* The rest of the server, the users and a crash.
LEMMA EnvironmentTypes == ASSUME CheckinTypeOK, AccountEnvironment PROVE CheckinTypeOK'
<1>1. ASSUME NEW package \in Packages, Spend(package) PROVE CheckinTypeOK'
  BY <1>1 DEF Spend, CheckinTypeOK
<1>2. ASSUME NEW new \in Row, EditAccount(new) PROVE CheckinTypeOK'
  BY <1>2 DEF EditAccount, CheckinTypeOK
<1>3. CASE DeleteAccount \/ CrashCheckins
  BY <1>3 DEF DeleteAccount, CrashCheckins, CheckinTypeOK
<1>4. ASSUME row # NoRow
      PROVE  /\ \A password \in Passwords :
                  [row EXCEPT !.password = password] \in Row
             /\ [row EXCEPT !.usable = ~@] \in Row
  BY <1>4 DEF CheckinTypeOK, Row
<1>5. \A new : EditAccount(new) => row # NoRow
  BY DEF EditAccount
<1> QED  BY <1>1, <1>2, <1>3, <1>4, <1>5 DEF AccountEnvironment

LEMMA CheckinTypeStep == CheckinTypeOK /\ [CheckinNext]_checkinVars => CheckinTypeOK'
<1> SUFFICES ASSUME CheckinTypeOK, [CheckinNext]_checkinVars PROVE CheckinTypeOK'
  OBVIOUS
<1>1. ASSUME NEW r \in Runs, CheckIn(r) \/ Refresh(r) PROVE CheckinTypeOK'
  <2>1. PICK stage \in {"credential", "quota", "packages"} : StartRun(r, stage)
    BY <1>1 DEF CheckIn, Refresh
  <2>2. run' \in [Runs -> Run \cup {NoRun}]
    BY <2>1, EnterType
  <2> QED  BY <1>1, <2>2 DEF CheckIn, Refresh, CheckinTypeOK
<1>2. ASSUME NEW r \in Runs, RunStep(r) PROVE CheckinTypeOK'
  BY <1>2, SiteType, StoreType DEF RunStep
<1>3. CASE UNCHANGED checkinVars
  BY <1>3 DEF checkinVars, CheckinTypeOK
<1> QED  BY <1>1, <1>2, <1>3, EnvironmentTypes DEF CheckinNext

\* Types, for every number of runs and packages and any bound (checkin_auto.go,
\* webcheckin.go, account_quota.go): in particular a run that finds its account
\* gone leaves no half-read password behind.
THEOREM CheckinTypes == CheckinSpec => []CheckinTypeOK
BY InitCheckin, CheckinTypeStep, PTL DEF CheckinSpec

-----------------------------------------------------------------------------
(* What a run knows.                                                       *)

\* A step of one run is no step of another, and what the site was asked for
\* stays so.
LEMMA OthersRun ==
  ASSUME CheckinTypeOK, NEW r \in Runs, RunStep(r)
  PROVE  /\ \A x \in Runs \ {r} : run'[x] = run[x]
         /\ asked => asked'
         /\ run[r] \in Run /\ run[r] # NoRun
<1> USE DEF CheckinTypeOK
<1>1. CASE Credential(r) \/ NoService(r) \/ Solve(r) \/ Unsolved(r)
  BY <1>1, Running, RunsAndRows
     DEF Credential, NoService, Solve, Unsolved, Go, Leave,
         At, Stages
<1>2. CASE SiteStep(r)
  <2>1. run[r].stage \in Stages
    BY <1>2 DEF SiteStep, Login, DailyGranted, DailyRefused,
                Me, NoMe,
                ExtraGranted, ExtraRefused, At, Stages
  <2>2. ASSUME NEW i \in DOMAIN Extras,
               \/ \E arrives \in BOOLEAN : ExtraGranted(r, i, arrives)
               \/ ExtraRefused(r, i)
        PROVE  (\A x \in Runs \ {r} : run'[x] = run[x]) /\ asked' = asked
    BY <2>2 DEF ExtraGranted, ExtraRefused, ExtraOver
  <2>3. ASSUME \/ \E ok \in BOOLEAN : Login(r, ok)
               \/ \E amount, arrives \in BOOLEAN : DailyGranted(r, amount, arrives)
               \/ DailyRefused(r)
        PROVE  (\A x \in Runs \ {r} : run'[x] = run[x]) /\ (asked => asked')
    BY <2>3 DEF Login, DailyGranted, DailyRefused
  <2>4. ASSUME Me(r) \/ NoMe(r)
        PROVE  (\A x \in Runs \ {r} : run'[x] = run[x]) /\ asked' = asked
    BY <2>4 DEF Me, NoMe, Go
  <2> QED  BY <1>2, <2>1, <2>2, <2>3, <2>4, Running, RunsAndRows DEF SiteStep
<1>3. CASE StoreStep(r)
  <2>1. run[r].stage \in Stages
    BY <1>3 DEF StoreStep, Mark, WriteStatus, WriteError, Save,
                Keep, Remain,
                At, Stages
  <2>2. (\A x \in Runs \ {r} : run'[x] = run[x]) /\ asked' = asked
    BY <1>3 DEF StoreStep, Mark, WriteStatus, WriteError, Save,
                Keep, Remain,
                Go, Leave
  <2> QED  BY <2>1, <2>2, Running, RunsAndRows
<1>4. CASE ReadAccount(r) \/ Fetch(r) \/ NoFetch(r)
  BY <1>4, Running, RunsAndRows
     DEF ReadAccount, Fetch, NoFetch, QuotaOver, Go, Leave,
         At, Stages
<1> QED  BY <1>1, <1>2, <1>3, <1>4 DEF RunStep

\* A run keeps to what it knows: on the site ...
LEMMA SiteClaims ==
  ASSUME CheckinTypeOK, NEW r \in Runs, ClaimInv(run[r]),
         run[r] \in Run, run'[r] # NoRun,
         \/ Credential(r) \/ NoService(r) \/ Solve(r)
         \/ Unsolved(r) \/ SiteStep(r)
  PROVE  ClaimInv(run[r])'
<1> USE DEF CheckinTypeOK, ClaimInv, BeforeClaim, AfterClaim, Closing, Run,
            At, Go
<1>0. \A todo : NextExtra(todo) \in {"mark", "solve"}
  BY DEF NextExtra
<1>1. CASE Credential(r) \/ NoService(r)
  <2>1. /\ run[r].stage = "credential" /\ asked' = asked
        /\ run' = [run EXCEPT ![r].stage = "solve", ![r].password = row.password]
    BY <1>1 DEF Credential, NoService, Leave
  <2> QED  BY <2>1
<1>2. CASE Solve(r)
  BY <1>2 DEF Solve
<1>3. CASE Unsolved(r)
  <2>1. CASE run[r].goal = "extra"
    <3>1. PICK i \in DOMAIN Extras :
            run' = [run EXCEPT ![r].stage = NextExtra(run[r].todo \ {i}),
                               ![r].todo = @ \ {i}, ![r].lost = TRUE]
      BY <1>3, <2>1 DEF Unsolved
    <3> QED  BY <1>0, <1>3, <2>1, <3>1 DEF Unsolved
  <2>2. CASE run[r].goal # "extra"
    <3>1. /\ run[r].stage = "solve" /\ asked' = asked
          /\ run' = [run EXCEPT ![r].stage = "error"]
      BY <1>3, <2>2 DEF Unsolved
    <3> QED  BY <2>2, <3>1
  <2> QED  BY <2>1, <2>2
<1>4. ASSUME NEW ok \in BOOLEAN, Login(r, ok) PROVE ClaimInv(run[r])'
  BY <1>4 DEF Login
<1>5. ASSUME NEW amount \in BOOLEAN, NEW arrives \in BOOLEAN,
             DailyGranted(r, amount, arrives)
      PROVE  ClaimInv(run[r])'
  BY <1>5 DEF DailyGranted
<1>6. CASE DailyRefused(r)
  BY <1>6 DEF DailyRefused
<1>7. CASE Me(r) \/ NoMe(r)
  BY <1>0, <1>7 DEF Me, NoMe
<1>8. ASSUME NEW i \in DOMAIN Extras, NEW arrives \in BOOLEAN,
             ExtraGranted(r, i, arrives)
      PROVE  ClaimInv(run[r])'
  BY <1>0, <1>8 DEF ExtraGranted, ExtraOver
<1>9. ASSUME NEW i \in DOMAIN Extras, ExtraRefused(r, i) PROVE ClaimInv(run[r])'
  BY <1>0, <1>9 DEF ExtraRefused, ExtraOver
<1> QED  BY <1>1, <1>2, <1>3, <1>4, <1>5, <1>6, <1>7, <1>8, <1>9 DEF SiteStep

\* ... and after it.
LEMMA StoreClaims ==
  ASSUME CheckinTypeOK, NEW r \in Runs, ClaimInv(run[r]),
         run[r] \in Run, run'[r] # NoRun,
         StoreStep(r) \/ ReadAccount(r) \/ Fetch(r) \/ NoFetch(r)
  PROVE  ClaimInv(run[r])'
<1> USE DEF CheckinTypeOK, ClaimInv, BeforeClaim, AfterClaim, Closing, Run,
            At, Go
<1>1. ASSUME NEW ok \in BOOLEAN,
             Mark(r, ok) \/ WriteStatus(r, ok) \/ WriteError(r,
             ok) \/ Remain(r, ok)
      PROVE  ClaimInv(run[r])'
  BY <1>1 DEF Mark, WriteStatus, WriteError, Remain, Leave
<1>2. ASSUME NEW ok \in BOOLEAN, Save(r, ok) \/ Keep(r, ok)
      PROVE  ClaimInv(run[r])'
  BY <1>2 DEF Save, Keep, Leave
<1>3. CASE ReadAccount(r)
  BY <1>3 DEF ReadAccount, QuotaOver, Leave
<1>4. CASE NoFetch(r)
  BY <1>4 DEF NoFetch, QuotaOver, Leave
<1>5. CASE Fetch(r)
  BY <1>5 DEF Fetch
<1> QED  BY <1>1, <1>2, <1>3, <1>4, <1>5 DEF StoreStep

\* A run that begins knows nothing yet, and the others lose only their peace.
LEMMA EnterClaims ==
  ASSUME CheckinTypeOK, RunInv, NEW r \in Runs,
         NEW stage \in {"credential", "quota", "packages"},
         StartRun(r, stage), UNCHANGED asked
  PROVE  RunInv'
<1> SUFFICES ASSUME NEW x \in Runs, run'[x] # NoRun PROVE ClaimInv(run[x])'
  BY DEF RunInv
<1> USE DEF ClaimInv, BeforeClaim, AfterClaim, Closing
<1>1. CASE x = r
  <2>1. run'[x] = NewRun(stage)
    BY <1>1 DEF StartRun
  <2>2. /\ NewRun(stage).stage = stage /\ NewRun(stage).got = {}
        /\ NewRun(stage).won = {} /\ NewRun(stage).amount = FALSE
        /\ NewRun(stage).goal = "login"
        /\ NewRun(stage).web = (stage = "credential")
    BY DEF NewRun
  <2> QED  BY <2>1, <2>2
<1>2. CASE x # r
  <2>1. run[x] # NoRun /\ run'[x] = [run[x] EXCEPT !.alone = FALSE]
    BY <1>2 DEF StartRun
  <2>2. run[x] \in Run /\ ClaimInv(run[x])
    BY <2>1 DEF CheckinTypeOK, RunInv
  <2> QED  BY <2>1, <2>2 DEF Run
<1> QED  BY <1>1, <1>2

LEMMA ClaimStep == CheckinTypeOK /\ RunInv /\ [CheckinNext]_checkinVars => RunInv'
<1> SUFFICES ASSUME CheckinTypeOK, RunInv, [CheckinNext]_checkinVars PROVE RunInv'
  OBVIOUS
<1>1. ASSUME NEW r \in Runs, CheckIn(r) \/ Refresh(r) PROVE RunInv'
  <2>1. PICK stage \in {"credential", "quota", "packages"} : StartRun(r, stage)
    BY <1>1 DEF CheckIn, Refresh
  <2> QED  BY <1>1, <2>1, EnterClaims DEF CheckIn, Refresh
<1>2. ASSUME NEW r \in Runs, RunStep(r) PROVE RunInv'
  <2> SUFFICES ASSUME NEW x \in Runs, run'[x] # NoRun PROVE ClaimInv(run[x])'
    BY DEF RunInv
  <2>1. CASE x = r
    <3>1. run[r] \in Run /\ ClaimInv(run[r])
      BY <1>2, OthersRun DEF RunInv
    <3> QED  BY <1>2, <2>1, <3>1, SiteClaims, StoreClaims DEF RunStep
  <2>2. CASE x # r
    <3>1. run'[x] = run[x] /\ (asked => asked')
      BY <1>2, <2>2, OthersRun
    <3> QED  BY <3>1 DEF RunInv, ClaimInv, BeforeClaim, AfterClaim, Closing
  <2> QED  BY <2>1, <2>2
<1>3. CASE AccountEnvironment
  <2>1. asked' = asked /\ \A x \in Runs : run'[x] = run[x] \/ run'[x] = NoRun
    BY <1>3 DEF AccountEnvironment, Spend, EditAccount, DeleteAccount, CrashCheckins
  <2> QED  BY <2>1 DEF RunInv, ClaimInv, BeforeClaim, AfterClaim, Closing
<1>4. CASE UNCHANGED checkinVars
  BY <1>4 DEF checkinVars, RunInv, ClaimInv, BeforeClaim, AfterClaim, Closing
<1> QED  BY <1>1, <1>2, <1>3, <1>4 DEF CheckinNext

LEMMA InitClaims == CheckinInit => RunInv
BY DEF CheckinInit, RunInv

LEMMA ClaimsAlways == CheckinSpec => [](CheckinTypeOK /\ RunInv)
BY InitCheckin, CheckinTypeStep, InitClaims, ClaimStep, PTL DEF CheckinSpec

\* No call of the site is made with a cap-token that an earlier call has spent,
\* or with none, whatever fails on the way (Solve before every POST of
\* webcheckin.go).
THEOREM EveryCallHasItsToken == CheckinSpec => []CapTokenUsedOnce
<1>1. CheckinTypeOK /\ RunInv => CapTokenUsedOnce
  BY DEF CheckinTypeOK, RunInv, ClaimInv, CapTokenUsedOnce, NoRun
<1> QED  BY <1>1, ClaimsAlways, PTL

-----------------------------------------------------------------------------
(* What the row says.                                                      *)

\* A status is written from what the run knows; everything else that writes a
\* row keeps its status, and marks it for today only after asking the site.
LEMMA HonestStep ==
  ASSUME CheckinTypeOK, RunInv, StatusHonest, [CheckinNext]_checkinVars
  PROVE  StatusHonest'
<1> SUFFICES ASSUME row' # NoRow
             PROVE  /\ row'.status = "done" => truth' # {}
                    /\ row'.status = "error" => truth' = {}
                    /\ row'.marked => asked'
  BY DEF StatusHonest
<1> USE DEF CheckinTypeOK
\* Whoever leaves status, mark and history alone.
<1>1. CASE /\ row # NoRow /\ row'.status = row.status /\ row'.marked = row.marked
           /\ truth' = truth /\ (asked => asked')
  BY <1>1 DEF StatusHonest
<1>2. ASSUME NEW r \in Runs, NEW ok \in BOOLEAN, WriteStatus(r, ok)
      PROVE  /\ row'.status = "done" => truth' # {}
             /\ row'.status = "error" => truth' = {}
             /\ row'.marked => asked'
  <2>1. run[r] \in Run /\ ClaimInv(run[r]) /\ run[r].stage = "status"
    BY <1>2, Running, RunsAndRows DEF WriteStatus, At, Stages, RunInv
  <2>2. CASE ok /\ row # NoRow
    <3>1. /\ row' = [row EXCEPT !.status = StatusOf(r)]
          /\ truth' = run[r].got /\ asked' = asked
      BY <1>2, <2>2 DEF WriteStatus, Stored
    <3>2. StatusOf(r) = "done" => run[r].got # {}
      BY <2>1 DEF StatusOf, ClaimInv, Closing
    <3>3. StatusOf(r) \in {"done", "failed"}
      BY DEF StatusOf
    <3>4. row \in Row /\ row'.status = StatusOf(r) /\ row'.marked = row.marked
      BY <2>2, <3>1 DEF Row
    <3> QED  BY <2>2, <3>1, <3>2, <3>3, <3>4 DEF StatusHonest
  <2>3. CASE ~(ok /\ row # NoRow)
    BY <1>1, <1>2, <2>3 DEF WriteStatus, Stored
  <2> QED  BY <2>2, <2>3
<1>3. ASSUME NEW r \in Runs, NEW ok \in BOOLEAN, WriteError(r, ok)
      PROVE  /\ row'.status = "done" => truth' # {}
             /\ row'.status = "error" => truth' = {}
             /\ row'.marked => asked'
  <2>1. run[r] \in Run /\ ClaimInv(run[r]) /\ run[r].stage = "error"
    BY <1>3, Running, RunsAndRows DEF WriteError, At, Stages, RunInv
  <2>2. run[r].got = {}
    BY <2>1 DEF ClaimInv, BeforeClaim
  <2>3. CASE ok /\ row # NoRow
    <3>1. row' = [row EXCEPT !.status = "error"] /\ truth' = {} /\ asked' = asked
      BY <1>3, <2>2, <2>3 DEF WriteError, Stored
    <3> QED  BY <2>3, <3>1 DEF StatusHonest, Row
  <2>4. CASE ~(ok /\ row # NoRow)
    BY <1>1, <1>3, <2>4 DEF WriteError, Stored
  <2> QED  BY <2>3, <2>4
<1>4. ASSUME NEW r \in Runs, NEW ok \in BOOLEAN, Mark(r, ok) \/ Remain(r, ok)
      PROVE  /\ row'.status = "done" => truth' # {}
             /\ row'.status = "error" => truth' = {}
             /\ row'.marked => asked'
  <2>1. /\ run[r] \in Run /\ ClaimInv(run[r]) /\ run[r].stage \in {"mark", "remain"}
        /\ asked' = asked /\ truth' = truth /\ row # NoRow
        /\ row' = row \/ row' = [row EXCEPT !.marked = TRUE]
    BY <1>4, Running, RunsAndRows DEF Mark, Remain, Stored, At,
                                      Stages, RunInv
  <2>2. asked
    BY <2>1 DEF ClaimInv, AfterClaim
  <2>3. row'.status = row.status
    BY <2>1 DEF Row
  <2> QED  BY <2>1, <2>2, <2>3 DEF StatusHonest
<1>5. ASSUME NEW r \in Runs, NEW ok \in BOOLEAN, Save(r, ok) \/ Keep(r, ok)
      PROVE  /\ row'.status = "done" => truth' # {}
             /\ row'.status = "error" => truth' = {}
             /\ row'.marked => asked'
  <2>1. /\ asked' = asked /\ truth' = truth /\ row # NoRow
        /\ row' = row \/ row' = [row EXCEPT !.snapshot = run[r].list]
    BY <1>5 DEF Save, Keep, Stored, SnapshotRow
  <2>2. row'.status = row.status /\ row'.marked = row.marked
    BY <2>1 DEF Row
  <2> QED  BY <1>1, <2>1, <2>2
<1>6. ASSUME NEW r \in Runs, RunStep(r), ~StoreStep(r)
      PROVE  row' = row /\ truth' = truth /\ (asked => asked')
  <2>1. asked => asked'
    BY <1>6, OthersRun
  <2>2. row' = row /\ truth' = truth
    BY <1>6 DEF RunStep, Credential, NoService, Solve,
                Unsolved, SiteStep, Login,
                DailyGranted, DailyRefused, Me, NoMe,
                ExtraGranted, ExtraRefused,
                ReadAccount, Fetch, NoFetch
  <2> QED  BY <2>1, <2>2
<1>7. CASE AccountEnvironment
  <2>1. truth' = truth /\ asked' = asked /\ row # NoRow
    BY <1>7 DEF AccountEnvironment, Spend, EditAccount, DeleteAccount, CrashCheckins
  <2>2. \/ row' = row \/ row' = [row EXCEPT !.usable = ~@]
        \/ \E password \in Passwords : row' = [row EXCEPT !.password = password]
    BY <1>7 DEF AccountEnvironment, Spend, EditAccount, DeleteAccount, CrashCheckins
  <2>3. row'.status = row.status /\ row'.marked = row.marked
    BY <2>1, <2>2 DEF Row
  <2> QED  BY <1>1, <2>1, <2>3
<1>8. ASSUME NEW r \in Runs, CheckIn(r) \/ Refresh(r)
      PROVE  row' = row /\ truth' = truth /\ asked' = asked
  BY <1>8 DEF CheckIn, Refresh
<1>9. CASE UNCHANGED checkinVars
  BY <1>1, <1>9 DEF checkinVars
<1> QED  BY <1>1, <1>2, <1>3, <1>4, <1>5, <1>6, <1>7, <1>8, <1>9 DEF CheckinNext,
                                                                     StoreStep

\* "Checked in" is said only if the site has granted a package to that run, a
\* hard failure only if it has granted none, and the account counts as done for
\* the day only if the site was asked for the day's package, whatever fails and
\* whoever else checks in (webCheckinOne, dpopCheckinOne in checkin_auto.go).
THEOREM StatusIsHonest == CheckinSpec => []StatusHonest
<1>1. CheckinInit => StatusHonest
  BY DEF CheckinInit, StatusHonest
<1>2. CheckinTypeOK /\ RunInv /\ StatusHonest /\ [CheckinNext]_checkinVars
        => StatusHonest'
  BY HonestStep
<1> QED  BY <1>1, <1>2, ClaimsAlways, PTL DEF CheckinSpec

-----------------------------------------------------------------------------
(* What a check-in of its own shows.                                       *)

\* Only Fetch leads to a list to be saved, only Save keeps one, and after the
\* status there is nothing.
LEMMA Keeps ==
  ASSUME CheckinTypeOK, NEW r \in Runs, RunStep(r), run'[r] # NoRun
  PROVE  /\ run'[r].alone = run[r].alone /\ run[r].stage # "status"
         /\ \/ run'[r].kept = run[r].kept /\ run'[r].stage # "save"
            \/ /\ run'[r].kept = run[r].kept /\ run'[r].got = run[r].got
               /\ left' = left /\ run'[r].list = left
            \/ \E ok \in BOOLEAN : Save(r, ok)
<1> USE DEF CheckinTypeOK, At, Go, Run
<1>0. run[r] \in Run /\ \A todo : NextExtra(todo) \in {"mark", "solve"}
  BY OthersRun DEF NextExtra
<1> DEFINE Same == /\ run'[r].alone = run[r].alone /\ run[r].stage # "status"
                  /\ run'[r].kept = run[r].kept /\ run'[r].stage # "save"
<1>1. CASE Credential(r) \/ NoService(r)
  <2>1. /\ run[r].stage = "credential"
        /\ run' = [run EXCEPT ![r].stage = "solve", ![r].password = row.password]
    BY <1>1 DEF Credential, NoService, Leave
  <2> QED  BY <1>0, <2>1
<1>2. CASE Solve(r)
  BY <1>0, <1>2 DEF Solve
<1>3. CASE Unsolved(r)
  <2>1. CASE run[r].goal = "extra"
    <3>1. PICK i \in DOMAIN Extras :
            /\ run[r].stage = "solve"
            /\ run' = [run EXCEPT ![r].stage = NextExtra(run[r].todo \ {i}),
                                  ![r].todo = @ \ {i}, ![r].lost = TRUE]
      BY <1>3, <2>1 DEF Unsolved
    <3> QED  BY <1>0, <3>1
  <2>2. CASE run[r].goal # "extra"
    BY <1>0, <1>3, <2>2 DEF Unsolved
  <2> QED  BY <2>1, <2>2
<1>4. ASSUME NEW ok \in BOOLEAN, Login(r, ok) PROVE Same
  BY <1>0, <1>4 DEF Login
<1>5. ASSUME NEW amount \in BOOLEAN, NEW arrives \in BOOLEAN,
             DailyGranted(r, amount, arrives)
      PROVE  Same
  BY <1>0, <1>5 DEF DailyGranted
<1>6. CASE DailyRefused(r)
  BY <1>0, <1>6 DEF DailyRefused
<1>7. CASE Me(r) \/ NoMe(r)
  BY <1>0, <1>7 DEF Me, NoMe
<1>8. ASSUME NEW i \in DOMAIN Extras, NEW arrives \in BOOLEAN,
             ExtraGranted(r, i, arrives)
      PROVE  Same
  BY <1>0, <1>8 DEF ExtraGranted, ExtraOver
<1>9. ASSUME NEW i \in DOMAIN Extras, ExtraRefused(r, i) PROVE Same
  BY <1>0, <1>9 DEF ExtraRefused, ExtraOver
<1>10. ASSUME NEW ok \in BOOLEAN,
              \/ Mark(r, ok) \/ WriteStatus(r, ok) \/ WriteError(r, ok)
              \/ Keep(r, ok) \/ Remain(r, ok)
       PROVE  Same
  BY <1>0, <1>10 DEF Mark, WriteStatus, WriteError, Keep,
                     Remain, Leave
<1>11. CASE ReadAccount(r)
  BY <1>0, <1>11 DEF ReadAccount, QuotaOver, Leave
<1>12. CASE NoFetch(r)
  BY <1>0, <1>12 DEF NoFetch, QuotaOver, Leave
<1>13. CASE Fetch(r)
  BY <1>0, <1>13 DEF Fetch
<1>14. ASSUME NEW ok \in BOOLEAN, Save(r, ok)
       PROVE  run'[r].alone = run[r].alone /\ run[r].stage # "status"
  BY <1>0, <1>14 DEF Save, Leave
<1> QED  BY <1>1, <1>2, <1>3, <1>4, <1>5, <1>6, <1>7, <1>8, <1>9, <1>10, <1>11,
            <1>12, <1>13, <1>14 DEF RunStep, SiteStep, StoreStep

\* A run of its own that keeps its list has it in the row.
LEMMA ShownRunStep ==
  ASSUME CheckinTypeOK, ShownInv, NEW r \in Runs, RunStep(r)
  PROVE  ShownInv'
<1> SUFFICES ASSUME NEW x \in Runs, run'[x] # NoRun, run'[x].alone
             PROVE  /\ \A y \in Runs \ {x} : run'[y] = NoRun
                    /\ run'[x].stage = "save" =>
                         run'[x].got \cap left' \subseteq run'[x].list
                    /\ run'[x].kept =>
                         /\ run'[x].stage = "status"
                         /\ row' # NoRow =>
                              run'[x].got \cap left' \subseteq row'.snapshot
  BY DEF ShownInv, At
<1>1. /\ \A y \in Runs \ {r} : run'[y] = run[y]
      /\ run[r] \in Run /\ run[r] # NoRun
  BY OthersRun
<1>2. x = r
  BY <1>1 DEF ShownInv
<1>3. ~run[r].kept
  BY <1>1, <1>2, Keeps DEF ShownInv, At
<1>4. run[r].alone
  BY <1>2, Keeps
<1>5. \A y \in Runs \ {r} : run'[y] = NoRun
  BY <1>1, <1>4 DEF ShownInv
<1>6. CASE \E ok \in BOOLEAN : Save(r, ok)
  <2>1. PICK ok \in BOOLEAN : Save(r, ok)
    BY <1>6
  <2>2. /\ run'[r].stage = "status" /\ run'[r].kept = ok /\ left' = left
        /\ run'[r].got = run[r].got /\ run[r].stage = "save"
    BY <1>1, <1>2, <2>1 DEF Save, Leave, At, CheckinTypeOK, Run
  <2>3. run[r].got \cap left \subseteq run[r].list
    BY <1>1, <1>4, <2>2 DEF ShownInv, At
  <2>4. ok /\ row' # NoRow => row'.snapshot = run[r].list
    BY <2>1 DEF Save, Stored, SnapshotRow, CheckinTypeOK, Row
  <2> QED  BY <1>2, <1>5, <2>2, <2>3, <2>4
<1>7. CASE ~\E ok \in BOOLEAN : Save(r, ok)
  BY <1>2, <1>3, <1>5, <1>7, Keeps
<1> QED  BY <1>6, <1>7

\* A run that begins has the account to itself only if no other run has it.
LEMMA ShownEnter ==
  ASSUME CheckinTypeOK, ShownInv, NEW r \in Runs,
         NEW stage \in {"credential", "quota", "packages"},
         StartRun(r, stage)
  PROVE  ShownInv'
<1>1. ASSUME NEW x \in Runs, run'[x] # NoRun, run'[x].alone PROVE x = r
  <2> SUFFICES ASSUME x # r PROVE FALSE
    OBVIOUS
  <2>1. run[x] # NoRun /\ run'[x] = [run[x] EXCEPT !.alone = FALSE]
    BY <1>1 DEF StartRun
  <2> QED  BY <1>1, <2>1 DEF CheckinTypeOK, Run
<1>2. /\ run'[r] = NewRun(stage)
      /\ NewRun(stage).stage = stage /\ NewRun(stage).kept = FALSE
      /\ NewRun(stage).alone = (\A y \in Runs : run[y] = NoRun)
  BY DEF StartRun, NewRun
<1>3. (\A y \in Runs : run[y] = NoRun) => \A y \in Runs \ {r} : run'[y] = NoRun
  BY DEF StartRun
<1> QED  BY <1>1, <1>2, <1>3 DEF ShownInv, At

LEMMA ShownStep == CheckinTypeOK /\ ShownInv /\ [CheckinNext]_checkinVars => ShownInv'
<1> SUFFICES ASSUME CheckinTypeOK, ShownInv, [CheckinNext]_checkinVars PROVE ShownInv'
  OBVIOUS
<1>1. ASSUME NEW r \in Runs, CheckIn(r) \/ Refresh(r) PROVE ShownInv'
  <2>1. PICK stage \in {"credential", "quota", "packages"} : StartRun(r, stage)
    BY <1>1 DEF CheckIn, Refresh
  <2> QED  BY <2>1, ShownEnter
<1>2. ASSUME NEW r \in Runs, RunStep(r) PROVE ShownInv'
  BY <1>2, ShownRunStep
<1>3. CASE AccountEnvironment
  <2>1. CASE CrashCheckins
    BY <2>1 DEF CrashCheckins, ShownInv
  <2>2. CASE ~CrashCheckins
    <3>1. run' = run /\ left' \subseteq left
      BY <1>3, <2>2 DEF AccountEnvironment, Spend, EditAccount, DeleteAccount
    <3>2. row' # NoRow => /\ row # NoRow
                          /\ \/ row' = row \/ row' = [row EXCEPT !.usable = ~@]
                             \/ \E password \in Passwords :
                                  row' = [row EXCEPT !.password = password]
      BY <1>3, <2>2 DEF AccountEnvironment, Spend, EditAccount, DeleteAccount
    <3>3. row' # NoRow => row # NoRow /\ row'.snapshot = row.snapshot
      BY <3>2 DEF CheckinTypeOK, Row
    <3> QED  BY <3>1, <3>3 DEF ShownInv, At
  <2> QED  BY <2>1, <2>2
<1>4. CASE UNCHANGED checkinVars
  BY <1>4 DEF checkinVars, ShownInv, At
<1> QED  BY <1>1, <1>2, <1>3, <1>4 DEF CheckinNext

\* A check-in that had the account to itself and could store the packages shows,
\* when it writes its status, every package it was granted that is not used up
\* (the order of the calls in webCheckinOne).
THEOREM ShowsWhatItClaimed == CheckinSpec => GrantedIsShown
<1>1. CheckinInit => ShownInv
  BY DEF CheckinInit, ShownInv
<1>2. ShownInv /\ [CheckinNext]_checkinVars =>
        [\A r \in Runs :
           At(r, "status") /\ run'[r].stage # "status" /\ row # NoRow
           /\ run[r].alone /\ run[r].kept
           => run[r].got \cap left \subseteq row.snapshot]_checkinVars
  BY DEF ShownInv, At, NoRun
<1> QED  BY <1>1, <1>2, ShownStep, CheckinTypes, PTL DEF CheckinSpec,
                                                         GrantedIsShown
=============================================================================
