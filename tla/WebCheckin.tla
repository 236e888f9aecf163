----------------------------- MODULE WebCheckin -----------------------------
(***************************************************************************)
(* The check-in of one account (server/checkin_auto.go), step by step: the *)
(* web check-in of an account with a password (webcheckin/webcheckin.go,   *)
(* capcat/capcat.go), the older check-in of an account without one, and    *)
(* the refresh of the packages (server/account_quota.go).                  *)
(*                                                                         *)
(*   web:    credential -> solve -> login -> solve -> daily -> me          *)
(*           -> (solve -> extra)*                                          *)
(*           -> mark -> quota -> fetch -> save -> status                   *)
(*   device: packages -> keep -> remain                                    *)
(*   quota:  quota -> fetch -> save                                        *)
(*                                                                         *)
(* Any number of such runs work on the row at the same time: the daily     *)
(* round, a manual round and single requests do not know of one another.   *)
(* Accounts share nothing here, so there is one, within one Beijing day.   *)
(* A call that fails stands for a refusal, an error and a timeout.         *)
(*                                                                         *)
(* Its names are not those of DailyRounds: CheckinProofs extends both.     *)
(***************************************************************************)
EXTENDS Naturals, Sequences

CONSTANTS
  Runs,             \* goroutines that check in or refresh
  Extras,           \* extraClaims: the packages claimed by the way, in their order
  DailyPackage,     \* the package of the daily check-in, login_checkin
  MaxCheckinEvents  \* bound: packages used up, edits of the account, crashes

ExtraKinds == {Extras[i] : i \in DOMAIN Extras}

ASSUME CheckinAssumption ==
  /\ DailyPackage \notin ExtraKinds
  /\ MaxCheckinEvents \in Nat

VARIABLES
  row,            \* the account in table accounts, or NoRow
  run,            \* [Runs -> Run \cup {NoRun}]
  claimed,        \* SUBSET Packages: what the site has granted
  left,           \* SUBSET Packages: granted packages with tokens left
  checkinEvents,  \* packages used up, edits and crashes so far
  asked,          \* history: the site was asked for the day's package
  truth           \* history: what was granted to the run that has written status

checkinVars == <<row, run, claimed, left, checkinEvents, asked, truth>>

-----------------------------------------------------------------------------
Packages == {DailyPackage} \cup ExtraKinds
Passwords == {"right", "wrong", "none"}

\* snapshot: packages_json, as the set of packages with tokens left.  marked:
\* last_checkin_at is today.  (login_checkin_remaining, written with either,
\* is left out.)
NoRow == [password |-> "gone"]
Row == [password : Passwords, usable : BOOLEAN, marked : BOOLEAN,
        snapshot : SUBSET Packages,
        status : {"none", "error", "done", "failed"}]

Stages == {"credential", "solve", "login", "daily", "me", "extra",
           "mark", "quota", "fetch", "save", "status", "error",
           "packages", "keep", "remain"}

\* web: a web check-in.  goal: the call the next cap-token is for.  won: claims
\* confirmed by the site; amount: the daily one named a number of tokens; lost: a
\* claim has failed.  todo: extra claims to be made, as positions in Extras.
\* History: got was granted to this run, no other run was active meanwhile
\* (alone), list was stored (kept).
NoRun == [stage |-> "idle"]
Run == [stage : Stages, web : BOOLEAN,
        password : Passwords, goal : {"login", "daily", "extra"},
        cap : {"none", "fresh", "spent"}, won : SUBSET Packages, amount : BOOLEAN,
        lost : BOOLEAN,
        todo : SUBSET DOMAIN Extras,
        list : SUBSET Packages, got : SUBSET Packages, alone : BOOLEAN, kept : BOOLEAN]

CheckinInit ==
  /\ row \in [password : Passwords, usable : {TRUE}, marked : {FALSE},
              snapshot : {{}}, status : {"none"}]
  /\ run = [r \in Runs |-> NoRun]
  /\ claimed = {}
  /\ left = {}
  /\ checkinEvents = 0
  /\ asked = FALSE
  /\ truth = {}

-----------------------------------------------------------------------------
(* Control.                                                                *)

At(r, stage) == run[r].stage = stage

Go(r, stage) == run' = [run EXCEPT ![r].stage = stage]

Leave(r) == run' = [run EXCEPT ![r] = NoRun]

-----------------------------------------------------------------------------
(* checkinOne.                                                             *)

NewRun(stage) ==
  [stage |-> stage, web |-> stage = "credential",
   password |-> "none", goal |-> "login", cap |-> "none", won |-> {},
   amount |-> FALSE, lost |-> FALSE, todo |-> {}, list |-> {}, got |-> {},
   alone |-> \A x \in Runs : run[x] = NoRun, kept |-> FALSE]

StartRun(r, stage) ==
  run' = [x \in Runs |->
            CASE x = r -> NewRun(stage)
              [] x # r /\ run[x] # NoRun -> [run[x] EXCEPT !.alone = FALSE]
              [] OTHER -> NoRun]

\* The row decides on the way to check in; of an account that is gone or may
\* not be used there is nothing to do.
CheckIn(r) ==
  /\ run[r] = NoRun
  /\ row # NoRow /\ row.usable
  /\ StartRun(r, IF row.password # "none" THEN "credential" ELSE "packages")
  /\ UNCHANGED <<row, claimed, left, checkinEvents, asked, truth>>

\* handleQuotaRefreshOne, refreshAllDeviceQuotas.
Refresh(r) ==
  /\ run[r] = NoRun
  /\ StartRun(r, "quota")
  /\ UNCHANGED <<row, claimed, left, checkinEvents, asked, truth>>

\* Faulty: that the query has found no account is not noticed.
FaultyCredential(r) ==
  /\ At(r, "credential")
  /\ run' = [run EXCEPT ![r].stage = "solve", ![r].password = row.password]
  /\ UNCHANGED <<row, claimed, left, checkinEvents, asked, truth>>

\* The password is read by a query of its own, and the service is built.
Credential(r) ==
  /\ At(r, "credential")
  /\ IF row = NoRow
     THEN Leave(r)
     ELSE run' = [run EXCEPT ![r].stage = "solve", ![r].password = row.password]
  /\ UNCHANGED <<row, claimed, left, checkinEvents, asked, truth>>

NoService(r) ==
  /\ At(r, "credential")
  /\ Leave(r)
  /\ UNCHANGED <<row, claimed, left, checkinEvents, asked, truth>>

-----------------------------------------------------------------------------
(* Solve: a challenge, its solution, and a cap-token for it.               *)

\* claimExtras: the next package, or the end of CheckIn.
NextExtra(todo) == IF todo = {} THEN "mark" ELSE "solve"

IsNextExtra(r, i) == i \in run[r].todo /\ \A j \in run[r].todo : i <= j

Solve(r) ==
  /\ At(r, "solve")
  /\ run' = [run EXCEPT ![r].stage = run[r].goal, ![r].cap = "fresh"]
  /\ UNCHANGED <<row, claimed, left, checkinEvents, asked, truth>>

\* No challenge, an unknown one, or no token for the solution: the end of the
\* check-in before the daily claim, one package less after it.
Unsolved(r) ==
  /\ At(r, "solve")
  /\ IF run[r].goal = "extra"
     THEN \E i \in DOMAIN Extras :
            /\ IsNextExtra(r, i)
            /\ run' = [run EXCEPT ![r].stage = NextExtra(run[r].todo \ {i}),
                                  ![r].todo = @ \ {i}, ![r].lost = TRUE]
     ELSE Go(r, "error")
  /\ UNCHANGED <<row, claimed, left, checkinEvents, asked, truth>>

-----------------------------------------------------------------------------
(* CheckIn: login, the day's claim, the other packages.  Every call spends  *)
(* its cap-token, and the site takes none twice.                            *)

\* Faulty: the day is claimed with the cap-token of the login.
FaultyLogin(r, ok) ==
  /\ At(r, "login")
  /\ ok => run[r].password = "right" /\ run[r].cap = "fresh"
  /\ run' = [run EXCEPT ![r].stage = IF ok THEN "daily" ELSE "error",
                        ![r].password = "none", ![r].cap = "spent", ![r].goal = "daily"]
  /\ UNCHANGED <<row, claimed, left, checkinEvents, asked, truth>>

Login(r, ok) ==
  /\ At(r, "login")
  /\ ok => run[r].password = "right" /\ run[r].cap = "fresh"
  /\ run' = [run EXCEPT ![r].stage = IF ok THEN "solve" ELSE "error",
                        ![r].password = "none", ![r].cap = "spent", ![r].goal = "daily"]
  /\ UNCHANGED <<row, claimed, left, checkinEvents, asked, truth>>

\* The site grants the package unless it has; arrives: its answer does.
DailyGranted(r, amount, arrives) ==
  /\ At(r, "daily")
  /\ run[r].cap = "fresh" /\ DailyPackage \notin claimed
  /\ claimed' = claimed \cup {DailyPackage}
  /\ left' = left \cup {DailyPackage}
  /\ asked' = TRUE
  /\ run' = [run EXCEPT ![r].stage = "me", ![r].cap = "spent", ![r].goal = "extra",
                        ![r].won = IF arrives THEN @ \cup {DailyPackage} ELSE @,
                        ![r].amount = arrives /\ amount,
                        ![r].lost = ~arrives,
                        ![r].got = @ \cup {DailyPackage}]
  /\ UNCHANGED <<row, checkinEvents, truth>>

\* A claim that fails, for a day already claimed or otherwise, is no hard
\* failure.  (The streak that is then asked for is left out.)
DailyRefused(r) ==
  /\ At(r, "daily")
  /\ asked' = TRUE
  /\ run' = [run EXCEPT ![r].stage = "me", ![r].cap = "spent", ![r].goal = "extra",
                        ![r].lost = TRUE]
  /\ UNCHANGED <<row, claimed, left, checkinEvents, truth>>

\* fetchMe, claimAvailable: the packages that can be claimed now.
Me(r) ==
  /\ At(r, "me")
  /\ LET todo == {i \in DOMAIN Extras : Extras[i] \notin claimed}
     IN run' = [run EXCEPT ![r].stage = NextExtra(todo), ![r].todo = todo]
  /\ UNCHANGED <<row, claimed, left, checkinEvents, asked, truth>>

NoMe(r) ==
  /\ At(r, "me")
  /\ Go(r, "mark")
  /\ UNCHANGED <<row, claimed, left, checkinEvents, asked, truth>>

\* The next package, with a cap-token of its own.
ExtraOver(r, i, won, lost, got) ==
  run' = [run EXCEPT ![r].stage = NextExtra(run[r].todo \ {i}), ![r].cap = "spent",
                     ![r].todo = @ \ {i}, ![r].won = @ \cup won,
                     ![r].lost = @ \/ lost, ![r].got = @ \cup got]

ExtraGranted(r, i, arrives) ==
  LET kind == Extras[i] IN
  /\ At(r, "extra")
  /\ IsNextExtra(r, i)
  /\ run[r].cap = "fresh" /\ kind \notin claimed
  /\ claimed' = claimed \cup {kind}
  /\ left' = left \cup {kind}
  /\ ExtraOver(r, i, IF arrives THEN {kind} ELSE {}, ~arrives, {kind})
  /\ UNCHANGED <<row, checkinEvents, asked, truth>>

ExtraRefused(r, i) ==
  /\ At(r, "extra")
  /\ IsNextExtra(r, i)
  /\ ExtraOver(r, i, {}, TRUE, {})
  /\ UNCHANGED <<row, claimed, left, checkinEvents, asked, truth>>

-----------------------------------------------------------------------------
(* webCheckinOne: what is stored of a check-in.  An UPDATE of an account    *)
(* that is gone finds no row and is no error; a write that fails is ignored. *)

Stored(ok, new) == row' = IF ok /\ row # NoRow THEN new ELSE row

Mark(r, ok) ==
  /\ At(r, "mark")
  /\ Stored(ok, [row EXCEPT !.marked = TRUE])
  /\ Go(r, "quota")
  /\ UNCHANGED <<claimed, left, checkinEvents, asked, truth>>

\* Faulty: a claim that has failed is listed among what was claimed.
FaultyStatusOf(r) == "done"

\* What was claimed; else the first failure; else just "checked in".
StatusOf(r) ==
  IF run[r].lost /\ ~run[r].amount /\ run[r].won \cap ExtraKinds = {}
  THEN "failed" ELSE "done"

WriteStatus(r, ok) ==
  /\ At(r, "status")
  /\ Stored(ok, [row EXCEPT !.status = StatusOf(r)])
  /\ truth' = IF ok /\ row # NoRow THEN run[r].got ELSE truth
  /\ Leave(r)
  /\ UNCHANGED <<claimed, left, checkinEvents, asked>>

\* Faulty: every check-in counts for today, whatever became of it.
FaultyWriteError(r, ok) ==
  /\ At(r, "error")
  /\ Stored(ok, [row EXCEPT !.status = "error", !.marked = TRUE])
  /\ truth' = IF ok /\ row # NoRow THEN run[r].got ELSE truth
  /\ Leave(r)
  /\ UNCHANGED <<claimed, left, checkinEvents, asked>>

\* The hard failures: no cap-token for the login or the claim, no session.
WriteError(r, ok) ==
  /\ At(r, "error")
  /\ Stored(ok, [row EXCEPT !.status = "error"])
  /\ truth' = IF ok /\ row # NoRow THEN run[r].got ELSE truth
  /\ Leave(r)
  /\ UNCHANGED <<claimed, left, checkinEvents, asked>>

-----------------------------------------------------------------------------
(* refreshAccountQuota and dpopCheckinOne: the packages of GET /v1/me.     *)

\* A check-in goes on without the refresh, a refresh of its own has failed.
QuotaOver(r) == IF run[r].web THEN Go(r, "status") ELSE Leave(r)

ReadAccount(r) ==
  /\ At(r, "quota")
  /\ IF row = NoRow THEN QuotaOver(r) ELSE Go(r, "fetch")
  /\ UNCHANGED <<row, claimed, left, checkinEvents, asked, truth>>

\* DeviceMe; packages that are used up are left out.
Fetch(r) ==
  /\ run[r].stage \in {"fetch", "packages"}
  /\ run' = [run EXCEPT ![r].stage = IF At(r, "fetch") THEN "save" ELSE "keep",
                        ![r].list = left]
  /\ asked' = (asked \/ At(r, "packages"))
  /\ UNCHANGED <<row, claimed, left, checkinEvents, truth>>

\* No device credential, or one that is damaged, or no answer.
NoFetch(r) ==
  /\ run[r].stage \in {"fetch", "packages"}
  /\ IF At(r, "fetch") THEN QuotaOver(r) ELSE Leave(r)
  /\ UNCHANGED <<row, claimed, left, checkinEvents, asked, truth>>

\* Faulty: only the packages of the check-in are stored.
FaultySnapshotRow(list) == [row EXCEPT !.snapshot = list \cap {DailyPackage}]

SnapshotRow(list) == [row EXCEPT !.snapshot = list]

Save(r, ok) ==
  /\ At(r, "save")
  /\ Stored(ok, SnapshotRow(run[r].list))
  /\ IF run[r].web
     THEN run' = [run EXCEPT ![r].stage = "status", ![r].list = {}, ![r].kept = ok]
     ELSE Leave(r)
  /\ UNCHANGED <<claimed, left, checkinEvents, asked, truth>>

\* dpopCheckinOne stores the list, ignoring an error, and then the time.
Keep(r, ok) ==
  /\ At(r, "keep")
  /\ Stored(ok, SnapshotRow(run[r].list))
  /\ Go(r, "remain")
  /\ UNCHANGED <<claimed, left, checkinEvents, asked, truth>>

Remain(r, ok) ==
  /\ At(r, "remain")
  /\ Stored(ok, [row EXCEPT !.marked = TRUE])
  /\ Leave(r)
  /\ UNCHANGED <<claimed, left, checkinEvents, asked, truth>>

-----------------------------------------------------------------------------
(* The rest of the server, the users, and the process.                     *)

Spend(kind) ==
  /\ kind \in left
  /\ checkinEvents < MaxCheckinEvents
  /\ checkinEvents' = checkinEvents + 1
  /\ left' = left \ {kind}
  /\ UNCHANGED <<row, run, claimed, asked, truth>>

\* handleUpdateAccount, a refusal of the gateway or a new authorisation.
EditAccount(new) ==
  /\ row # NoRow
  /\ checkinEvents < MaxCheckinEvents
  /\ checkinEvents' = checkinEvents + 1
  /\ row' = new
  /\ UNCHANGED <<run, claimed, left, asked, truth>>

DeleteAccount ==
  /\ row # NoRow
  /\ checkinEvents < MaxCheckinEvents
  /\ checkinEvents' = checkinEvents + 1
  /\ row' = NoRow
  /\ UNCHANGED <<run, claimed, left, asked, truth>>

CrashCheckins ==
  /\ \E r \in Runs : run[r] # NoRun
  /\ checkinEvents < MaxCheckinEvents
  /\ checkinEvents' = checkinEvents + 1
  /\ run' = [r \in Runs |-> NoRun]
  /\ UNCHANGED <<row, claimed, left, asked, truth>>

-----------------------------------------------------------------------------
SiteStep(r) ==
  \/ \E ok \in BOOLEAN : Login(r, ok)
  \/ \E amount, arrives \in BOOLEAN :
       DailyGranted(r, amount, arrives)
  \/ DailyRefused(r) \/ Me(r) \/ NoMe(r)
  \/ \E i \in DOMAIN Extras :
       \/ \E arrives \in BOOLEAN : ExtraGranted(r, i, arrives)
       \/ ExtraRefused(r, i)

StoreStep(r) ==
  \E ok \in BOOLEAN :
    Mark(r, ok) \/ WriteStatus(r, ok) \/ WriteError(r, ok) \/ Save(r, ok)
    \/ Keep(r, ok) \/ Remain(r, ok)

RunStep(r) ==
  \/ Credential(r) \/ NoService(r) \/ Solve(r) \/ Unsolved(r) \/ SiteStep(r) \/ StoreStep(r)
  \/ ReadAccount(r) \/ Fetch(r) \/ NoFetch(r)

AccountEnvironment ==
  \/ \E kind \in Packages : Spend(kind)
  \/ \E password \in Passwords : EditAccount([row EXCEPT !.password = password])
  \/ EditAccount([row EXCEPT !.usable = ~@])
  \/ DeleteAccount \/ CrashCheckins

CheckinNext ==
  \/ \E r \in Runs : CheckIn(r) \/ Refresh(r) \/ RunStep(r)
  \/ AccountEnvironment

CheckinSpec == CheckinInit /\ [][CheckinNext]_checkinVars

-----------------------------------------------------------------------------
(* Correctness.                                                            *)

\* Every variable stays in its range.
CheckinTypeOK ==
  /\ row \in Row \cup {NoRow}
  /\ run \in [Runs -> Run \cup {NoRun}]
  /\ claimed \in SUBSET Packages
  /\ left \in SUBSET claimed
  /\ checkinEvents \in Nat
  /\ asked \in BOOLEAN
  /\ truth \in SUBSET Packages

\* Whatever fails on the way, no call of the site is made with a cap-token
\* that an earlier call has spent, or with none: the login, the day's claim
\* and each extra claim have one of their own (Solve before every POST).
CapTokenUsedOnce ==
  \A r \in Runs : run[r].stage \in {"login", "daily", "extra"} => run[r].cap = "fresh"

\* What the row tells of its last check-in is true, although calls fail,
\* replies are lost and other check-ins of the account run beside it: the
\* status "checked in" means that the site granted a package, a hard failure
\* that it granted none (webCheckinOne), and the account counts as checked in
\* today (last_checkin_at, by which the catch-up at the next start decides)
\* only if the site was asked for the day's package.
StatusHonest ==
  row # NoRow => /\ row.status = "done" => truth # {}
                 /\ row.status = "error" => truth = {}
                 /\ row.marked => asked

\* A check-in that had the account to itself and could store the packages
\* shows every package it has claimed and that is not used up: the packages
\* are fetched after the last claim and before the status is written.
GrantedIsShown ==
  [][\A r \in Runs :
       At(r, "status") /\ run'[r].stage # "status" /\ row # NoRow
       /\ run[r].alone /\ run[r].kept
       => run[r].got \cap left \subseteq row.snapshot]_checkinVars
=============================================================================
