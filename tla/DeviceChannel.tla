--------------------------- MODULE DeviceChannel ---------------------------
(***************************************************************************)
(* The device channel of the gateway: concurrent chat requests served with *)
(* the credentials of authorised accounts (server/chat.go), the accounts   *)
(* table they share (store/store.go), the in-memory map of accounts whose  *)
(* daily quota is used up, the administrator's edits, re-authorisation,    *)
(* midnight and restarts.                                                  *)
(*                                                                         *)
(* A request is one goroutine.  Its steps are split wherever the code      *)
(* releases a lock, ends a database statement or waits for the network, so *)
(* every other actor may run in between:                                   *)
(*                                                                         *)
(*   list -> filter -> pick -> send -> wait -> (mark, record) -> pick ...  *)
(*                                  \-> pipe -> touch -> final -> done     *)
(***************************************************************************)
EXTENDS ErrorClass, FiniteSets

CONSTANTS
  Requests,      \* client requests, each served by one goroutine
  Accounts,      \* account ids; AUTOINCREMENT, so an id is never used again
  Initial,       \* the accounts authorised before the first request
  Damaged,       \* those of them whose stored JWK does not parse
  Replies,       \* what the gateway may answer; status 0: no reply at all
  Quotas,        \* values of login_checkin_remaining; negative: unknown
  MaxKey,        \* the sort key of an unknown quota (math.MaxInt64)
  MaxToken,      \* bound: credentials ever issued to one account
  MaxDay,        \* bound: Beijing days
  MaxEdits,      \* bound: steps of the administrator and of quota refreshes
  StoreMayFail   \* may a database write of a request fail?

ASSUME ChannelAssumption ==
  /\ Accounts \subseteq Nat
  /\ IsFiniteSet(Accounts)
  /\ Initial \subseteq Accounts
  /\ Damaged \subseteq Initial
  /\ Replies \subseteq Reply
  /\ Quotas \subseteq Int
  /\ -1 \in Quotas
  /\ MaxKey \in Nat
  /\ \A q \in Quotas : q <= MaxKey
  /\ MaxToken \in Nat \ {0}
  /\ MaxDay \in Nat
  /\ MaxEdits \in Nat
  /\ StoreMayFail \in BOOLEAN

\* The usage counters are compared with a number of requests.
ASSUME RequestsAssumption == IsFiniteSet(Requests)

VARIABLES
  acct,       \* [Accounts -> Row]: the accounts table
  exhausted,  \* [Accounts -> Nat]: first day the account may be used again
  day,        \* the Beijing day
  shortened,  \* history: SUBSET Accounts: their mark was made to end earlier
  pc,         \* [Requests -> Stages]
  left,       \* [Requests -> SUBSET Accounts]: candidates not tried yet
  snap,       \* [Requests -> [Accounts -> Copy]]: the rows as listed
  cur,        \* [Requests -> SUBSET Accounts]: the account being called
  until,      \* [Requests -> Nat]: end of the cool-down about to be stored
  metered,    \* [Requests -> BOOLEAN]: the reply delivered reported usage
  answer,     \* [Requests -> Answers]: what the client was told
  edits,      \* steps of the administrator so far
  reply,      \* history: [Requests -> [Accounts -> CallStates]]
  rows,       \* history: [Requests -> [Accounts -> Nat]]: request records
  refused,    \* history: credentials whose refusal has been stored
  known       \* history: [Requests -> Knowledge] as of its listing

table   == <<acct, exhausted, day, shortened>>
history == <<reply, rows, refused>>
locals  == <<pc, left, snap, cur, until, metered, answer, known>>
vars    == <<table, locals, history, edits>>

-----------------------------------------------------------------------------
Status == {"", "relogin", "banned"}

\* "unused" and "deleted" stand for the absence of a row.
Row == [life : {"unused", "present", "deleted"}, enabled : BOOLEAN,
        authorized : BOOLEAN, status : Status, token : 0..MaxToken,
        intact : BOOLEAN, remaining : Quotas, total : Nat]

NoRow == [life |-> "unused", enabled |-> FALSE, authorized |-> FALSE,
          status |-> "", token |-> 0, intact |-> FALSE,
          remaining |-> -1, total |-> 0]

\* The defaults of the table's columns.
NewRow == [NoRow EXCEPT !.life = "present", !.enabled = TRUE]

\* An authorised account nobody has called yet.
Authorized(intact, quota) ==
  [life |-> "present", enabled |-> TRUE, authorized |-> TRUE, status |-> "",
   token |-> 1, intact |-> intact, remaining |-> quota, total |-> 0]

Exists(row) == row.life = "present"
Usable(row) == Exists(row) /\ row.authorized /\ row.enabled

\* What a request keeps of the rows it listed and later uses.
Copy == [token : 0..MaxToken, intact : BOOLEAN, remaining : Quotas]
NoCopy == [token |-> 0, intact |-> FALSE, remaining |-> -1]
CopyOf(row) == [token |-> row.token, intact |-> row.intact,
                remaining |-> row.remaining]

Unsent   == [status |-> -1, words |-> {}]
InFlight == [status |-> -2, words |-> {}]
CallStates == Replies \cup {Unsent, InFlight}

Stages == {"idle", "list", "filter", "pick", "send", "wait", "mark",
           "record", "pipe", "touch", "final", "done", "lost"}

Answers == {"none", "no_account", "exhausted", "unavailable", "upstream",
            "delivered", "broken"}

Credentials == Accounts \X (0..MaxToken)

\* The marks and the stored refusals a request could have seen.
Knowledge == [cooled : [Accounts -> Nat], refused : SUBSET Credentials]
Nothing == [cooled |-> [a \in Accounts |-> 0], refused |-> {}]

Init ==
  /\ \E quota \in [Initial -> Quotas] :
       acct = [a \in Accounts |-> IF a \in Initial
                                 THEN Authorized(a \notin Damaged, quota[a])
                                 ELSE NoRow]
  /\ exhausted = [a \in Accounts |-> 0]
  /\ day = 0
  /\ shortened = {}
  /\ pc = [r \in Requests |-> "idle"]
  /\ left = [r \in Requests |-> {}]
  /\ snap = [r \in Requests |-> [a \in Accounts |-> NoCopy]]
  /\ cur = [r \in Requests |-> {}]
  /\ until = [r \in Requests |-> 0]
  /\ metered = [r \in Requests |-> FALSE]
  /\ answer = [r \in Requests |-> "none"]
  /\ edits = 0
  /\ reply = [r \in Requests |-> [a \in Accounts |-> Unsent]]
  /\ rows = [r \in Requests |-> [a \in Accounts |-> 0]]
  /\ refused = {}
  /\ known = [r \in Requests |-> Nothing]

-----------------------------------------------------------------------------
(* Helpers.                                                                *)

\* Every UPDATE ... WHERE id=? leaves the table alone when the row is gone.
Update(a, row) ==
  acct' = IF Exists(acct[a]) THEN [acct EXCEPT ![a] = row] ELSE acct

\* Faulty: the day of the mark itself does not count.
FaultyIsExhausted(a) == day + 1 < exhausted[a]

IsExhausted(a) == day < exhausted[a]

SortKey(row) == IF row.remaining < 0 THEN MaxKey ELSE row.remaining

\* The stable sort by descending key of rows that were listed by id.
Before(rowsOf, a, b) ==
  \/ SortKey(rowsOf[a]) > SortKey(rowsOf[b])
  \/ SortKey(rowsOf[a]) = SortKey(rowsOf[b]) /\ a < b

IsFirst(rowsOf, set, a) ==
  a \in set /\ \A b \in set \ {a} : Before(rowsOf, a, b)

Goto(r, stage) == pc' = [pc EXCEPT ![r] = stage]

Tell(r, text) == answer' = [answer EXCEPT ![r] = text]

\* The request is over: its local variables go out of scope.
Finish(r) ==
  /\ Goto(r, "done")
  /\ left' = [left EXCEPT ![r] = {}]
  /\ snap' = [snap EXCEPT ![r] = [a \in Accounts |-> NoCopy]]
  /\ cur' = [cur EXCEPT ![r] = {}]
  /\ known' = [known EXCEPT ![r] = Nothing]
  /\ UNCHANGED <<until, metered>>

Stored == {TRUE} \cup {~StoreMayFail}

-----------------------------------------------------------------------------
(* One chat request: tryDeviceChatCompletion and its caller.               *)

\* The body has been read and checked; requests rejected before that touch
\* nothing that is modelled here.
Arrive(r) ==
  /\ pc[r] = "idle"
  /\ Goto(r, "list")
  /\ UNCHANGED <<table, left, snap, cur, until, metered, answer, known, history, edits>>

\* ListAuthorizedEnabledAccounts.
List(r) ==
  LET listed == {a \in Accounts : Usable(acct[a])} IN
  /\ pc[r] = "list"
  /\ IF listed = {}
     THEN Finish(r) /\ Tell(r, "no_account")
     ELSE /\ Goto(r, "filter")
          /\ left' = [left EXCEPT ![r] = listed]
          /\ snap' = [snap EXCEPT ![r] = [a \in Accounts |->
                      IF a \in listed THEN CopyOf(acct[a]) ELSE NoCopy]]
          /\ known' = [known EXCEPT ![r] = [cooled |-> exhausted,
                                            refused |-> refused]]
          /\ UNCHANGED <<cur, until, metered, answer>>
  /\ UNCHANGED <<table, history, edits>>

\* The accounts already marked for today are left out.
Filter(r) ==
  LET candidates == {a \in left[r] : ~IsExhausted(a)} IN
  /\ pc[r] = "filter"
  /\ IF candidates = {}
     THEN Finish(r) /\ Tell(r, "exhausted")
     ELSE /\ Goto(r, "pick")
          /\ left' = [left EXCEPT ![r] = candidates]
          /\ UNCHANGED <<snap, cur, until, metered, answer, known>>
  /\ UNCHANGED <<table, history, edits>>

\* Faulty: the loop does not move on from an account it skips.
FaultySkip(r, a) ==
  /\ pc[r] = "pick"
  /\ IsFirst(snap[r], left[r], a)
  /\ IsExhausted(a) \/ ~snap[r][a].intact
  /\ left' = [left EXCEPT ![r] = @ \cup {a}]
  /\ UNCHANGED <<table, pc, snap, cur, until, metered, answer, known, history, edits>>

\* The next account of the loop has been marked meanwhile, or its stored
\* credential does not parse.
Skip(r, a) ==
  /\ pc[r] = "pick"
  /\ IsFirst(snap[r], left[r], a)
  /\ IsExhausted(a) \/ ~snap[r][a].intact
  /\ left' = [left EXCEPT ![r] = @ \ {a}]
  /\ UNCHANGED <<table, pc, snap, cur, until, metered, answer, known, history, edits>>

\* Faulty: a picked account stays a candidate, to be retried.
FaultyPick(r, a) ==
  /\ pc[r] = "pick"
  /\ IsFirst(snap[r], left[r], a)
  /\ ~IsExhausted(a) /\ snap[r][a].intact
  /\ Goto(r, "send")
  /\ cur' = [cur EXCEPT ![r] = {a}]
  /\ UNCHANGED <<table, left, snap, until, metered, answer, known, history, edits>>

\* The next account of the loop is taken; its attestation is looked up now.
Pick(r, a) ==
  /\ pc[r] = "pick"
  /\ IsFirst(snap[r], left[r], a)
  /\ ~IsExhausted(a) /\ snap[r][a].intact
  /\ Goto(r, "send")
  /\ cur' = [cur EXCEPT ![r] = {a}]
  /\ left' = [left EXCEPT ![r] = @ \ {a}]
  /\ UNCHANGED <<table, snap, until, metered, answer, known, history, edits>>

\* The loop ends without an answer: 503 device_channel_unavailable.
GiveUp(r) ==
  /\ pc[r] = "pick"
  /\ left[r] = {}
  /\ Finish(r)
  /\ Tell(r, "unavailable")
  /\ UNCHANGED <<table, history, edits>>

\* DeviceChat sends the request with the credential that was listed.
Send(r, a) ==
  /\ pc[r] = "send"
  /\ a \in cur[r]
  /\ Goto(r, "wait")
  /\ reply' = [reply EXCEPT ![r][a] = InFlight]
  /\ UNCHANGED <<table, left, snap, cur, until, metered, answer, known,
                 rows, refused, edits>>

\* DeviceChat returns.  A refusal of the credential is first written to the
\* accounts table, every other failure is first recorded.
Receive(r, a, rep) ==
  /\ pc[r] = "wait"
  /\ a \in cur[r]
  /\ reply' = [reply EXCEPT ![r][a] = rep]
  /\ Goto(r, IF IsSuccess(rep) THEN "pipe"
             ELSE IF Untrusts(rep) \/ DeviceCredentialRetired(rep) THEN "mark"
             ELSE "record")
  /\ UNCHANGED <<table, left, snap, cur, until, metered, answer, known,
                 rows, refused, edits>>

\* Faulty: a refused device is flagged but stays enabled.
FaultyRefusedRow(row, rep) ==
  CASE Verdict(rep) = "ban"     -> [row EXCEPT !.status = "banned"]
    [] Verdict(rep) = "relogin" -> [row EXCEPT !.status = "relogin"]
    [] OTHER                    -> [row EXCEPT !.authorized = FALSE]

\* What DisableAccountByGateway, MarkAccountNeedsRelogin and
\* MarkAccountUnauthorized write.
RefusedRow(row, rep) ==
  CASE Verdict(rep) = "ban"     -> [row EXCEPT !.enabled = FALSE,
                                               !.status = "banned"]
    [] Verdict(rep) = "relogin" -> [row EXCEPT !.enabled = FALSE,
                                               !.status = "relogin"]
    [] OTHER                    -> [row EXCEPT !.authorized = FALSE]

\* 401 and 403: the account's row is changed, by its id alone.  A failed
\* write is logged and the handler goes on.
MarkRefused(r, a) ==
  /\ pc[r] = "mark"
  /\ a \in cur[r]
  /\ Untrusts(reply[r][a]) \/ DeviceCredentialRetired(reply[r][a])
  /\ Goto(r, "record")
  /\ \E ok \in Stored :
       IF ok
       THEN /\ Update(a, RefusedRow(acct[a], reply[r][a]))
            /\ refused' = refused \cup {<<a, snap[r][a].token>>}
       ELSE UNCHANGED <<acct, refused>>
  /\ UNCHANGED <<exhausted, day, shortened, left, snap, cur, until, metered,
                 answer, reply, rows, known, edits>>

\* Faulty: the error is passed through, but the loop is not left.
FaultyRecordAndStop(r, a) ==
  /\ pc[r] = "record"
  /\ a \in cur[r]
  /\ ~Rotates(reply[r][a])
  /\ \E ok \in Stored :
       rows' = IF ok THEN [rows EXCEPT ![r][a] = @ + 1] ELSE rows
  /\ Goto(r, "pick")
  /\ cur' = [cur EXCEPT ![r] = {}]
  /\ Tell(r, "upstream")
  /\ UNCHANGED <<table, left, snap, until, metered, known, reply, refused, edits>>

\* The failed call is recorded and its upstream error passed through.
RecordAndStop(r, a) ==
  /\ pc[r] = "record"
  /\ a \in cur[r]
  /\ ~Rotates(reply[r][a])
  /\ \E ok \in Stored :
       rows' = IF ok THEN [rows EXCEPT ![r][a] = @ + 1] ELSE rows
  /\ Finish(r)
  /\ Tell(r, "upstream")
  /\ UNCHANGED <<table, reply, refused, edits>>

\* Faulty: a retired credential's call goes unrecorded.
FaultyRecordAndRotate(r, a) ==
  /\ pc[r] = "record"
  /\ a \in cur[r]
  /\ Rotates(reply[r][a])
  /\ rows' = IF DeviceCredentialRetired(reply[r][a]) THEN rows
             ELSE [rows EXCEPT ![r][a] = @ + 1]
  /\ IF QuotaSignal(reply[r][a])
     THEN /\ Goto(r, "mark")
          /\ until' = [until EXCEPT ![r] = day + 1]
          /\ UNCHANGED cur
     ELSE /\ Goto(r, "pick")
          /\ cur' = [cur EXCEPT ![r] = {}]
          /\ UNCHANGED until
  /\ UNCHANGED <<table, left, snap, metered, answer, reply, refused, known, edits>>

\* The failed call is recorded; the next account is tried, after the mark
\* when today's quota is used up.  The end of the mark is computed here.
RecordAndRotate(r, a) ==
  /\ pc[r] = "record"
  /\ a \in cur[r]
  /\ Rotates(reply[r][a])
  /\ \E ok \in Stored :
       rows' = IF ok THEN [rows EXCEPT ![r][a] = @ + 1] ELSE rows
  /\ IF QuotaSignal(reply[r][a])
     THEN /\ Goto(r, "mark")
          /\ until' = [until EXCEPT ![r] = day + 1]
          /\ UNCHANGED cur
     ELSE /\ Goto(r, "pick")
          /\ cur' = [cur EXCEPT ![r] = {}]
          /\ UNCHANGED until
  /\ UNCHANGED <<table, left, snap, metered, answer, reply, refused, known, edits>>

\* markDeviceExhausted: the mark is stored under its lock, unconditionally;
\* midnight may have come since its end was computed.
MarkExhausted(r, a) ==
  /\ pc[r] = "mark"
  /\ a \in cur[r]
  /\ QuotaSignal(reply[r][a])
  /\ exhausted' = [exhausted EXCEPT ![a] = until[r]]
  /\ shortened' = IF until[r] < exhausted[a] THEN shortened \cup {a}
                                             ELSE shortened
  /\ Goto(r, "pick")
  /\ cur' = [cur EXCEPT ![r] = {}]
  /\ UNCHANGED <<acct, day, left, snap, until, metered, answer, known, history, edits>>

\* Faulty: every piped reply is counted, with or without usage.
FaultyPipe(r, whole, usage) ==
  /\ pc[r] = "pipe"
  /\ Tell(r, IF whole THEN "delivered" ELSE "broken")
  /\ metered' = [metered EXCEPT ![r] = usage]
  /\ Goto(r, "touch")
  /\ UNCHANGED <<table, left, snap, cur, until, known, history, edits>>

\* pipeResponse: the reply is copied to the client, whole or broken off by
\* either side; a broken one may still have reported its usage.
Pipe(r, whole, usage) ==
  /\ pc[r] = "pipe"
  /\ Tell(r, IF whole THEN "delivered" ELSE "broken")
  /\ metered' = [metered EXCEPT ![r] = usage]
  /\ Goto(r, IF usage THEN "touch" ELSE "final")
  /\ UNCHANGED <<table, left, snap, cur, until, known, history, edits>>

\* TouchAccount: only calls that reported tokens are counted.
Touch(r, a) ==
  /\ pc[r] = "touch"
  /\ a \in cur[r]
  /\ \E ok \in Stored :
       IF ok THEN Update(a, [acct[a] EXCEPT !.total = @ + 1])
             ELSE UNCHANGED acct
  /\ Goto(r, "final")
  /\ UNCHANGED <<exhausted, day, shortened, left, snap, cur, until, metered,
                 answer, known, history, edits>>

\* The delivered call is priced and recorded.
RecordSuccess(r, a) ==
  /\ pc[r] = "final"
  /\ a \in cur[r]
  /\ \E ok \in Stored :
       rows' = IF ok THEN [rows EXCEPT ![r][a] = @ + 1] ELSE rows
  /\ Finish(r)
  /\ UNCHANGED <<table, answer, reply, refused, edits>>

-----------------------------------------------------------------------------
(* The rest of the server: administrator, authorisation, quota refreshes.  *)

Edit ==
  /\ edits < MaxEdits
  /\ edits' = edits + 1
  /\ UNCHANGED <<exhausted, day, shortened, locals, reply, rows>>

\* SaveAccountDeviceCredential: a fresh credential, everything forgiven.
\* The credential that was polled may be for a row deleted meanwhile.
Authorize(a) ==
  /\ Edit
  /\ acct[a].token < MaxToken
  /\ Update(a, [acct[a] EXCEPT !.authorized = TRUE, !.enabled = TRUE,
                               !.status = "", !.token = @ + 1,
                               !.intact = TRUE])
  /\ UNCHANGED refused

\* UpdateAccount, field enabled.  Enabling by hand overrules a refusal.
SetEnabled(a, on) ==
  /\ Edit
  /\ Update(a, [acct[a] EXCEPT !.enabled = on])
  /\ refused' = IF on THEN {c \in refused : c[1] # a} ELSE refused

\* AddAccount gives out an id that was never used.
AddAccount(a) ==
  /\ Edit
  /\ acct[a].life = "unused"
  /\ acct' = [acct EXCEPT ![a] = NewRow]
  /\ UNCHANGED refused

DeleteAccount(a) ==
  /\ Edit
  /\ Exists(acct[a])
  /\ acct' = [acct EXCEPT ![a] = [NoRow EXCEPT !.life = "deleted"]]
  /\ UNCHANGED refused

\* SaveAccountQuota and MarkAccountCheckin, from a refresh or a check-in.
RefreshQuota(a, q) ==
  /\ Edit
  /\ acct[a].remaining # q
  /\ Update(a, [acct[a] EXCEPT !.remaining = q])
  /\ UNCHANGED refused

Midnight ==
  /\ day < MaxDay
  /\ day' = day + 1
  /\ UNCHANGED <<acct, exhausted, shortened, locals, history, edits>>

Live(r) == pc[r] \notin {"idle", "done", "lost"}

\* The process restarts: goroutines and the exhausted map are gone.
Restart ==
  /\ pc' = [r \in Requests |-> IF Live(r) THEN "lost" ELSE pc[r]]
  /\ left' = [r \in Requests |-> {}]
  /\ snap' = [r \in Requests |-> [a \in Accounts |-> NoCopy]]
  /\ cur' = [r \in Requests |-> {}]
  /\ known' = [r \in Requests |-> Nothing]
  /\ exhausted' = [a \in Accounts |-> 0]
  /\ shortened' = {}
  /\ UNCHANGED <<acct, day, until, metered, answer, history, edits>>

-----------------------------------------------------------------------------
\* The steps a request takes once it has arrived.
Step(r) ==
  \/ List(r) \/ Filter(r) \/ GiveUp(r)
  \/ \E a \in Accounts :
       \/ Skip(r, a) \/ Pick(r, a) \/ Send(r, a)
       \/ MarkRefused(r, a) \/ RecordAndStop(r, a) \/ RecordAndRotate(r, a)
       \/ MarkExhausted(r, a) \/ Touch(r, a) \/ RecordSuccess(r, a)
  \/ \E a \in Accounts, rep \in Replies : Receive(r, a, rep)
  \/ \E whole, usage \in BOOLEAN : Pipe(r, whole, usage)

Environment ==
  \/ \E a \in Accounts :
       \/ Authorize(a) \/ AddAccount(a) \/ DeleteAccount(a)
       \/ \E on \in BOOLEAN : SetEnabled(a, on)
       \/ \E q \in Quotas : RefreshQuota(a, q)
  \/ Midnight
  \/ Restart

Next ==
  \/ \E r \in Requests : Arrive(r) \/ Step(r)
  \/ Environment

Spec == Init /\ [][Next]_vars

\* A goroutine that can run does run.  Waiting ends: DeviceChat has a 30 s
\* limit on the response header, and a body ends when either side closes.
FairSpec == Spec /\ \A r \in Requests : WF_vars(Step(r))
-----------------------------------------------------------------------------
(* Correctness.                                                            *)

\* Every variable stays in its range.
TypeOK ==
  /\ acct \in [Accounts -> Row]
  /\ exhausted \in [Accounts -> Nat]
  /\ day \in Nat
  /\ shortened \in SUBSET Accounts
  /\ pc \in [Requests -> Stages]
  /\ left \in [Requests -> SUBSET Accounts]
  /\ snap \in [Requests -> [Accounts -> Copy]]
  /\ cur \in [Requests -> SUBSET Accounts]
  /\ until \in [Requests -> Nat]
  /\ metered \in [Requests -> BOOLEAN]
  /\ answer \in [Requests -> Answers]
  /\ known \in [Requests -> Knowledge]
  /\ edits \in Nat
  /\ reply \in [Requests -> [Accounts -> CallStates]]
  /\ rows \in [Requests -> [Accounts -> Nat]]
  /\ refused \in SUBSET Credentials

Called(r) == {a \in Accounts : reply[r][a] # Unsent}

\* The replies that end a rotation, and the answers they allow.
Justified(r) ==
  LET stops == {a \in Called(r) : reply[r][a] # InFlight
                                  /\ ~Rotates(reply[r][a])} IN
  /\ answer[r] \in {"delivered", "broken"} =>
       \E a \in stops : IsSuccess(reply[r][a]) /\ stops = {a}
  /\ answer[r] = "upstream" =>
       \E a \in stops : ~IsSuccess(reply[r][a]) /\ stops = {a}
  /\ answer[r] = "unavailable" => stops = {}
  /\ answer[r] \in {"no_account", "exhausted"} => Called(r) = {}
  /\ pc[r] = "done" => answer[r] # "none"

\* What the client is told agrees with the whole trail of upstream calls its
\* request caused: an error is passed through only if it is the one reply
\* that stopped the rotation, "unavailable" is said only if every single
\* account tried blamed the credential, and the two refusals that promise
\* that nothing was called are true.  (tryDeviceChatCompletion's three
\* results and what handleChatCompletions makes of them.)
AnswerJustified == \A r \in Requests : Justified(r)

\* The request log is the ledger of upstream calls: each call is recorded
\* once at most, each call that a request has moved on from exactly once,
\* and a restart loses the record of one call per request at most.
EveryCallRecorded ==
  \A r \in Requests :
    /\ \A a \in Accounts :
         /\ rows[r][a] <= 1
         /\ rows[r][a] = 1 => reply[r][a] \notin {Unsent, InFlight}
         /\ (pc[r] # "lost" /\ a \in Called(r) \ cur[r]) =>
              (rows[r][a] = 1 \/ StoreMayFail)
    /\ \A a, b \in Called(r) :
         (rows[r][a] = 0 /\ rows[r][b] = 0) => (a = b \/ StoreMayFail)

\* An account marked as used up is left alone until the end of the mark by
\* every request that lists its accounts after it, although the mark is read
\* without any lock held across the call, and another request may store its own
\* at any time.  The only exception is a mark that was computed on an earlier
\* day and stored over a longer one (markDeviceExhausted does not compare).
CooledUnlessShortened ==
  \A r \in Requests, a \in Accounts :
    (pc[r] \in {"send", "wait"} /\ a \in cur[r] /\ a \notin shortened) =>
      known[r].cooled[a] <= day

\* Once a 401 or a 403 has been stored against a credential, the account is
\* out of service for as long as it keeps that credential and nobody enables
\* it by hand, whatever other requests write to the row in the meantime; and
\* no request that lists its accounts afterwards calls with it.
RefusedCredentialsUnused ==
  /\ \A a \in Accounts :
       Usable(acct[a]) => <<a, acct[a].token>> \notin refused
  /\ \A r \in Requests : \A a \in left[r] \cup cur[r] :
       <<a, snap[r][a].token>> \notin known[r].refused

\* The usage counter of an account row never counts a call that did not
\* happen, and misses only calls whose request is about to count them, was
\* cut off by a restart, or could not write.
UsageAccounted ==
  \A a \in Accounts :
    LET metering == {r \in Requests : metered[r] /\ IsSuccess(reply[r][a])}
        pending  == {r \in metering : pc[r] \in {"touch", "lost"}}
    IN  Exists(acct[a]) =>
          /\ acct[a].total <= Cardinality(metering)
          /\ \/ acct[a].total + Cardinality(pending) >= Cardinality(metering)
             \/ StoreMayFail

\* The phases of ChatPromise.
Phase(r) ==
  CASE answer[r] # "none" -> "answered"
    [] answer[r] = "none" /\ pc[r] = "idle" -> "new"
    [] answer[r] = "none" /\ pc[r] = "lost" -> "lost"
    [] answer[r] = "none" /\ pc[r] = "wait" -> "calling"
    [] OTHER -> IF \E a \in cur[r] : reply[r][a] # Unsent
                                     /\ ~Rotates(reply[r][a])
                THEN "settled" ELSE "open"

phaseMap == [r \in Requests |-> Phase(r)]
usedMap  == [r \in Requests |-> Called(r)]

Promise == INSTANCE ChatPromise WITH phase <- phaseMap, used <- usedMap

\* Every request keeps the promise of ChatPromise: one call at a time, no
\* account twice, no further call after a reply that does not blame the
\* credential, one answer and no call after it.
KeepsPromise == Promise!Spec

\* A request that has arrived is answered unless the process restarts, also
\* when other requests mark or untrust the accounts it has listed and stored
\* credentials are damaged.
EveryRequestAnswered ==
  \A r \in Requests : pc[r] = "list" ~> pc[r] \in {"done", "lost"}

-----------------------------------------------------------------------------
(* What the comments of the code say and the code does not do.             *)

\* chat.go:225 "later requests no longer call an account that is cooling
\* down": no request calls an account that was marked for today when it listed.
CooledAccountsLeftAlone ==
  \A r \in Requests, a \in Accounts :
    (pc[r] \in {"send", "wait"} /\ a \in cur[r]) =>
      known[r].cooled[a] <= day

\* store.go:978 "a successful re-authorisation clears that state": when a
\* stored refusal takes an account out of service, it is the credential the
\* account holds now that was refused.
FreshCredentialSurvives ==
  [][\A a \in Accounts :
       (Usable(acct[a]) /\ ~Usable(acct'[a]) /\ refused' # refused) =>
         <<a, acct[a].token>> \in refused']_vars
=============================================================================
