------------------------ MODULE DeviceChannelProofs ------------------------
(***************************************************************************)
(* Proofs about DeviceChannel, for every set of requests and accounts,     *)
(* every set of replies and every bound: its types, what keeps refused     *)
(* credentials and cooled accounts out of use, the answers clients get,    *)
(* the refinement of ChatPromise, the ledger of calls and the usage        *)
(* counters of the accounts.                                               *)
(***************************************************************************)
EXTENDS DeviceChannel, FiniteSetTheorems, TLAPS

-----------------------------------------------------------------------------
(* Facts about the operators the actions are built from.                   *)

LEMMA RowFacts ==
  /\ NoRow \in Row
  /\ NewRow \in Row
  /\ NoCopy \in Copy
  /\ Nothing \in Knowledge
<1>1. -1 \in Quotas /\ MaxToken \in Nat
  BY ChannelAssumption
<1>2. NoRow \in Row
  BY <1>1 DEF Row, NoRow, Status
<1>3. NewRow \in Row
  BY <1>2 DEF Row, NewRow
<1>4. NoCopy \in Copy
  BY <1>1 DEF Copy, NoCopy
<1>5. Nothing \in Knowledge
  BY <1>1 DEF Nothing, Knowledge, Credentials
<1> QED BY <1>2, <1>3, <1>4, <1>5

\* Copying a row out of the table.
LEMMA CopyOfType ==
  ASSUME NEW row \in Row
  PROVE  CopyOf(row) \in Copy
BY DEF CopyOf, Row, Copy

\* UPDATE ... WHERE id=? writes a row of the table's type.
LEMMA UpdateType ==
  ASSUME acct \in [Accounts -> Row], NEW a \in Accounts, NEW row \in Row,
         Update(a, row)
  PROVE  acct' \in [Accounts -> Row]
BY DEF Update

\* What the three refusals of a credential leave of a row.
LEMMA RefusedRowFacts ==
  ASSUME NEW row \in Row, NEW rep
  PROVE  /\ RefusedRow(row, rep) \in Row
         /\ ~Usable(RefusedRow(row, rep))
         /\ RefusedRow(row, rep).token = row.token
         /\ RefusedRow(row, rep).life = row.life
<1>1. CASE Verdict(rep) = "ban"
  BY <1>1 DEF RefusedRow, Row, Status, Usable
<1>2. CASE Verdict(rep) = "relogin"
  BY <1>2 DEF RefusedRow, Row, Status, Usable
<1>3. CASE Verdict(rep) \notin {"ban", "relogin"}
  BY <1>3 DEF RefusedRow, Row, Status, Usable
<1> QED BY <1>1, <1>2, <1>3

\* Finish leaves the locals it clears in their types.
LEMMA FinishType ==
  ASSUME NEW r \in Requests, Finish(r),
         pc \in [Requests -> Stages],
         left \in [Requests -> SUBSET Accounts],
         snap \in [Requests -> [Accounts -> Copy]],
         cur \in [Requests -> SUBSET Accounts],
         known \in [Requests -> Knowledge]
  PROVE  /\ pc' \in [Requests -> Stages]
         /\ left' \in [Requests -> SUBSET Accounts]
         /\ snap' \in [Requests -> [Accounts -> Copy]]
         /\ cur' \in [Requests -> SUBSET Accounts]
         /\ known' \in [Requests -> Knowledge]
<1>1. [a \in Accounts |-> NoCopy] \in [Accounts -> Copy]
  BY RowFacts
<1>2. snap' \in [Requests -> [Accounts -> Copy]]
  BY <1>1 DEF Finish
<1>3. pc' \in [Requests -> Stages] /\ known' \in [Requests -> Knowledge]
  BY RowFacts DEF Finish, Goto, Stages
<1> QED BY <1>2, <1>3 DEF Finish

-----------------------------------------------------------------------------
(* Types.                                                                  *)

LEMMA InitType == Init => TypeOK
<1> SUFFICES ASSUME Init PROVE TypeOK
  OBVIOUS
<1>1. acct \in [Accounts -> Row]
  <2>1. ASSUME NEW intact \in BOOLEAN, NEW quota \in Quotas
        PROVE  Authorized(intact, quota) \in Row
    <3>1. MaxToken \in Nat \ {0}
      BY ChannelAssumption
    <3> QED BY <3>1 DEF Authorized, Row, Status
  <2> QED BY <2>1, RowFacts DEF Init
<1>2. snap \in [Requests -> [Accounts -> Copy]]
  BY RowFacts DEF Init
<1>3. known \in [Requests -> Knowledge]
  BY RowFacts DEF Init
<1>5. reply \in [Requests -> [Accounts -> CallStates]]
  BY DEF Init, CallStates
<1>6. refused \in SUBSET Credentials
  BY DEF Init
<1> QED BY <1>1, <1>2, <1>3, <1>5, <1>6
        DEF Init, TypeOK, Stages, Answers

\* The listing and the loop of a request, up to the call.
LEMMA LoopType ==
  ASSUME TypeOK, NEW r \in Requests,
         \/ Arrive(r) \/ List(r) \/ Filter(r) \/ GiveUp(r)
         \/ \E a \in Accounts : Skip(r, a) \/ Pick(r, a) \/ Send(r, a)
  PROVE  TypeOK'
<1> USE DEF table, history, TypeOK
<1>1. CASE Arrive(r)
  BY <1>1 DEF Arrive, Goto, Stages
<1>2. CASE List(r)
  <2> DEFINE listed == {a \in Accounts : Usable(acct[a])}
  <2>1. CASE listed = {}
    BY <2>1, <1>2, FinishType DEF List, Tell, Answers, Finish
  <2>2. CASE listed # {}
    <3> DEFINE copies == [a \in Accounts |->
                            IF a \in listed THEN CopyOf(acct[a]) ELSE NoCopy]
               seen == [cooled |-> exhausted, refused |-> refused]
    <3>1. copies \in [Accounts -> Copy]
      BY CopyOfType, RowFacts
    <3>2. seen \in Knowledge
      BY DEF Knowledge
    <3>3. /\ Goto(r, "filter")
          /\ left' = [left EXCEPT ![r] = listed]
          /\ snap' = [snap EXCEPT ![r] = copies]
          /\ known' = [known EXCEPT ![r] = seen]
          /\ UNCHANGED <<cur, until, metered, answer>>
          /\ UNCHANGED <<table, history, edits>>
      BY <1>2, <2>2 DEF List
    <3> HIDE DEF copies, seen
    <3> QED BY <3>1, <3>2, <3>3 DEF Goto, Stages
  <2> QED BY <2>1, <2>2
<1>3. CASE Filter(r)
  <2> DEFINE candidates == {a \in left[r] : ~IsExhausted(a)}
  <2>1. CASE candidates = {}
    BY <2>1, <1>3, FinishType DEF Filter, Tell, Answers, Finish
  <2>2. CASE candidates # {}
    <3>1. candidates \in SUBSET Accounts
      OBVIOUS
    <3>2. /\ Goto(r, "pick")
          /\ left' = [left EXCEPT ![r] = candidates]
          /\ UNCHANGED <<snap, cur, until, metered, answer, known>>
          /\ UNCHANGED <<table, history, edits>>
      BY <1>3, <2>2 DEF Filter
    <3> HIDE DEF candidates
    <3> QED BY <3>1, <3>2 DEF Goto, Stages
  <2> QED BY <2>1, <2>2
<1>4. CASE GiveUp(r)
  BY <1>4, FinishType DEF GiveUp, Tell, Answers, Finish
<1>5. ASSUME NEW a \in Accounts, Skip(r, a) PROVE TypeOK'
  BY <1>5 DEF Skip
<1>6. ASSUME NEW a \in Accounts, Pick(r, a) PROVE TypeOK'
  BY <1>6 DEF Pick, Goto, Stages
<1>7. ASSUME NEW a \in Accounts, Send(r, a) PROVE TypeOK'
  <2>1. reply' \in [Requests -> [Accounts -> CallStates]]
    BY <1>7 DEF Send, CallStates
  <2> QED BY <2>1, <1>7 DEF Send, Goto, Stages
<1> QED BY <1>1, <1>2, <1>3, <1>4, <1>5, <1>6, <1>7

\* What a request does with the reply.
LEMMA ReplyType ==
  ASSUME TypeOK, NEW r \in Requests,
         \/ \E a \in Accounts :
              \/ MarkRefused(r, a) \/ RecordAndStop(r, a)
              \/ RecordAndRotate(r, a) \/ MarkExhausted(r, a)
              \/ Touch(r, a) \/ RecordSuccess(r, a)
         \/ \E a \in Accounts, rep \in Replies : Receive(r, a, rep)
         \/ \E whole, usage \in BOOLEAN : Pipe(r, whole, usage)
  PROVE  TypeOK'
<1> USE DEF table, history, TypeOK
<1>1. ASSUME NEW a \in Accounts, MarkRefused(r, a) PROVE TypeOK'
  <2> DEFINE row == RefusedRow(acct[a], reply[r][a])
  <2>1. row \in Row
    BY RefusedRowFacts
  <2>2. acct' \in [Accounts -> Row]
    <3> HIDE DEF row
    <3>1. Update(a, row) \/ acct' = acct
      BY <1>1 DEF MarkRefused, row
    <3> QED BY <3>1, <2>1, UpdateType
  <2>3. <<a, snap[r][a].token>> \in Credentials
    BY DEF Credentials, Copy
  <2>4. refused' \in SUBSET Credentials
    BY <1>1, <2>3 DEF MarkRefused
  <2> QED BY <1>1, <2>2, <2>4 DEF MarkRefused, Goto, Stages
<1>2. ASSUME NEW a \in Accounts, RecordAndStop(r, a) PROVE TypeOK'
  <2>1. rows' \in [Requests -> [Accounts -> Nat]]
    BY <1>2 DEF RecordAndStop
  <2> QED BY <1>2, <2>1, FinishType
          DEF RecordAndStop, Tell, Answers, Finish
<1>3. ASSUME NEW a \in Accounts, RecordAndRotate(r, a) PROVE TypeOK'
  <2>1. rows' \in [Requests -> [Accounts -> Nat]]
    BY <1>3 DEF RecordAndRotate
  <2>2. until' \in [Requests -> Nat]
    <3>1. \/ until' = until
          \/ until' = [until EXCEPT ![r] = day + 1]
      BY <1>3 DEF RecordAndRotate
    <3>2. day + 1 \in Nat /\ until \in [Requests -> Nat]
      OBVIOUS
    <3> HIDE DEF TypeOK
    <3> QED BY <3>1, <3>2
  <2>3. pc' \in [Requests -> Stages] /\ cur' \in [Requests -> SUBSET Accounts]
    BY <1>3 DEF RecordAndRotate, Goto, Stages
  <2> QED BY <1>3, <2>1, <2>2, <2>3 DEF RecordAndRotate
<1>4. ASSUME NEW a \in Accounts, MarkExhausted(r, a) PROVE TypeOK'
  BY <1>4 DEF MarkExhausted, Goto, Stages
<1>5. ASSUME NEW a \in Accounts, Touch(r, a) PROVE TypeOK'
  <2> DEFINE row == [acct[a] EXCEPT !.total = @ + 1]
  <2>1. row \in Row
    <3>1. acct[a] \in Row
      OBVIOUS
    <3>2. acct[a].total + 1 \in Nat
      BY <3>1 DEF Row
    <3> QED BY <3>1, <3>2 DEF Row
  <2>2. acct' \in [Accounts -> Row]
    <3> HIDE DEF row
    <3>1. Update(a, row) \/ acct' = acct
      BY <1>5 DEF Touch, row
    <3> QED BY <3>1, <2>1, UpdateType
  <2> QED BY <1>5, <2>2 DEF Touch, Goto, Stages
<1>6. ASSUME NEW a \in Accounts, RecordSuccess(r, a) PROVE TypeOK'
  <2>1. rows' \in [Requests -> [Accounts -> Nat]]
    BY <1>6 DEF RecordSuccess
  <2> QED BY <1>6, <2>1, FinishType DEF RecordSuccess, Finish
<1>7. ASSUME NEW a \in Accounts, NEW rep \in Replies, Receive(r, a, rep)
      PROVE  TypeOK'
  <2>1. reply' \in [Requests -> [Accounts -> CallStates]]
    BY <1>7 DEF Receive, CallStates
  <2> QED BY <1>7, <2>1 DEF Receive, Goto, Stages
<1>8. ASSUME NEW whole \in BOOLEAN, NEW usage \in BOOLEAN,
             Pipe(r, whole, usage)
      PROVE  TypeOK'
  BY <1>8 DEF Pipe, Goto, Tell, Stages, Answers
<1> QED BY <1>1, <1>2, <1>3, <1>4, <1>5, <1>6, <1>7, <1>8

\* Everything that is not a request.
LEMMA EnvironmentType ==
  ASSUME TypeOK, Environment
  PROVE  TypeOK'
<1> USE DEF table, history, locals, TypeOK
<1>1. ASSUME NEW a \in Accounts, Authorize(a) PROVE TypeOK'
  <2> DEFINE row == [acct[a] EXCEPT !.authorized = TRUE, !.enabled = TRUE,
                                    !.status = "", !.token = @ + 1,
                                    !.intact = TRUE]
  <2>1. acct[a] \in Row
    OBVIOUS
  <2>2. row \in Row
    <3>1. acct[a].token + 1 \in 0..MaxToken
      BY <1>1, <2>1, ChannelAssumption DEF Authorize, Row
    <3> QED BY <2>1, <3>1 DEF Row, Status
  <2>3. acct' \in [Accounts -> Row]
    BY <1>1, <2>2, UpdateType DEF Authorize
  <2> QED BY <1>1, <2>3 DEF Authorize, Edit
<1>2. ASSUME NEW a \in Accounts, AddAccount(a) PROVE TypeOK'
  BY <1>2, RowFacts DEF AddAccount, Edit
<1>3. ASSUME NEW a \in Accounts, DeleteAccount(a) PROVE TypeOK'
  <2>1. [NoRow EXCEPT !.life = "deleted"] \in Row
    BY RowFacts DEF Row
  <2> QED BY <1>3, <2>1 DEF DeleteAccount, Edit
<1>4. ASSUME NEW a \in Accounts, NEW on \in BOOLEAN, SetEnabled(a, on)
      PROVE  TypeOK'
  <2>1. acct[a] \in Row
    OBVIOUS
  <2>2. [acct[a] EXCEPT !.enabled = on] \in Row
    BY <2>1 DEF Row
  <2>3. acct' \in [Accounts -> Row]
    BY <1>4, <2>2, UpdateType DEF SetEnabled
  <2>4. refused' \in SUBSET Credentials
    BY <1>4 DEF SetEnabled
  <2> QED BY <1>4, <2>3, <2>4 DEF SetEnabled, Edit
<1>5. ASSUME NEW a \in Accounts, NEW q \in Quotas, RefreshQuota(a, q)
      PROVE  TypeOK'
  <2>1. acct[a] \in Row
    OBVIOUS
  <2>2. [acct[a] EXCEPT !.remaining = q] \in Row
    BY <2>1 DEF Row
  <2>3. acct' \in [Accounts -> Row]
    BY <1>5, <2>2, UpdateType DEF RefreshQuota
  <2> QED BY <1>5, <2>3 DEF RefreshQuota, Edit
<1>8. CASE Midnight
  BY <1>8 DEF Midnight
<1>9. CASE Restart
  <2>1. snap' \in [Requests -> [Accounts -> Copy]]
    BY <1>9, RowFacts DEF Restart
  <2>2. known' \in [Requests -> Knowledge]
    BY <1>9, RowFacts DEF Restart
  <2>3. pc' \in [Requests -> Stages]
    BY <1>9 DEF Restart, Stages
  <2> QED BY <1>9, <2>1, <2>2, <2>3 DEF Restart
<1> QED BY <1>1, <1>2, <1>3, <1>4, <1>5, <1>8, <1>9
        DEF Environment

LEMMA StepType ==
  ASSUME TypeOK, [Next]_vars
  PROVE  TypeOK'
<1>1. ASSUME NEW r \in Requests, Arrive(r) \/ Step(r)
      PROVE  TypeOK'
  BY <1>1, LoopType, ReplyType DEF Step
<1>2. CASE Environment
  BY <1>2, EnvironmentType
<1>3. CASE UNCHANGED vars
  BY <1>3 DEF vars, table, history, locals, TypeOK
<1> QED BY <1>1, <1>2, <1>3 DEF Next

\* Every variable of the channel stays in its range, whatever the gateway
\* answers and the administrator does: in particular the three refusals and
\* the re-authorisation leave an account row in a state the table knows.
THEOREM TypeCorrect == Spec => []TypeOK
BY InitType, StepType, PTL DEF Spec

-----------------------------------------------------------------------------
(* One account in hand.                                                    *)

CallStages == {"send", "wait", "mark", "record", "pipe", "touch", "final"}

\* A request holds an account only from the moment it takes it out of its
\* loop until the call is over, and never two of them.
OneInHand ==
  \A r \in Requests :
    /\ cur[r] # {} => pc[r] \in CallStages
    /\ \A a, b \in cur[r] : a = b

LEMMA InitOneInHand == Init => OneInHand
BY DEF Init, OneInHand

LEMMA StepOneInHand ==
  ASSUME TypeOK, OneInHand, [Next]_vars
  PROVE  OneInHand'
<1> USE DEF OneInHand, TypeOK, Goto, CallStages
<1>1. ASSUME NEW r \in Requests, Arrive(r) \/ Step(r)
      PROVE  OneInHand'
  <2>1. CASE Arrive(r)
    BY <2>1 DEF Arrive
  <2>2. ASSUME Finish(r) PROVE OneInHand'
    BY <2>2 DEF Finish
  <2>3. CASE List(r)
    <3>1. Finish(r) \/ (Goto(r, "filter") /\ UNCHANGED cur)
      BY <2>3 DEF List
    <3>2. pc[r] = "list"
      BY <2>3 DEF List
    <3> QED BY <3>1, <3>2, <2>2
  <2>4. CASE Filter(r)
    <3>1. Finish(r) \/ (Goto(r, "pick") /\ UNCHANGED cur)
      BY <2>4 DEF Filter
    <3>2. pc[r] = "filter"
      BY <2>4 DEF Filter
    <3> QED BY <3>1, <3>2, <2>2
  <2>5. CASE GiveUp(r)
    BY <2>5, <2>2 DEF GiveUp
  <2>6. ASSUME NEW a \in Accounts, Skip(r, a) PROVE OneInHand'
    BY <2>6 DEF Skip
  <2>7. ASSUME NEW a \in Accounts, Pick(r, a) PROVE OneInHand'
    BY <2>7 DEF Pick
  <2>8. ASSUME NEW a \in Accounts, Send(r, a) PROVE OneInHand'
    BY <2>8 DEF Send
  <2>9. ASSUME NEW a \in Accounts, MarkRefused(r, a) PROVE OneInHand'
    BY <2>9 DEF MarkRefused
  <2>10. ASSUME NEW a \in Accounts, RecordAndStop(r, a) PROVE OneInHand'
    BY <2>10, <2>2 DEF RecordAndStop
  <2>11. ASSUME NEW a \in Accounts, RecordAndRotate(r, a) PROVE OneInHand'
    <3>1. /\ pc[r] = "record"
          /\ \/ Goto(r, "mark") /\ UNCHANGED cur
             \/ Goto(r, "pick") /\ cur' = [cur EXCEPT ![r] = {}]
      BY <2>11 DEF RecordAndRotate
    <3> QED BY <3>1
  <2>12. ASSUME NEW a \in Accounts, MarkExhausted(r, a) PROVE OneInHand'
    BY <2>12 DEF MarkExhausted
  <2>13. ASSUME NEW a \in Accounts, Touch(r, a) PROVE OneInHand'
    BY <2>13 DEF Touch
  <2>14. ASSUME NEW a \in Accounts, RecordSuccess(r, a) PROVE OneInHand'
    BY <2>14, <2>2 DEF RecordSuccess
  <2>15. ASSUME NEW a \in Accounts, NEW rep \in Replies, Receive(r, a, rep)
         PROVE  OneInHand'
    BY <2>15 DEF Receive
  <2>16. ASSUME NEW whole \in BOOLEAN, NEW usage \in BOOLEAN,
                Pipe(r, whole, usage)
         PROVE  OneInHand'
    BY <2>16 DEF Pipe
  <2> QED BY <1>1, <2>1, <2>3, <2>4, <2>5, <2>6, <2>7, <2>8, <2>9, <2>10,
             <2>11, <2>12, <2>13, <2>14, <2>15, <2>16 DEF Step
<1>2. CASE Restart
  BY <1>2 DEF Restart
<1>3. CASE Environment /\ ~Restart
  <2>1. UNCHANGED <<pc, cur>>
    BY <1>3 DEF Environment, Authorize, AddAccount, DeleteAccount, SetEnabled,
                RefreshQuota, Edit, Midnight, locals
  <2> QED BY <2>1
<1>4. CASE UNCHANGED vars
  BY <1>4 DEF vars, locals
<1> QED BY <1>1, <1>2, <1>3, <1>4 DEF Next

-----------------------------------------------------------------------------
(* Refused credentials.                                                    *)

(***************************************************************************)
(* RefusedCredentialsUnused is not inductive: an authorisation issues a    *)
(* new credential, which must not be among the refused ones, and a refusal *)
(* is stored against the credential a request holds, however old it is.    *)
(* Both need that the credentials the requests hold and the refusals name  *)
(* were issued before the account's present one.                           *)
(***************************************************************************)
Issued(c) ==
  /\ acct[c[1]].life # "unused"
  /\ Exists(acct[c[1]]) => c[2] <= acct[c[1]].token

HeldAreIssued ==
  \A r \in Requests : \A a \in left[r] \cup cur[r] :
    Issued(<<a, snap[r][a].token>>)

RefusedAreIssued == \A c \in refused : Issued(c)

TrustInv == HeldAreIssued /\ RefusedAreIssued /\ RefusedCredentialsUnused

LEMMA InitTrust == Init => TrustInv
BY DEF Init, TrustInv, HeldAreIssued, RefusedAreIssued,
       RefusedCredentialsUnused

\* Steps of requests that write neither the table nor a refusal, and by
\* which every request keeps its listing or forgets it altogether.
LEMMA LoopTrust ==
  ASSUME TrustInv, UNCHANGED <<acct, refused>>,
         \A q \in Requests :
           /\ left'[q] \cup cur'[q] \subseteq left[q] \cup cur[q]
           /\ left'[q] \cup cur'[q] # {} => /\ snap'[q] = snap[q]
                                            /\ known'[q] = known[q]
  PROVE  TrustInv'
<1>1. HeldAreIssued'
  BY DEF TrustInv, HeldAreIssued, Issued
<1>2. RefusedAreIssued'
  BY DEF TrustInv, RefusedAreIssued, Issued
<1>3. RefusedCredentialsUnused'
  BY DEF TrustInv, RefusedCredentialsUnused
<1> QED BY <1>1, <1>2, <1>3 DEF TrustInv

\* Steps that write one account's row and store no refusal, or one against
\* that account, while every request keeps its listing.
LEMMA TableTrust ==
  ASSUME TrustInv, UNCHANGED <<left, cur, snap, known>>,
         NEW a \in Accounts,
         \A b \in Accounts \ {a} : acct'[b] = acct[b],
         acct[a].life # "unused" => acct'[a].life # "unused",
         acct[a].life # "unused" /\ Exists(acct'[a]) =>
           /\ Exists(acct[a])
           /\ \A n \in Nat : n <= acct[a].token => n <= acct'[a].token,
         \A c \in refused' : c \in refused \/ (c[1] = a /\ Issued(c)),
         Usable(acct'[a]) => <<a, acct'[a].token>> \notin refused',
         TypeOK, TypeOK'
  PROVE  TrustInv'
<1>1. ASSUME NEW c \in Credentials, Issued(c)
      PROVE  Issued(c)'
  <2>1. c[1] \in Accounts /\ c[2] \in Nat
    BY ChannelAssumption DEF Credentials
  <2> QED BY <1>1, <2>1 DEF Issued
<1>2. HeldAreIssued'
  <2>1. ASSUME NEW r \in Requests, NEW b \in left[r] \cup cur[r]
        PROVE  <<b, snap[r][b].token>> \in Credentials
    <3>1. b \in Accounts /\ snap[r][b] \in Copy
      BY DEF TypeOK
    <3> QED BY <3>1 DEF Copy, Credentials
  <2> QED BY <1>1, <2>1 DEF TrustInv, HeldAreIssued
<1>3. RefusedAreIssued'
  <2>1. \A c \in refused' : c \in Credentials /\ Issued(c)
    BY DEF TrustInv, RefusedAreIssued, TypeOK
  <2> QED BY <1>1, <2>1 DEF RefusedAreIssued
<1>4. RefusedCredentialsUnused'
  BY DEF TrustInv, RefusedCredentialsUnused
<1> QED BY <1>2, <1>3, <1>4 DEF TrustInv

\* Ending a request forgets its listing and leaves the others theirs.
LEMMA FinishTrust ==
  ASSUME TypeOK, TrustInv, NEW r \in Requests, Finish(r),
         UNCHANGED <<acct, refused>>
  PROVE  TrustInv'
BY LoopTrust DEF Finish, TypeOK

LEMMA RequestTrust ==
  ASSUME TypeOK, TypeOK', OneInHand, TrustInv,
         NEW r \in Requests, Arrive(r) \/ Step(r)
  PROVE  TrustInv'
<1> USE DEF table, history
<1>1. CASE Arrive(r)
  BY <1>1, LoopTrust DEF Arrive
<1>2. CASE List(r)
  <2> DEFINE listed == {a \in Accounts : Usable(acct[a])}
  <2>1. CASE listed = {}
    BY <2>1, <1>2, FinishTrust DEF List
  <2>2. CASE listed # {}
    <3>1. /\ UNCHANGED <<acct, refused, cur>>
          /\ \A q \in Requests \ {r} : /\ left'[q] = left[q]
                                       /\ snap'[q] = snap[q]
                                       /\ known'[q] = known[q]
          /\ left'[r] = listed
          /\ known'[r].refused = refused
      BY <1>2, <2>2 DEF List, TypeOK
    <3>2. \A a \in listed : snap'[r][a].token = acct[a].token
      BY <1>2, <2>2 DEF List, CopyOf, TypeOK
    <3>3. cur[r] = {}
      BY <1>2 DEF List, OneInHand, CallStages
    <3>4. \A a \in listed : Exists(acct[a]) /\ <<a, acct[a].token>> \notin refused
      BY DEF TrustInv, RefusedCredentialsUnused, Usable
    <3>5. \A a \in listed : acct[a].token <= acct[a].token
      BY ChannelAssumption DEF TypeOK, Row
    <3>6. HeldAreIssued'
      <4>1. ASSUME NEW q \in Requests \ {r}, NEW a \in left'[q] \cup cur'[q]
            PROVE  Issued(<<a, snap[q][a].token>>)'
        BY <3>1 DEF TrustInv, HeldAreIssued, Issued
      <4>2. ASSUME NEW a \in listed
            PROVE  Issued(<<a, acct[a].token>>)'
        BY <3>1, <3>4, <3>5 DEF Issued, Exists
      <4>3. \A a \in listed : Issued(<<a, snap[r][a].token>>)'
        BY <3>1, <3>2, <4>2 DEF Issued
      <4>4. left'[r] \cup cur'[r] = listed
        BY <3>1, <3>3
      <4> HIDE DEF listed
      <4> QED BY <4>1, <4>3, <4>4 DEF HeldAreIssued
    <3>7. RefusedAreIssued'
      BY <3>1 DEF TrustInv, RefusedAreIssued, Issued
    <3>8. RefusedCredentialsUnused'
      BY <3>1, <3>2, <3>3, <3>4 DEF TrustInv, RefusedCredentialsUnused
    <3> QED BY <3>6, <3>7, <3>8 DEF TrustInv
  <2> QED BY <2>1, <2>2
<1>3. CASE Filter(r)
  <2> DEFINE candidates == {a \in left[r] : ~IsExhausted(a)}
  <2>1. CASE candidates = {}
    BY <1>3, <2>1, FinishTrust DEF Filter
  <2>2. CASE candidates # {}
    <3>1. /\ left' = [left EXCEPT ![r] = candidates]
          /\ UNCHANGED <<acct, refused, snap, cur, known>>
      BY <1>3, <2>2 DEF Filter
    <3>2. candidates \subseteq left[r]
      OBVIOUS
    <3> HIDE DEF candidates
    <3> QED BY <3>1, <3>2, LoopTrust DEF TypeOK
  <2> QED BY <2>1, <2>2
<1>4. CASE GiveUp(r)
  BY <1>4, FinishTrust DEF GiveUp
<1>5. ASSUME NEW a \in Accounts,
             \/ Skip(r, a) \/ Send(r, a)
             \/ RecordAndRotate(r, a) \/ MarkExhausted(r, a)
      PROVE  TrustInv'
  BY <1>5, LoopTrust
     DEF Skip, Send, RecordAndRotate, MarkExhausted, TypeOK
<1>6. ASSUME NEW a \in Accounts, Pick(r, a) PROVE TrustInv'
  BY <1>6, LoopTrust DEF Pick, IsFirst, TypeOK
<1>7. ASSUME NEW a \in Accounts, RecordAndStop(r, a) \/ RecordSuccess(r, a)
      PROVE  TrustInv'
  BY <1>7, FinishTrust DEF RecordAndStop, RecordSuccess
<1>8. ASSUME NEW a \in Accounts, NEW rep \in Replies, Receive(r, a, rep)
      PROVE  TrustInv'
  BY <1>8, LoopTrust DEF Receive
<1>9. ASSUME NEW whole \in BOOLEAN, NEW usage \in BOOLEAN,
             Pipe(r, whole, usage)
      PROVE  TrustInv'
  BY <1>9, LoopTrust DEF Pipe
<1>10. ASSUME NEW a \in Accounts, Touch(r, a) PROVE TrustInv'
  <2> DEFINE row == [acct[a] EXCEPT !.total = @ + 1]
  <2>1. \/ acct' = acct
        \/ Exists(acct[a]) /\ acct' = [acct EXCEPT ![a] = row]
    BY <1>10 DEF Touch, Update
  <2>2. CASE acct' = acct
    BY <1>10, <2>2, LoopTrust DEF Touch
  <2>3. CASE Exists(acct[a]) /\ acct' = [acct EXCEPT ![a] = row]
    <3>1. acct[a] \in Row /\ acct'[a] = row
      BY <2>3 DEF TypeOK
    <3>2. row.life = acct[a].life /\ row.token = acct[a].token
          /\ row.enabled = acct[a].enabled /\ row.authorized = acct[a].authorized
      BY <3>1 DEF Row
    <3> HIDE DEF row
    <3>3. Usable(acct'[a]) => <<a, acct'[a].token>> \notin refused'
      BY <1>10, <3>1, <3>2
         DEF Touch, Usable, Exists, TrustInv, RefusedCredentialsUnused
    <3>4. \A b \in Accounts \ {a} : acct'[b] = acct[b]
      BY <2>3 DEF TypeOK
    <3>5. UNCHANGED <<left, cur, snap, known, refused>>
      BY <1>10 DEF Touch
    <3> QED BY <2>3, <3>1, <3>2, <3>3, <3>4, <3>5, TableTrust
  <2> QED BY <2>1, <2>2, <2>3
<1>11. ASSUME NEW a \in Accounts, MarkRefused(r, a) PROVE TrustInv'
  <2> DEFINE c == <<a, snap[r][a].token>>
  <2>1. Issued(c)
    BY <1>11 DEF MarkRefused, TrustInv, HeldAreIssued
  <2>2. CASE UNCHANGED <<acct, refused>>
    BY <1>11, <2>2, LoopTrust DEF MarkRefused
  <2>3. CASE Update(a, RefusedRow(acct[a], reply[r][a]))
             /\ refused' = refused \cup {c}
    <3> DEFINE row == RefusedRow(acct[a], reply[r][a])
    <3>1. acct[a] \in Row
      BY DEF TypeOK
    <3>2. row.life = acct[a].life /\ row.token = acct[a].token /\ ~Usable(row)
      BY <3>1, RefusedRowFacts
    <3> HIDE DEF row
    <3>3. acct' = IF Exists(acct[a]) THEN [acct EXCEPT ![a] = row] ELSE acct
      BY <2>3 DEF Update, row
    <3>4. /\ acct'[a].life = acct[a].life /\ acct'[a].token = acct[a].token
          /\ ~Usable(acct'[a])
      BY <3>1, <3>2, <3>3 DEF TypeOK, Usable
    <3>5. \A b \in Accounts \ {a} : acct'[b] = acct[b]
      BY <3>3 DEF TypeOK
    <3>6. UNCHANGED <<left, cur, snap, known>>
      BY <1>11 DEF MarkRefused
    <3>7. \A d \in refused' : d \in refused \/ (d[1] = a /\ Issued(d))
      BY <2>1, <2>3
    <3> QED BY <3>4, <3>5, <3>6, <3>7, TableTrust DEF Exists
  <2> QED BY <1>11, <2>2, <2>3 DEF MarkRefused
<1> QED BY <1>1, <1>2, <1>3, <1>4, <1>5, <1>6, <1>7, <1>8, <1>9, <1>10,
           <1>11 DEF Step

LEMMA EnvironmentTrust ==
  ASSUME TypeOK, TypeOK', TrustInv, Environment
  PROVE  TrustInv'
<1> USE DEF table, history, locals
\* An edit writes the row of one account and keeps every listing.
<1>1. ASSUME NEW a \in Accounts, NEW row \in Row, Edit, Update(a, row),
             row.life = acct[a].life,
             row.token = acct[a].token \/ row.token = acct[a].token + 1,
             refused' \subseteq refused,
             Exists(acct[a]) /\ Usable(row) => <<a, row.token>> \notin refused'
      PROVE  TrustInv'
  <2>1. CASE acct' = acct
    <3>1. UNCHANGED <<left, cur, snap, known>>
      BY <1>1 DEF Edit
    <3>2. HeldAreIssued'
      BY <2>1, <3>1 DEF TrustInv, HeldAreIssued, Issued
    <3>3. RefusedAreIssued' /\ RefusedCredentialsUnused'
      BY <1>1, <2>1, <3>1
         DEF TrustInv, RefusedAreIssued, RefusedCredentialsUnused, Issued
    <3> QED BY <3>2, <3>3 DEF TrustInv
  <2>2. CASE Exists(acct[a]) /\ acct' = [acct EXCEPT ![a] = row]
    <3>1. acct[a] \in Row /\ acct'[a] = row
      BY <2>2 DEF TypeOK
    <3>2. \A b \in Accounts \ {a} : acct'[b] = acct[b]
      BY <2>2 DEF TypeOK
    <3>3. \A n \in Nat : n <= acct[a].token => n <= acct'[a].token
      <4>1. acct[a].token \in Nat /\ row.token \in Nat
        BY <1>1, <3>1, ChannelAssumption DEF Row
      <4> QED BY <1>1, <3>1, <4>1
    <3>4. UNCHANGED <<left, cur, snap, known>>
      BY <1>1 DEF Edit
    <3>5. acct[a].life # "unused" => acct'[a].life # "unused"
      BY <1>1, <3>1
    <3> QED BY <1>1, <2>2, <3>1, <3>2, <3>3, <3>4, <3>5, TableTrust
  <2> QED BY <1>1, <2>1, <2>2 DEF Update
<1>2. ASSUME NEW a \in Accounts, Authorize(a) PROVE TrustInv'
  <2> DEFINE row == [acct[a] EXCEPT !.authorized = TRUE, !.enabled = TRUE,
                                    !.status = "", !.token = @ + 1,
                                    !.intact = TRUE]
  <2>1. acct[a] \in Row
    BY DEF TypeOK
  <2>2. acct[a].token \in Nat /\ acct[a].token + 1 \in 0..MaxToken
    BY <1>2, <2>1, ChannelAssumption DEF Authorize, Row
  <2>3. row \in Row /\ row.life = acct[a].life /\ row.token = acct[a].token + 1
    BY <2>1, <2>2 DEF Row, Status
  <2> HIDE DEF row
  <2>4. Exists(acct[a]) => <<a, acct[a].token + 1>> \notin refused
    BY <2>2 DEF TrustInv, RefusedAreIssued, Issued, Exists
  <2>5. Edit /\ Update(a, row) /\ refused' = refused
    BY <1>2 DEF Authorize, row
  <2> QED BY <1>1, <2>3, <2>4, <2>5
<1>3. ASSUME NEW a \in Accounts, NEW on \in BOOLEAN, SetEnabled(a, on)
      PROVE  TrustInv'
  <2> DEFINE row == [acct[a] EXCEPT !.enabled = on]
  <2>1. acct[a] \in Row
    BY DEF TypeOK
  <2>2. row \in Row /\ row.life = acct[a].life /\ row.token = acct[a].token
        /\ row.enabled = on /\ row.authorized = acct[a].authorized
    BY <2>1 DEF Row
  <2> HIDE DEF row
  <2>3. Edit /\ Update(a, row)
        /\ refused' = IF on THEN {c \in refused : c[1] # a} ELSE refused
    BY <1>3 DEF SetEnabled, row
  <2>4. refused' \subseteq refused
        /\ (Usable(row) => <<a, row.token>> \notin refused')
    BY <2>2, <2>3 DEF Usable
  <2> QED BY <1>1, <2>2, <2>3, <2>4
<1>4. ASSUME NEW a \in Accounts, NEW q \in Quotas, RefreshQuota(a, q)
      PROVE  TrustInv'
  <2> DEFINE row == [acct[a] EXCEPT !.remaining = q]
  <2>1. acct[a] \in Row
    BY DEF TypeOK
  <2>2. row \in Row /\ row.life = acct[a].life /\ row.token = acct[a].token
        /\ row.enabled = acct[a].enabled /\ row.authorized = acct[a].authorized
    BY <2>1 DEF Row
  <2> HIDE DEF row
  <2>3. Edit /\ Update(a, row) /\ refused' = refused
    BY <1>4 DEF RefreshQuota, row
  <2>4. Usable(row) => <<a, row.token>> \notin refused
    BY <2>2 DEF Usable, Exists, TrustInv, RefusedCredentialsUnused
  <2> QED BY <1>1, <2>2, <2>3, <2>4
<1>5. ASSUME NEW a \in Accounts, AddAccount(a) \/ DeleteAccount(a)
      PROVE  TrustInv'
  <2>1. /\ acct'[a].life # "unused" /\ ~Usable(acct'[a])
        /\ acct[a].life # "unused" => ~Exists(acct'[a])
    <3> DEFINE gone == [NoRow EXCEPT !.life = "deleted"]
    <3>1. \/ acct'[a] = NewRow /\ acct[a].life = "unused"
          \/ acct'[a] = gone
      BY <1>5 DEF AddAccount, DeleteAccount, TypeOK
    <3>2. NewRow.life = "present" /\ ~NewRow.authorized
      BY DEF NewRow, NoRow
    <3>3. gone.life = "deleted"
      BY DEF NoRow
    <3> HIDE DEF gone
    <3> QED BY <3>1, <3>2, <3>3 DEF Exists, Usable
  <2>2. \A b \in Accounts \ {a} : acct'[b] = acct[b]
    BY <1>5 DEF AddAccount, DeleteAccount, TypeOK
  <2>3. UNCHANGED <<left, cur, snap, known, refused>>
    BY <1>5 DEF AddAccount, DeleteAccount, Edit
  <2> QED BY <2>1, <2>2, <2>3, TableTrust
<1>6. CASE Restart
  BY <1>6, LoopTrust DEF Restart
<1>7. CASE Midnight
  BY <1>7, LoopTrust DEF Midnight
<1> QED BY <1>2, <1>3, <1>4, <1>5, <1>6, <1>7 DEF Environment

\* Once a 401 or 403 is stored against a credential, no request that lists
\* its accounts afterwards calls with it and the account stays out of
\* service, until it gets a new credential or is enabled by hand.
THEOREM RefusedStayOut == Spec => []RefusedCredentialsUnused
<1>1. TypeOK /\ OneInHand /\ TrustInv /\ [Next]_vars => TrustInv'
  <2> SUFFICES ASSUME TypeOK, OneInHand, TrustInv, [Next]_vars
               PROVE  TrustInv'
    OBVIOUS
  <2>1. TypeOK'
    BY StepType
  <2>2. ASSUME NEW r \in Requests, Arrive(r) \/ Step(r) PROVE TrustInv'
    BY <2>1, <2>2, RequestTrust
  <2>3. CASE Environment
    BY <2>1, <2>3, EnvironmentTrust
  <2>4. CASE UNCHANGED vars
    <3>1. UNCHANGED <<acct, refused, left, cur, snap, known>>
      BY <2>4 DEF vars, table, history, locals
    <3> QED BY <3>1, LoopTrust
  <2> QED BY <2>2, <2>3, <2>4 DEF Next
<1>2. TypeOK /\ OneInHand /\ [Next]_vars => OneInHand'
  BY StepOneInHand
<1>3. TrustInv => RefusedCredentialsUnused
  BY DEF TrustInv
<1> QED BY <1>1, <1>2, <1>3, TypeCorrect, InitOneInHand, InitTrust, PTL DEF Spec

-----------------------------------------------------------------------------
(* Cooled accounts.                                                        *)

(***************************************************************************)
(* What a request saw marked when it listed is a lower bound of the mark   *)
(* for as long as the request lives, whoever stores another, unless one    *)
(* was stored that ends earlier.                                           *)
(***************************************************************************)
CoolInv ==
  /\ \A r \in Requests : \A a \in Accounts \ shortened :
       known[r].cooled[a] <= exhausted[a]
  /\ CooledUnlessShortened

\* Marks, days and listings, in the type they live in.
LEMMA CoolTypes ==
  ASSUME TypeOK
  PROVE  /\ day \in Nat
         /\ \A a \in Accounts : exhausted[a] \in Nat
         /\ \A r \in Requests, a \in Accounts : known[r].cooled[a] \in Nat
         /\ \A r \in Requests : until[r] \in Nat
BY DEF TypeOK, Knowledge

LEMMA InitCool == Init => CoolInv
BY DEF Init, CoolInv, CooledUnlessShortened, Nothing

\* Steps after which nobody is any further than before: no mark, no day, no
\* new listing, and nobody enters a call.
LEMMA IdleCool ==
  ASSUME TypeOK, CoolInv, UNCHANGED <<exhausted, day, shortened, known>>,
         \A q \in Requests :
           pc'[q] \in {"send", "wait"} =>
             pc[q] \in {"send", "wait"} /\ cur'[q] \subseteq cur[q]
  PROVE  CoolInv'
BY DEF CoolInv, CooledUnlessShortened

\* The end of a request.
LEMMA FinishCool ==
  ASSUME TypeOK, CoolInv, NEW r \in Requests, Finish(r),
         UNCHANGED <<exhausted, day, shortened>>
  PROVE  CoolInv'
<1>1. /\ pc' = [pc EXCEPT ![r] = "done"]
      /\ cur' = [cur EXCEPT ![r] = {}]
      /\ known' = [known EXCEPT ![r] = Nothing]
  BY DEF Finish, Goto
<1>2. \A a \in Accounts : Nothing.cooled[a] = 0
  BY DEF Nothing
<1>3. \A q \in Requests : \A a \in Accounts \ shortened :
        known'[q].cooled[a] <= exhausted[a]
  BY <1>1, <1>2, CoolTypes DEF CoolInv, TypeOK
<1>4. CooledUnlessShortened'
  BY <1>1 DEF CoolInv, CooledUnlessShortened, TypeOK
<1> QED BY <1>3, <1>4 DEF CoolInv

LEMMA RequestCool ==
  ASSUME TypeOK, CoolInv, NEW r \in Requests, Arrive(r) \/ Step(r)
  PROVE  CoolInv'
<1> USE DEF table
<1>1. CASE Arrive(r)
  BY <1>1, IdleCool DEF Arrive, Goto, TypeOK
<1>2. CASE List(r)
  <2> DEFINE listed == {a \in Accounts : Usable(acct[a])}
  <2>1. CASE listed = {}
    BY <1>2, <2>1, FinishCool DEF List
  <2>2. CASE listed # {}
    <3>1. /\ UNCHANGED <<exhausted, day, shortened, cur>>
          /\ pc' = [pc EXCEPT ![r] = "filter"]
          /\ \A q \in Requests \ {r} : known'[q] = known[q]
          /\ known'[r].cooled = exhausted
      BY <1>2, <2>2 DEF List, Goto, TypeOK
    <3>2. \A q \in Requests : \A a \in Accounts \ shortened :
            known'[q].cooled[a] <= exhausted[a]
      BY <3>1, CoolTypes DEF CoolInv
    <3>3. CooledUnlessShortened'
      BY <3>1 DEF CoolInv, CooledUnlessShortened, TypeOK
    <3> QED BY <3>1, <3>2, <3>3 DEF CoolInv
  <2> QED BY <2>1, <2>2
<1>3. CASE Filter(r)
  <2>1. \/ Finish(r) /\ UNCHANGED <<exhausted, day, shortened>>
        \/ Goto(r, "pick") /\ UNCHANGED <<exhausted, day, shortened, known, cur>>
    BY <1>3 DEF Filter
  <2>2. CASE Goto(r, "pick")
             /\ UNCHANGED <<exhausted, day, shortened, known, cur>>
    BY <2>2, IdleCool DEF Goto, TypeOK
  <2> QED BY <2>1, <2>2, FinishCool
<1>4. CASE GiveUp(r)
  BY <1>4, FinishCool DEF GiveUp
<1>5. ASSUME NEW a \in Accounts, Skip(r, a) PROVE CoolInv'
  BY <1>5, IdleCool DEF Skip
\* The account taken is not marked now, so it was not when the request listed.
<1>6. ASSUME NEW a \in Accounts, Pick(r, a) PROVE CoolInv'
  <2>1. /\ UNCHANGED <<exhausted, day, shortened, known>>
        /\ pc' = [pc EXCEPT ![r] = "send"]
        /\ cur' = [cur EXCEPT ![r] = {a}]
        /\ ~(day < exhausted[a])
    BY <1>6 DEF Pick, Goto, IsExhausted
  <2>2. a \notin shortened => known[r].cooled[a] <= day
    BY <2>1, CoolTypes DEF CoolInv
  <2>3. CooledUnlessShortened'
    BY <2>1, <2>2 DEF CoolInv, CooledUnlessShortened, TypeOK
  <2> QED BY <2>1, <2>3 DEF CoolInv
<1>7. ASSUME NEW a \in Accounts, Send(r, a) PROVE CoolInv'
  BY <1>7, IdleCool DEF Send, Goto, TypeOK
<1>8. ASSUME NEW a \in Accounts, MarkRefused(r, a) \/ Touch(r, a)
      PROVE  CoolInv'
  BY <1>8, IdleCool DEF MarkRefused, Touch, Goto, TypeOK
<1>9. ASSUME NEW a \in Accounts, RecordAndStop(r, a) \/ RecordSuccess(r, a)
      PROVE  CoolInv'
  BY <1>9, FinishCool DEF RecordAndStop, RecordSuccess
<1>10. ASSUME NEW a \in Accounts, RecordAndRotate(r, a) PROVE CoolInv'
  <2>1. /\ UNCHANGED <<exhausted, day, shortened, known>>
        /\ pc' \in {[pc EXCEPT ![r] = "mark"], [pc EXCEPT ![r] = "pick"]}
        /\ cur' = cur \/ cur' = [cur EXCEPT ![r] = {}]
    BY <1>10 DEF RecordAndRotate, Goto
  <2> QED BY <2>1, IdleCool DEF TypeOK
\* The mark is stored: where it ends earlier than the one that is there, the
\* account is one of the shortened.
<1>11. ASSUME NEW a \in Accounts, MarkExhausted(r, a) PROVE CoolInv'
  <2>1. /\ UNCHANGED <<day, known>>
        /\ exhausted' = [exhausted EXCEPT ![a] = until[r]]
        /\ shortened' = IF until[r] < exhausted[a] THEN shortened \cup {a}
                                                   ELSE shortened
        /\ pc' = [pc EXCEPT ![r] = "pick"]
        /\ cur' = [cur EXCEPT ![r] = {}]
    BY <1>11 DEF MarkExhausted, Goto
  <2>2. \A b \in Accounts \ shortened' :
          b \notin shortened /\ exhausted[b] <= exhausted'[b] /\ exhausted'[b] \in Nat
    BY <2>1, CoolTypes DEF TypeOK
  <2>3. \A q \in Requests : \A b \in Accounts \ shortened' :
          known[q].cooled[b] <= exhausted'[b]
    BY <2>2, CoolTypes DEF CoolInv
  <2>4. CooledUnlessShortened'
    BY <2>1, <2>2 DEF CoolInv, CooledUnlessShortened, TypeOK
  <2> QED BY <2>1, <2>3, <2>4 DEF CoolInv
<1>12. ASSUME NEW a \in Accounts, NEW rep \in Replies, Receive(r, a, rep)
       PROVE  CoolInv'
  BY <1>12, IdleCool DEF Receive, Goto, TypeOK
<1>13. ASSUME NEW whole \in BOOLEAN, NEW usage \in BOOLEAN,
              Pipe(r, whole, usage)
       PROVE  CoolInv'
  BY <1>13, IdleCool DEF Pipe, Goto, TypeOK
<1> QED BY <1>1, <1>2, <1>3, <1>4, <1>5, <1>6, <1>7, <1>8, <1>9, <1>10,
           <1>11, <1>12, <1>13 DEF Step

LEMMA EnvironmentCool ==
  ASSUME TypeOK, CoolInv, Environment
  PROVE  CoolInv'
<1>1. CASE Midnight
  <2>1. /\ day' = day + 1
        /\ UNCHANGED <<exhausted, shortened, known, cur, pc>>
    BY <1>1 DEF Midnight, locals
  <2>2. CooledUnlessShortened'
    BY <2>1, CoolTypes DEF CoolInv, CooledUnlessShortened, TypeOK
  <2> QED BY <2>1, <2>2 DEF CoolInv
<1>2. CASE Restart
  <2>1. /\ \A a \in Accounts : exhausted'[a] = 0
        /\ \A r \in Requests : cur'[r] = {}
        /\ \A r \in Requests, a \in Accounts : known'[r].cooled[a] = 0
    BY <1>2 DEF Restart, Nothing
  <2> QED BY <2>1 DEF CoolInv, CooledUnlessShortened
<1>3. CASE Environment /\ ~Midnight /\ ~Restart
  <2>1. UNCHANGED <<exhausted, day, shortened, known, cur, pc>>
    BY <1>3 DEF Environment, Authorize, AddAccount, DeleteAccount, SetEnabled,
                RefreshQuota, Edit, locals
  <2> QED BY <2>1, IdleCool
<1> QED BY <1>1, <1>2, <1>3

\* No request that lists its accounts after an account was marked calls that
\* account before the mark ends, however many others mark accounts meanwhile,
\* on whatever day they computed it, unless a mark was stored over a longer one.
THEOREM CooledStayCooled == Spec => []CooledUnlessShortened
<1>1. TypeOK /\ CoolInv /\ [Next]_vars => CoolInv'
  <2> SUFFICES ASSUME TypeOK, CoolInv, [Next]_vars
               PROVE  CoolInv'
    OBVIOUS
  <2>1. ASSUME NEW r \in Requests, Arrive(r) \/ Step(r) PROVE CoolInv'
    BY <2>1, RequestCool
  <2>2. CASE Environment
    BY <2>2, EnvironmentCool
  <2>3. CASE UNCHANGED vars
    <3>1. UNCHANGED <<exhausted, day, shortened, known, cur, pc>>
      BY <2>3 DEF vars, table, locals
    <3> QED BY <3>1, IdleCool
  <2> QED BY <2>1, <2>2, <2>3 DEF Next
<1>2. CoolInv => CooledUnlessShortened
  BY DEF CoolInv
<1> QED BY <1>1, <1>2, TypeCorrect, InitCool, PTL DEF Spec

-----------------------------------------------------------------------------
(* What a client is told agrees with the calls made for it.                *)

Unanswered == {"idle", "list", "filter", "pick", "send", "wait", "mark",
               "record", "pipe"}

(***************************************************************************)
(* The state of one request's dialogue with the gateway.  Its last two     *)
(* conjuncts are what makes the promise hold: a request that is not yet    *)
(* answered has only been sent away by the accounts it is done with, and   *)
(* the accounts it may still try have not been called.                     *)
(***************************************************************************)
Dialogue(r) ==
  /\ pc[r] \in {"idle", "list", "filter"} =>
       \A a \in Accounts : reply[r][a] = Unsent
  /\ pc[r] \in {"send", "wait", "mark", "record", "pipe"} => cur[r] # {}
  /\ \A a \in cur[r] :
       /\ pc[r] = "send" => reply[r][a] = Unsent
       /\ pc[r] = "wait" => reply[r][a] = InFlight
       /\ pc[r] \in {"mark", "record"} => /\ reply[r][a] \in Replies
                                          /\ ~IsSuccess(reply[r][a])
       /\ pc[r] = "pipe" => reply[r][a] \in Replies /\ IsSuccess(reply[r][a])
  /\ pc[r] # "lost" => (answer[r] = "none" <=> pc[r] \in Unanswered)
  /\ pc[r] \in Unanswered =>
       \A a \in Called(r) \ cur[r] : /\ reply[r][a] # InFlight
                                     /\ Rotates(reply[r][a])
  /\ \A a \in left[r] : reply[r][a] = Unsent /\ a \notin cur[r]

DialogueInv == \A r \in Requests : Dialogue(r) /\ Justified(r)

-----------------------------------------------------------------------------
(* Facts about replies.                                                    *)

LEMMA ReplyFacts ==
  /\ Unsent # InFlight
  /\ \A rep \in Replies : rep # Unsent /\ rep # InFlight
<1>1. Unsent.status = -1 /\ InFlight.status = -2
  BY DEF Unsent, InFlight
<1>2. \A rep \in Replies : rep.status \in 0..599
  BY ChannelAssumption DEF Reply
<1>3. Unsent # InFlight
  BY <1>1
<1>4. \A rep \in Replies : rep.status # -1 /\ rep.status # -2
  BY <1>2
<1> QED BY <1>1, <1>3, <1>4

\* A used-up quota rotates; a success never does.
LEMMA RotateFacts ==
  ASSUME NEW rep \in Replies
  PROVE  /\ QuotaSignal(rep) => Rotates(rep)
         /\ IsSuccess(rep) => ~Rotates(rep)
         /\ Untrusts(rep) \/ DeviceCredentialRetired(rep) => ~IsSuccess(rep)
<1>1. rep.status \in Int
  BY ChannelAssumption DEF Reply
<1>2. QuotaSignal(rep) => Verdict(rep) = "cool"
  BY <1>1 DEF QuotaSignal, Verdict, IsSuccess, IsNetworkError, DeviceNotTrusted,
              DeviceCredentialRetired, RequestScopedError, CredentialScopedError
<1>3. IsSuccess(rep) => Verdict(rep) = "deliver"
  BY <1>1 DEF Verdict, IsSuccess, IsNetworkError, DeviceNotTrusted,
              DeviceCredentialRetired, RequestScopedError
<1>4. DeviceCredentialRetired(rep) => ~IsSuccess(rep)
  BY <1>1 DEF DeviceCredentialRetired, IsSuccess
<1> QED BY <1>2, <1>3, <1>4 DEF Rotates, Untrusts

-----------------------------------------------------------------------------
(* The dialogue of one request.                                            *)

LEMMA InitDialogue == Init => DialogueInv
BY DEF Init, DialogueInv, Dialogue, Justified, Unanswered, Called

\* A request none of whose dialogue changes.
LEMMA DialogueFrame ==
  ASSUME NEW q \in Requests, Dialogue(q), Justified(q),
         pc'[q] = pc[q], left'[q] = left[q], cur'[q] = cur[q],
         reply'[q] = reply[q], answer'[q] = answer[q]
  PROVE  Dialogue(q)' /\ Justified(q)'
<1>1. Called(q)' = Called(q)
  BY DEF Called
<1>2. Dialogue(q)'
  BY <1>1 DEF Dialogue
<1>3. Justified(q)'
  BY <1>1 DEF Justified
<1> QED BY <1>2, <1>3

\* Before the answer there is nothing to justify.
LEMMA NothingTold ==
  ASSUME NEW r \in Requests, answer'[r] = "none", pc'[r] # "done"
  PROVE  Justified(r)'
BY DEF Justified

\* After the answer nothing is left of the dialogue but the calls.
LEMMA NothingLeft ==
  ASSUME NEW r \in Requests, pc'[r] = "done", answer'[r] # "none",
         left'[r] = {}, cur'[r] = {}
  PROVE  Dialogue(r)'
BY DEF Dialogue, Unanswered

LEMMA StepDialogue ==
  ASSUME TypeOK, OneInHand, DialogueInv, NEW r \in Requests,
         Arrive(r) \/ Step(r)
  PROVE  Dialogue(r)' /\ Justified(r)'
<1> USE DEF table, history, Goto, Tell
<1>0. Dialogue(r) /\ Justified(r)
  BY DEF DialogueInv
<1>1. CASE Arrive(r)
  <2>1. /\ pc[r] = "idle" /\ pc'[r] = "list"
        /\ UNCHANGED <<left, cur, reply, answer>>
    BY <1>1 DEF Arrive, TypeOK
  <2>2. answer'[r] = "none"
    BY <1>0, <2>1 DEF Dialogue, Unanswered
  <2>3. Dialogue(r)'
    BY <1>0, <2>1, <2>2 DEF Dialogue, Unanswered, Called
  <2> QED BY <2>1, <2>2, <2>3, NothingTold
\* The three answers that nobody was called for, or by nobody justified.
<1>2. ASSUME NEW text \in {"no_account", "exhausted", "unavailable"},
             Finish(r), Tell(r, text), UNCHANGED reply,
             pc[r] \in {"list", "filter", "pick"},
             text # "unavailable" => pc[r] # "pick"
      PROVE  Dialogue(r)' /\ Justified(r)'
  <2>1. /\ pc'[r] = "done" /\ answer'[r] = text
        /\ left'[r] = {} /\ cur'[r] = {}
    BY <1>2 DEF Finish, TypeOK
  <2>2. cur[r] = {}
    BY <1>2 DEF OneInHand, CallStages
  <2>3. \A a \in Called(r) : reply[r][a] # InFlight => Rotates(reply[r][a])
    BY <1>0, <1>2, <2>2 DEF Dialogue, Unanswered
  <2>4. pc[r] # "pick" => Called(r) = {}
    BY <1>0, <1>2 DEF Dialogue, Called
  <2>5. Justified(r)'
    BY <1>2, <2>1, <2>3, <2>4 DEF Justified, Called
  <2> QED BY <2>1, <2>5, NothingLeft
<1>3. CASE List(r)
  <2> DEFINE listed == {a \in Accounts : Usable(acct[a])}
  <2>1. CASE listed = {}
    BY <1>2, <1>3, <2>1 DEF List
  <2>2. CASE listed # {}
    <3>1. /\ pc[r] = "list" /\ pc'[r] = "filter" /\ left'[r] = listed
          /\ UNCHANGED <<cur, reply, answer>>
      BY <1>3, <2>2 DEF List, TypeOK
    <3>2. cur[r] = {} /\ answer'[r] = "none"
      BY <1>0, <3>1 DEF OneInHand, CallStages, Dialogue, Unanswered
    <3>3. Dialogue(r)'
      BY <1>0, <3>1, <3>2 DEF Dialogue, Unanswered, Called
    <3> QED BY <3>1, <3>2, <3>3, NothingTold
  <2> QED BY <2>1, <2>2
<1>4. CASE Filter(r)
  <2> DEFINE candidates == {a \in left[r] : ~IsExhausted(a)}
  <2>1. CASE candidates = {}
    BY <1>2, <1>4, <2>1 DEF Filter
  <2>2. CASE candidates # {}
    <3>1. /\ pc[r] = "filter" /\ pc'[r] = "pick" /\ left'[r] = candidates
          /\ UNCHANGED <<cur, reply, answer>>
      BY <1>4, <2>2 DEF Filter, TypeOK
    <3>2. cur[r] = {} /\ answer'[r] = "none"
      BY <1>0, <3>1 DEF OneInHand, CallStages, Dialogue, Unanswered
    <3>3. Dialogue(r)'
      BY <1>0, <3>1, <3>2 DEF Dialogue, Unanswered, Called
    <3> QED BY <3>1, <3>2, <3>3, NothingTold
  <2> QED BY <2>1, <2>2
<1>5. CASE GiveUp(r)
  BY <1>2, <1>5 DEF GiveUp
<1>6. ASSUME NEW a \in Accounts, Skip(r, a) \/ Pick(r, a)
      PROVE  Dialogue(r)' /\ Justified(r)'
  <2>1. /\ pc[r] = "pick" /\ pc'[r] \in {"pick", "send"}
        /\ a \in left[r] /\ left'[r] = left[r] \ {a}
        /\ cur'[r] = IF pc'[r] = "send" THEN {a} ELSE cur[r]
        /\ UNCHANGED <<reply, answer>>
    BY <1>6 DEF Skip, Pick, IsFirst, TypeOK
  <2>2. cur[r] = {} /\ answer'[r] = "none"
    BY <1>0, <2>1 DEF OneInHand, CallStages, Dialogue, Unanswered
  <2>3. Dialogue(r)'
    BY <1>0, <2>1, <2>2 DEF Dialogue, Unanswered, Called
  <2> QED BY <2>1, <2>2, <2>3, NothingTold
<1>7. ASSUME NEW a \in Accounts, Send(r, a)
      PROVE  Dialogue(r)' /\ Justified(r)'
  <2>1. /\ pc[r] = "send" /\ pc'[r] = "wait" /\ a \in cur[r]
        /\ UNCHANGED <<left, cur, answer>>
        /\ reply'[r][a] = InFlight
        /\ \A b \in Accounts \ {a} : reply'[r][b] = reply[r][b]
    BY <1>7 DEF Send, TypeOK
  <2>2. answer'[r] = "none" /\ \A b \in cur[r] : b = a
    BY <1>0, <2>1 DEF OneInHand, Dialogue, Unanswered
  <2>3. \A b \in left[r] : b \in Accounts \ {a}
    BY <1>0, <2>1 DEF Dialogue, TypeOK
  <2>4. Dialogue(r)'
    BY <1>0, <2>1, <2>2, <2>3 DEF Dialogue, Unanswered, Called
  <2> QED BY <2>1, <2>2, <2>4, NothingTold
<1>8. ASSUME NEW a \in Accounts, NEW rep \in Replies, Receive(r, a, rep)
      PROVE  Dialogue(r)' /\ Justified(r)'
  <2>1. /\ pc[r] = "wait" /\ a \in cur[r]
        /\ UNCHANGED <<left, cur, answer>>
        /\ reply'[r][a] = rep
        /\ \A b \in Accounts \ {a} : reply'[r][b] = reply[r][b]
    BY <1>8 DEF Receive, TypeOK
  <2>2. \/ pc'[r] = "pipe" /\ IsSuccess(rep)
        \/ pc'[r] \in {"mark", "record"} /\ ~IsSuccess(rep)
    BY <1>8 DEF Receive, TypeOK
  <2>3. answer'[r] = "none" /\ \A b \in cur[r] : b = a
    BY <1>0, <2>1 DEF OneInHand, Dialogue, Unanswered
  <2>4. \A b \in left[r] : b \in Accounts \ {a}
    BY <1>0, <2>1 DEF Dialogue, TypeOK
  <2>5. Dialogue(r)'
    BY <1>0, <2>1, <2>2, <2>3, <2>4 DEF Dialogue, Unanswered, Called
  <2> QED BY <2>2, <2>3, <2>5, NothingTold
<1>9. ASSUME NEW a \in Accounts, MarkRefused(r, a)
      PROVE  Dialogue(r)' /\ Justified(r)'
  <2>1. /\ pc[r] = "mark" /\ pc'[r] = "record"
        /\ UNCHANGED <<left, cur, reply, answer>>
    BY <1>9 DEF MarkRefused, TypeOK
  <2>2. answer'[r] = "none"
    BY <1>0, <2>1 DEF Dialogue, Unanswered
  <2>3. Dialogue(r)'
    BY <1>0, <2>1, <2>2 DEF Dialogue, Unanswered, Called
  <2> QED BY <2>1, <2>2, <2>3, NothingTold
<1>10. ASSUME NEW a \in Accounts, RecordAndStop(r, a)
       PROVE  Dialogue(r)' /\ Justified(r)'
  <2>1. /\ pc[r] = "record" /\ pc'[r] = "done" /\ a \in cur[r]
        /\ ~Rotates(reply[r][a]) /\ answer'[r] = "upstream"
        /\ left'[r] = {} /\ cur'[r] = {} /\ UNCHANGED reply
    BY <1>10 DEF RecordAndStop, Finish, TypeOK
  <2>2. \A b \in cur[r] : b = a
    BY <2>1 DEF OneInHand
  <2>3. reply[r][a] \in Replies /\ ~IsSuccess(reply[r][a])
    BY <1>0, <2>1 DEF Dialogue
  <2>4. \A b \in Called(r) \ {a} : Rotates(reply[r][b])
    BY <1>0, <2>1, <2>2 DEF Dialogue, Unanswered
  <2>5. a \in Called(r) /\ reply[r][a] # InFlight
    BY <2>3, ReplyFacts DEF Called
  <2>6. Justified(r)'
    BY <2>1, <2>3, <2>4, <2>5 DEF Justified, Called
  <2> QED BY <2>1, <2>6, NothingLeft
<1>11. ASSUME NEW a \in Accounts, RecordAndRotate(r, a) \/ MarkExhausted(r, a)
       PROVE  Dialogue(r)' /\ Justified(r)'
  <2>1. /\ pc[r] \in {"record", "mark"} /\ a \in cur[r]
        /\ UNCHANGED <<left, reply, answer>>
        /\ \/ pc'[r] = "mark" /\ cur'[r] = cur[r]
           \/ pc'[r] = "pick" /\ cur'[r] = {}
    BY <1>11 DEF RecordAndRotate, MarkExhausted, TypeOK
  <2>2. reply[r][a] \in Replies /\ ~IsSuccess(reply[r][a])
    BY <1>0, <2>1 DEF Dialogue
  <2>3. Rotates(reply[r][a]) /\ reply[r][a] # InFlight
    BY <1>11, <2>2, RotateFacts, ReplyFacts DEF RecordAndRotate, MarkExhausted
  <2>4. answer'[r] = "none" /\ \A b \in cur[r] : b = a
    BY <1>0, <2>1 DEF OneInHand, Dialogue, Unanswered
  <2>5. Dialogue(r)'
    BY <1>0, <2>1, <2>2, <2>3, <2>4 DEF Dialogue, Unanswered, Called
  <2> QED BY <2>1, <2>4, <2>5, NothingTold
<1>12. ASSUME NEW whole \in BOOLEAN, NEW usage \in BOOLEAN,
              Pipe(r, whole, usage)
       PROVE  Dialogue(r)' /\ Justified(r)'
  <2>1. /\ pc[r] = "pipe" /\ pc'[r] \in {"touch", "final"}
        /\ answer'[r] \in {"delivered", "broken"}
        /\ UNCHANGED <<left, cur, reply>>
    BY <1>12 DEF Pipe, TypeOK
  <2>2. PICK a \in cur[r] : reply[r][a] \in Replies /\ IsSuccess(reply[r][a])
    BY <1>0, <2>1 DEF Dialogue
  <2>3. a \in Accounts /\ \A b \in cur[r] : b = a
    BY <2>2 DEF OneInHand, TypeOK
  <2>4. a \in Called(r) /\ reply[r][a] # InFlight /\ ~Rotates(reply[r][a])
    BY <2>2, <2>3, ReplyFacts, RotateFacts DEF Called
  <2>5. \A b \in Called(r) \ {a} : Rotates(reply[r][b])
    BY <1>0, <2>1, <2>3 DEF Dialogue, Unanswered
  <2>6. Justified(r)'
    BY <2>1, <2>2, <2>4, <2>5 DEF Justified, Called
  <2>7. Dialogue(r)'
    BY <1>0, <2>1 DEF Dialogue, Unanswered
  <2> QED BY <2>6, <2>7
<1>13. ASSUME NEW a \in Accounts, Touch(r, a) \/ RecordSuccess(r, a)
       PROVE  Dialogue(r)' /\ Justified(r)'
  <2>1. /\ pc[r] \in {"touch", "final"} /\ UNCHANGED <<reply, answer>>
        /\ \/ pc'[r] = "final" /\ UNCHANGED <<left, cur>>
           \/ pc'[r] = "done" /\ left'[r] = {} /\ cur'[r] = {}
    BY <1>13 DEF Touch, RecordSuccess, Finish, TypeOK
  <2>2. answer[r] # "none"
    BY <1>0, <2>1 DEF Dialogue, Unanswered
  <2>3. Dialogue(r)'
    BY <1>0, <2>1, <2>2 DEF Dialogue, Unanswered
  <2>4. Justified(r)'
    BY <1>0, <2>1, <2>2 DEF Justified, Called
  <2> QED BY <2>3, <2>4
<1> QED BY <1>1, <1>3, <1>4, <1>5, <1>6, <1>7, <1>8, <1>9, <1>10, <1>11,
           <1>12, <1>13 DEF Step

\* A step of one request is nothing to the dialogues of the others.
LEMMA OthersKeep ==
  ASSUME TypeOK, NEW r \in Requests, Arrive(r) \/ Step(r),
         NEW q \in Requests \ {r}
  PROVE  /\ pc'[q] = pc[q] /\ left'[q] = left[q] /\ cur'[q] = cur[q]
         /\ reply'[q] = reply[q] /\ answer'[q] = answer[q]
<1> USE DEF TypeOK, Goto, Tell, history
<1>1. CASE Arrive(r) \/ List(r) \/ Filter(r) \/ GiveUp(r)
  BY <1>1 DEF Arrive, List, Filter, GiveUp, Finish
<1>2. ASSUME NEW a \in Accounts,
             \/ Skip(r, a) \/ Pick(r, a) \/ Send(r, a) \/ MarkRefused(r, a)
             \/ RecordAndRotate(r, a) \/ MarkExhausted(r, a) \/ Touch(r, a)
      PROVE  /\ pc'[q] = pc[q] /\ left'[q] = left[q] /\ cur'[q] = cur[q]
             /\ reply'[q] = reply[q] /\ answer'[q] = answer[q]
  BY <1>2 DEF Skip, Pick, Send, MarkRefused, RecordAndRotate, MarkExhausted,
              Touch
<1>3. ASSUME NEW a \in Accounts, RecordAndStop(r, a) \/ RecordSuccess(r, a)
      PROVE  /\ pc'[q] = pc[q] /\ left'[q] = left[q] /\ cur'[q] = cur[q]
             /\ reply'[q] = reply[q] /\ answer'[q] = answer[q]
  BY <1>3 DEF RecordAndStop, RecordSuccess, Finish
<1>4. ASSUME NEW a \in Accounts, NEW rep \in Replies, Receive(r, a, rep)
      PROVE  /\ pc'[q] = pc[q] /\ left'[q] = left[q] /\ cur'[q] = cur[q]
             /\ reply'[q] = reply[q] /\ answer'[q] = answer[q]
  BY <1>4 DEF Receive
<1>5. ASSUME NEW whole \in BOOLEAN, NEW usage \in BOOLEAN,
             Pipe(r, whole, usage)
      PROVE  /\ pc'[q] = pc[q] /\ left'[q] = left[q] /\ cur'[q] = cur[q]
             /\ reply'[q] = reply[q] /\ answer'[q] = answer[q]
  BY <1>5 DEF Pipe
<1> QED BY <1>1, <1>2, <1>3, <1>4, <1>5 DEF Step

\* The rest of the server, but for a restart, leaves every dialogue alone.
LEMMA EnvironmentKeeps ==
  ASSUME Environment, ~Restart
  PROVE  UNCHANGED <<pc, left, cur, reply, answer>>
BY DEF Environment, Authorize, AddAccount, DeleteAccount, SetEnabled,
       RefreshQuota, Edit, Midnight, locals, history

LEMMA RestartDialogue ==
  ASSUME TypeOK, DialogueInv, Restart, NEW q \in Requests
  PROVE  Dialogue(q)' /\ Justified(q)'
<1>1. /\ left'[q] = {} /\ cur'[q] = {} /\ UNCHANGED <<reply, answer>>
      /\ pc'[q] = IF Live(q) THEN "lost" ELSE pc[q]
  BY DEF Restart, history
<1>2. Dialogue(q) /\ Justified(q)
  BY DEF DialogueInv
<1>3. CASE Live(q)
  BY <1>1, <1>2, <1>3 DEF Dialogue, Justified, Unanswered, Called
<1>4. CASE ~Live(q)
  BY <1>1, <1>2, <1>4 DEF Live, Dialogue, Justified, Unanswered, Called
<1> QED BY <1>3, <1>4

LEMMA DialogueStep ==
  ASSUME TypeOK, OneInHand, DialogueInv, [Next]_vars
  PROVE  DialogueInv'
<1>1. ASSUME NEW r \in Requests, Arrive(r) \/ Step(r)
      PROVE  DialogueInv'
  <2>1. ASSUME NEW q \in Requests \ {r} PROVE Dialogue(q)' /\ Justified(q)'
    BY <1>1, <2>1, OthersKeep, DialogueFrame DEF DialogueInv
  <2>2. Dialogue(r)' /\ Justified(r)'
    BY <1>1, StepDialogue
  <2> QED BY <2>1, <2>2 DEF DialogueInv
<1>2. CASE Restart
  BY <1>2, RestartDialogue DEF DialogueInv
<1>3. CASE UNCHANGED <<pc, left, cur, reply, answer>>
  BY <1>3, DialogueFrame DEF DialogueInv
<1>4. CASE UNCHANGED vars
  BY <1>3, <1>4 DEF vars, locals, history
<1> QED BY <1>1, <1>2, <1>3, <1>4, EnvironmentKeeps DEF Next

\* The strengthened invariant, for every behaviour of the channel.
LEMMA DialogueAlways == Spec => [](TypeOK /\ OneInHand /\ DialogueInv)
<1>1. TypeOK /\ OneInHand /\ DialogueInv /\ [Next]_vars
        => OneInHand' /\ DialogueInv'
  BY StepOneInHand, DialogueStep
<1> QED BY <1>1, TypeCorrect, InitOneInHand, InitDialogue, PTL DEF Spec

\* What a client is told agrees with the calls its request caused: an
\* upstream error is passed through only if it is the one reply that stopped
\* the rotation, "unavailable" is said only if every account tried blamed its
\* credential, and nothing was called where the answer says so.
THEOREM AnswersAreJustified == Spec => []AnswerJustified
<1>1. DialogueInv => AnswerJustified
  BY DEF DialogueInv, AnswerJustified
<1> QED BY <1>1, DialogueAlways, PTL

-----------------------------------------------------------------------------
(* The refinement.                                                         *)

\* The phase of a request and the accounts it used are functions of its
\* dialogue.
LEMMA PhaseFrame ==
  ASSUME NEW q \in Requests, pc'[q] = pc[q], cur'[q] = cur[q],
         reply'[q] = reply[q], answer'[q] = answer[q]
  PROVE  Phase(q)' = Phase(q) /\ Called(q)' = Called(q)
BY DEF Phase, Called

\* A step of one request moves its phase, and calls at most one account.
LEMMA PhaseMove ==
  ASSUME TypeOK, NEW r \in Requests, Arrive(r) \/ Step(r)
  PROVE  /\ phaseMap' = [phaseMap EXCEPT ![r] = Phase(r)']
         /\ usedMap' = [usedMap EXCEPT ![r] = Called(r)']
<1>1. ASSUME NEW q \in Requests \ {r}
      PROVE  Phase(q)' = Phase(q) /\ Called(q)' = Called(q)
  BY <1>1, OthersKeep, PhaseFrame
<1> QED BY <1>1 DEF phaseMap, usedMap

\* The moves of ChatPromise in terms of the channel's phases.
LEMMA PromiseMoves ==
  ASSUME NEW r \in Requests,
         phaseMap' = [phaseMap EXCEPT ![r] = Phase(r)'],
         usedMap' = [usedMap EXCEPT ![r] = Called(r)'],
         \/ Phase(r)' = Phase(r) /\ Called(r)' = Called(r)
         \/ /\ Called(r)' = Called(r)
            /\ \/ Phase(r) = "new" /\ Phase(r)' = "open"
               \/ Phase(r) = "calling" /\ Phase(r)' \in {"open", "settled"}
               \/ Phase(r) \in {"open", "settled"} /\ Phase(r)' = "answered"
         \/ /\ Phase(r) = "open" /\ Phase(r)' = "calling"
            /\ \E a \in Accounts \ Called(r) : Called(r)' = Called(r) \cup {a}
  PROVE  [Promise!Next]_(Promise!vars)
<1>1. phaseMap[r] = Phase(r) /\ usedMap[r] = Called(r)
  BY DEF phaseMap, usedMap
<1>2. CASE Phase(r)' = Phase(r) /\ Called(r)' = Called(r)
  <2>1. phaseMap' = phaseMap /\ usedMap' = usedMap
    BY <1>1, <1>2 DEF phaseMap, usedMap
  <2> QED BY <2>1 DEF Promise!vars
<1>3. ASSUME Called(r)' = Called(r) PROVE usedMap' = usedMap
  BY <1>1, <1>3 DEF usedMap
<1>4. CASE Called(r)' = Called(r) /\ Phase(r) = "new" /\ Phase(r)' = "open"
  BY <1>1, <1>3, <1>4 DEF Promise!Next, Promise!Open, Promise!Move
<1>5. CASE /\ Called(r)' = Called(r)
           /\ Phase(r) = "calling" /\ Phase(r)' \in {"open", "settled"}
  BY <1>1, <1>3, <1>5
     DEF Promise!Next, Promise!Rotate, Promise!Settle, Promise!Move
<1>6. CASE /\ Called(r)' = Called(r)
           /\ Phase(r) \in {"open", "settled"} /\ Phase(r)' = "answered"
  BY <1>1, <1>3, <1>6 DEF Promise!Next, Promise!Answer, Promise!Move
<1>7. CASE /\ Phase(r) = "open" /\ Phase(r)' = "calling"
           /\ \E a \in Accounts \ Called(r) : Called(r)' = Called(r) \cup {a}
  <2>1. PICK a \in Accounts \ Called(r) : Called(r)' = Called(r) \cup {a}
    BY <1>7
  <2>2. Promise!Call(r, a)
    BY <1>1, <1>7, <2>1 DEF Promise!Call, Promise!Move
  <2> QED BY <2>2 DEF Promise!Next
<1> QED BY <1>2, <1>4, <1>5, <1>6, <1>7

\* Every step of a request is a move of ChatPromise or no move at all.
LEMMA StepMoves ==
  ASSUME TypeOK, OneInHand, DialogueInv, NEW r \in Requests,
         Arrive(r) \/ Step(r)
  PROVE  [Promise!Next]_(Promise!vars)
<1> USE DEF table, history, Goto, Tell
<1> DEFINE Stay == Phase(r)' = Phase(r) /\ Called(r)' = Called(r)
           Open == /\ Called(r)' = Called(r)
                   /\ Phase(r) = "new" /\ Phase(r)' = "open"
           Back == /\ Called(r)' = Called(r) /\ Phase(r) = "calling"
                   /\ Phase(r)' \in {"open", "settled"}
           Told == /\ Called(r)' = Called(r)
                   /\ Phase(r) \in {"open", "settled"} /\ Phase(r)' = "answered"
           Call == /\ Phase(r) = "open" /\ Phase(r)' = "calling"
                   /\ \E a \in Accounts \ Called(r) :
                        Called(r)' = Called(r) \cup {a}
<1>0. Dialogue(r)
  BY DEF DialogueInv
<1>1. CASE Arrive(r)
  <2>1. /\ pc[r] = "idle" /\ pc'[r] = "list"
        /\ UNCHANGED <<cur, reply, answer>>
    BY <1>1 DEF Arrive, TypeOK
  <2>2. answer[r] = "none" /\ cur[r] = {}
    BY <1>0, <2>1 DEF Dialogue, Unanswered, OneInHand, CallStages
  <2>3. Open
    BY <2>1, <2>2 DEF Phase, Called
  <2> QED BY <1>1, <2>3, PhaseMove, PromiseMoves
\* The answer that ends a request, at whatever stage it is given.
<1>2. ASSUME NEW text \in Answers \ {"none"}, Finish(r), Tell(r, text),
             UNCHANGED reply, pc[r] \in {"list", "filter", "pick", "record"}
      PROVE  Told
  <2>1. answer[r] = "none" /\ answer'[r] = text
    BY <1>0, <1>2 DEF Dialogue, Unanswered, TypeOK
  <2>2. Phase(r) \in {"open", "settled"}
    BY <1>2, <2>1 DEF Phase
  <2>3. Phase(r)' = "answered"
    BY <1>2, <2>1 DEF Phase
  <2> QED BY <1>2, <2>2, <2>3 DEF Called
\* Stages between two calls, and those between a reply and what it leads to.
<1>3. ASSUME pc[r] \in {"list", "filter", "pick", "mark", "record"},
             pc'[r] \in {"filter", "pick", "send", "mark", "record"},
             UNCHANGED <<reply, answer>>,
             (\E a \in cur'[r] : reply[r][a] # Unsent /\ ~Rotates(reply[r][a]))
               <=>
             (\E a \in cur[r] : reply[r][a] # Unsent /\ ~Rotates(reply[r][a]))
      PROVE  Stay
  <2>1. answer[r] = "none"
    BY <1>0, <1>3 DEF Dialogue, Unanswered
  <2> QED BY <1>3, <2>1 DEF Phase, Called
<1>4. CASE List(r) \/ Filter(r)
  <2>1. \/ /\ pc[r] \in {"list", "filter"} /\ Finish(r) /\ UNCHANGED reply
           /\ \E text \in Answers \ {"none"} : Tell(r, text)
        \/ /\ pc[r] \in {"list", "filter"} /\ pc'[r] \in {"filter", "pick"}
           /\ UNCHANGED <<cur, reply, answer>>
    <3>1. {"no_account", "exhausted"} \subseteq Answers \ {"none"}
      BY DEF Answers
    <3> QED BY <1>4, <3>1 DEF List, Filter, TypeOK
  <2>2. Told \/ Stay
    BY <2>1, <1>2, <1>3
  <2> QED BY <1>4, <2>2, PhaseMove, PromiseMoves DEF Step
<1>5. CASE GiveUp(r)
  <2>1. "unavailable" \in Answers \ {"none"}
    BY DEF Answers
  <2>2. Told
    BY <1>2, <1>5, <2>1 DEF GiveUp
  <2> QED BY <1>5, <2>2, PhaseMove, PromiseMoves DEF Step
<1>6. ASSUME NEW a \in Accounts, Skip(r, a) \/ Pick(r, a)
      PROVE  [Promise!Next]_(Promise!vars)
  <2>1. /\ pc[r] = "pick" /\ pc'[r] \in {"pick", "send"}
        /\ a \in left[r]
        /\ cur'[r] = IF pc'[r] = "send" THEN {a} ELSE cur[r]
        /\ UNCHANGED <<reply, answer>>
    BY <1>6 DEF Skip, Pick, IsFirst, TypeOK
  <2>2. cur[r] = {} /\ reply[r][a] = Unsent
    BY <1>0, <2>1 DEF OneInHand, CallStages, Dialogue
  <2>3. Stay
    BY <1>3, <2>1, <2>2
  <2> QED BY <1>6, <2>3, PhaseMove, PromiseMoves DEF Step
<1>7. ASSUME NEW a \in Accounts, Send(r, a)
      PROVE  [Promise!Next]_(Promise!vars)
  <2>1. /\ pc[r] = "send" /\ pc'[r] = "wait" /\ a \in cur[r]
        /\ UNCHANGED <<cur, answer>>
        /\ reply'[r][a] = InFlight
        /\ \A b \in Accounts \ {a} : reply'[r][b] = reply[r][b]
    BY <1>7 DEF Send, TypeOK
  <2>2. /\ answer[r] = "none" /\ reply[r][a] = Unsent
        /\ \A b \in cur[r] : b = a
    BY <1>0, <2>1 DEF Dialogue, Unanswered, OneInHand
  <2>3. Phase(r) = "open" /\ Phase(r)' = "calling"
    BY <2>1, <2>2 DEF Phase
  <2>4. a \notin Called(r) /\ Called(r)' = Called(r) \cup {a}
    BY <2>1, <2>2, ReplyFacts DEF Called
  <2>5. Call
    BY <2>3, <2>4
  <2> QED BY <1>7, <2>5, PhaseMove, PromiseMoves DEF Step
<1>8. ASSUME NEW a \in Accounts, NEW rep \in Replies, Receive(r, a, rep)
      PROVE  [Promise!Next]_(Promise!vars)
  <2>1. /\ pc[r] = "wait" /\ pc'[r] \in {"pipe", "mark", "record"}
        /\ a \in cur[r] /\ UNCHANGED <<cur, answer>>
        /\ reply'[r][a] = rep
        /\ \A b \in Accounts \ {a} : reply'[r][b] = reply[r][b]
    BY <1>8 DEF Receive, TypeOK
  <2>2. answer[r] = "none" /\ reply[r][a] = InFlight
    BY <1>0, <2>1 DEF Dialogue, Unanswered
  <2>3. Phase(r) = "calling" /\ Phase(r)' \in {"open", "settled"}
    BY <2>1, <2>2 DEF Phase
  <2>4. Called(r)' = Called(r)
    BY <2>1, <2>2, ReplyFacts DEF Called
  <2>5. Back
    BY <2>3, <2>4
  <2> QED BY <1>8, <2>5, PhaseMove, PromiseMoves DEF Step
<1>9. ASSUME NEW a \in Accounts, MarkRefused(r, a)
      PROVE  [Promise!Next]_(Promise!vars)
  <2>1. /\ pc[r] = "mark" /\ pc'[r] = "record"
        /\ UNCHANGED <<cur, reply, answer>>
    BY <1>9 DEF MarkRefused, TypeOK
  <2>2. Stay
    BY <1>3, <2>1
  <2> QED BY <1>9, <2>2, PhaseMove, PromiseMoves DEF Step
<1>10. ASSUME NEW a \in Accounts, RecordAndStop(r, a)
       PROVE  [Promise!Next]_(Promise!vars)
  <2>1. "upstream" \in Answers \ {"none"}
    BY DEF Answers
  <2>2. Told
    BY <1>2, <1>10, <2>1 DEF RecordAndStop
  <2> QED BY <1>10, <2>2, PhaseMove, PromiseMoves DEF Step
\* The account is let go only after a reply that rotates.
<1>11. ASSUME NEW a \in Accounts, RecordAndRotate(r, a) \/ MarkExhausted(r, a)
       PROVE  [Promise!Next]_(Promise!vars)
  <2>1. /\ pc[r] \in {"record", "mark"} /\ a \in cur[r]
        /\ UNCHANGED <<reply, answer>>
        /\ \/ pc'[r] = "mark" /\ cur'[r] = cur[r]
           \/ pc'[r] = "pick" /\ cur'[r] = {}
    BY <1>11 DEF RecordAndRotate, MarkExhausted, TypeOK
  <2>2. Rotates(reply[r][a]) /\ \A b \in cur[r] : b = a
    BY <1>0, <1>11, <2>1, RotateFacts
       DEF RecordAndRotate, MarkExhausted, Dialogue, OneInHand
  <2>3. Stay
    BY <1>3, <2>1, <2>2
  <2> QED BY <1>11, <2>3, PhaseMove, PromiseMoves DEF Step
<1>12. ASSUME NEW whole \in BOOLEAN, NEW usage \in BOOLEAN,
              Pipe(r, whole, usage)
       PROVE  [Promise!Next]_(Promise!vars)
  <2>1. /\ pc[r] = "pipe" /\ answer'[r] # "none" /\ UNCHANGED reply
    BY <1>12 DEF Pipe, TypeOK
  <2>2. answer[r] = "none"
    BY <1>0, <2>1 DEF Dialogue, Unanswered
  <2>3. Phase(r) \in {"open", "settled"} /\ Phase(r)' = "answered"
    BY <2>1, <2>2 DEF Phase
  <2>4. Told
    BY <2>1, <2>3 DEF Called
  <2> QED BY <1>12, <2>4, PhaseMove, PromiseMoves DEF Step
<1>13. ASSUME NEW a \in Accounts, Touch(r, a) \/ RecordSuccess(r, a)
       PROVE  [Promise!Next]_(Promise!vars)
  <2>1. /\ pc[r] \in {"touch", "final"} /\ UNCHANGED <<reply, answer>>
    BY <1>13 DEF Touch, RecordSuccess
  <2>2. answer[r] # "none"
    BY <1>0, <2>1 DEF Dialogue, Unanswered
  <2>3. Stay
    BY <2>1, <2>2 DEF Phase, Called
  <2> QED BY <1>13, <2>3, PhaseMove, PromiseMoves DEF Step
<1> QED BY <1>1, <1>4, <1>5, <1>6, <1>7, <1>8, <1>9, <1>10, <1>11, <1>12,
           <1>13 DEF Step

\* A restart loses the requests that are neither new nor answered.
LEMMA RestartMoves ==
  ASSUME TypeOK, DialogueInv, Restart
  PROVE  [Promise!Next]_(Promise!vars)
<1> DEFINE gone == {q \in Requests : Live(q) /\ answer[q] = "none"}
<1>1. /\ \A q \in Requests : /\ cur'[q] = {}
                             /\ pc'[q] = IF Live(q) THEN "lost" ELSE pc[q]
      /\ UNCHANGED <<reply, answer>>
  BY DEF Restart, history
<1>2. \A q \in gone : Phase(q) \in {"open", "calling", "settled"}
  BY DEF Phase, Live
<1>3. \A q \in gone : Phase(q)' = "lost"
  BY <1>1 DEF Phase, Live
<1>4. ASSUME NEW q \in Requests \ gone PROVE Phase(q)' = Phase(q)
  <2>1. Dialogue(q)
    BY DEF DialogueInv
  <2>2. pc[q] \in {"idle", "done", "lost"} \/ answer[q] # "none"
    BY DEF Live
  <2>3. pc[q] = "done" => answer[q] # "none"
    BY <2>1 DEF Dialogue, Unanswered
  <2> QED BY <1>1, <2>2, <2>3 DEF Phase, Live
<1>5. phaseMap' = [q \in Requests |-> IF q \in gone THEN "lost" ELSE phaseMap[q]]
  BY <1>3, <1>4 DEF phaseMap
<1>6. usedMap' = usedMap
  BY <1>1 DEF usedMap, Called
<1>7. \A q \in gone : phaseMap[q] \in {"open", "calling", "settled"}
  BY <1>2 DEF phaseMap
<1>8. gone \in SUBSET Requests
  OBVIOUS
<1> HIDE DEF gone
<1>9. Promise!Lose(gone)
  BY <1>5, <1>6, <1>7 DEF Promise!Lose
<1> QED BY <1>8, <1>9 DEF Promise!Next

LEMMA InitMoves == Init => Promise!Init
<1> SUFFICES ASSUME Init PROVE Promise!Init
  OBVIOUS
<1>1. \A r \in Requests : Phase(r) = "new" /\ Called(r) = {}
  BY DEF Init, Phase, Called
<1> QED BY <1>1 DEF Promise!Init, phaseMap, usedMap

LEMMA NextMoves ==
  ASSUME TypeOK, OneInHand, DialogueInv, [Next]_vars
  PROVE  [Promise!Next]_(Promise!vars)
<1>1. ASSUME NEW r \in Requests, Arrive(r) \/ Step(r)
      PROVE  [Promise!Next]_(Promise!vars)
  BY <1>1, StepMoves
<1>2. CASE Restart
  BY <1>2, RestartMoves
<1>3. CASE UNCHANGED <<pc, left, cur, reply, answer>>
  <2>1. \A r \in Requests : Phase(r)' = Phase(r) /\ Called(r)' = Called(r)
    BY <1>3 DEF Phase, Called
  <2> QED BY <2>1 DEF Promise!vars, phaseMap, usedMap
<1>4. CASE UNCHANGED vars
  BY <1>3, <1>4 DEF vars, locals, history
<1> QED BY <1>1, <1>2, <1>3, <1>4, EnvironmentKeeps DEF Next

\* The device channel implements ChatPromise: one account at a time, none
\* twice, no call after a reply that does not blame the credential, one
\* answer, and no call after it, whatever the other requests, the
\* administrator, the gateway and restarts do.
THEOREM ChannelKeepsPromise == Spec => KeepsPromise
<1>1. TypeOK /\ OneInHand /\ DialogueInv /\ [Next]_vars
        => [Promise!Next]_(Promise!vars)
  BY NextMoves
<1> QED BY <1>1, InitMoves, DialogueAlways, PTL
        DEF Spec, KeepsPromise, Promise!Spec

-----------------------------------------------------------------------------
(* The ledger.                                                             *)

\* The account in hand has a reply that is not recorded yet.  A refusal is
\* marked before it is recorded, a used-up quota after it.
Unrecorded(r, a) ==
  \/ pc[r] \in {"record", "pipe", "touch", "final"}
  \/ pc[r] = "mark" /\ ~QuotaSignal(reply[r][a])

Recorded(r, a) == rows[r][a] = 1 \/ StoreMayFail

Ledger(r) ==
  /\ \A a \in Accounts :
       /\ rows[r][a] \in {0, 1}
       /\ rows[r][a] = 1 => reply[r][a] \notin {Unsent, InFlight}
       /\ pc[r] # "lost" /\ a \in Called(r) \ cur[r] => Recorded(r, a)
  /\ \A a \in cur[r] :
       /\ Unrecorded(r, a) => rows[r][a] = 0 /\ reply[r][a] \in Replies
       /\ pc[r] = "mark" /\ QuotaSignal(reply[r][a]) =>
            Recorded(r, a) /\ reply[r][a] \in Replies

\* No two calls of a request are without a record.
Paired(r) ==
  \A a, b \in Called(r) :
    rows[r][a] = 0 /\ rows[r][b] = 0 => a = b \/ StoreMayFail

LedgerInv == \A r \in Requests : Ledger(r) /\ Paired(r)

LEMMA InitLedger == Init => LedgerInv
BY DEF Init, LedgerInv, Ledger, Paired, Called, Unrecorded

LEMMA LedgerFrame ==
  ASSUME NEW q \in Requests, Ledger(q), Paired(q),
         pc'[q] = pc[q], cur'[q] = cur[q], reply'[q] = reply[q], rows'[q] = rows[q]
  PROVE  Ledger(q)' /\ Paired(q)'
<1>1. Called(q)' = Called(q)  BY DEF Called
<1>2. Ledger(q)'  BY <1>1 DEF Ledger, Unrecorded, Recorded
<1>3. Paired(q)'  BY <1>1 DEF Paired
<1> QED  BY <1>2, <1>3

\* A refusal is never a used-up quota, so it is clear what a mark is for.
LEMMA MarksDiffer ==
  ASSUME NEW rep \in Replies, QuotaSignal(rep)
  PROVE  ~Untrusts(rep) /\ ~DeviceCredentialRetired(rep)
<1>1. rep.status = 429  BY DEF QuotaSignal
<1>2. Verdict(rep) \notin {"relogin", "ban"}
  BY <1>1 DEF Verdict, IsSuccess, IsNetworkError, DeviceNotTrusted, DeviceCredentialRetired
<1> QED  BY <1>1, <1>2 DEF Untrusts, DeviceCredentialRetired

\* Outside of a restart, only the account in hand can be without a record.
LEMMA OneOpen ==
  ASSUME OneInHand', NEW r \in Requests, Ledger(r)', pc'[r] # "lost"
  PROVE  Paired(r)'
<1> SUFFICES ASSUME NEW a \in Called(r)', NEW b \in Called(r)',
                    rows'[r][a] = 0, rows'[r][b] = 0, ~StoreMayFail
             PROVE  a = b
  BY DEF Paired
<1>1. a \in cur'[r] /\ b \in cur'[r]  BY DEF Ledger, Recorded, Called
<1> QED  BY <1>1 DEF OneInHand

\* A call's record is written, or the write fails.
LEMMA Written ==
  ASSUME TypeOK, NEW r \in Requests, NEW a \in Accounts,
         \E ok \in Stored : rows' = IF ok THEN [rows EXCEPT ![r][a] = @ + 1] ELSE rows,
         rows[r][a] = 0
  PROVE  /\ rows'[r][a] \in {0, 1}
         /\ rows'[r][a] = 1 \/ StoreMayFail
         /\ \A b \in Accounts \ {a} : rows'[r][b] = rows[r][b]
<1>1. CASE rows' = [rows EXCEPT ![r][a] = @ + 1]  BY <1>1 DEF TypeOK
<1>2. CASE rows' = rows /\ StoreMayFail  BY <1>2
<1> QED  BY <1>1, <1>2, ChannelAssumption DEF Stored

LEMMA StepLedger ==
  ASSUME TypeOK, OneInHand, DialogueInv, LedgerInv, NEW r \in Requests,
         Arrive(r) \/ Step(r)
  PROVE  Ledger(r)' /\ pc'[r] # "lost"
<1> USE DEF table, history, Goto, Tell
<1>0. Dialogue(r) /\ Ledger(r)  BY DEF DialogueInv, LedgerInv
\* Before a call: nothing is in hand.
<1>1. ASSUME UNCHANGED <<reply, rows>>, pc[r] \in {"idle", "list", "filter", "pick"},
             pc'[r] \in {"list", "filter", "pick", "send", "done"}
      PROVE  Ledger(r)' /\ pc'[r] # "lost"
  <2>1. cur[r] = {}  BY <1>1 DEF OneInHand, CallStages
  <2> QED  BY <1>0, <1>1, <2>1 DEF Ledger, Unrecorded, Recorded, Called
<1>2. CASE Arrive(r) \/ List(r) \/ Filter(r) \/ GiveUp(r)
  <2>1. /\ UNCHANGED <<reply, rows>> /\ pc[r] \in {"idle", "list", "filter", "pick"}
        /\ pc'[r] \in {"list", "filter", "pick", "send", "done"}
    BY <1>2 DEF Arrive, List, Filter, GiveUp, Finish, TypeOK
  <2> QED  BY <1>1, <2>1
<1>3. ASSUME NEW a \in Accounts, Skip(r, a) \/ Pick(r, a)
      PROVE  Ledger(r)' /\ pc'[r] # "lost"
  <2>1. /\ UNCHANGED <<reply, rows>> /\ pc[r] = "pick" /\ pc'[r] \in {"pick", "send"}
    BY <1>3 DEF Skip, Pick, TypeOK
  <2> QED  BY <1>1, <2>1
\* The call: there is no record of it yet.
<1>4. ASSUME NEW a \in Accounts, NEW rep, a \in cur[r], UNCHANGED <<cur, rows>>,
             reply'[r][a] = rep, \A b \in Accounts \ {a} : reply'[r][b] = reply[r][b],
             pc[r] \in {"send", "wait"},
             \/ pc'[r] = "wait"
             \/ /\ rep \in Replies /\ pc'[r] \in {"pipe", "mark", "record"}
                /\ pc'[r] = "mark" => ~QuotaSignal(rep)
      PROVE  Ledger(r)' /\ pc'[r] # "lost"
  <2>1. \A b \in cur[r] : b = a  BY <1>4 DEF OneInHand
  <2>2. reply[r][a] \in {Unsent, InFlight}  BY <1>0, <1>4 DEF Dialogue
  <2>3. rows[r][a] = 0  BY <1>0, <2>2 DEF Ledger
  <2>4. \A b \in Called(r)' \ cur'[r] : b \in Called(r) \ cur[r]
    BY <1>4 DEF Called
  <2> QED  BY <1>0, <1>4, <2>1, <2>3, <2>4 DEF Ledger, Unrecorded, Recorded
<1>5. ASSUME NEW a \in Accounts, Send(r, a) PROVE Ledger(r)' /\ pc'[r] # "lost"
  <2>1. /\ a \in cur[r] /\ UNCHANGED <<cur, rows>> /\ reply'[r][a] = InFlight
        /\ \A b \in Accounts \ {a} : reply'[r][b] = reply[r][b]
        /\ pc[r] = "send" /\ pc'[r] = "wait"
    BY <1>5 DEF Send, TypeOK
  <2> QED  BY <1>4, <2>1
<1>6. ASSUME NEW a \in Accounts, NEW rep \in Replies, Receive(r, a, rep)
      PROVE  Ledger(r)' /\ pc'[r] # "lost"
  <2>1. /\ a \in cur[r] /\ UNCHANGED <<cur, rows>> /\ reply'[r][a] = rep
        /\ \A b \in Accounts \ {a} : reply'[r][b] = reply[r][b]
        /\ pc[r] = "wait" /\ pc'[r] \in {"pipe", "mark", "record"}
        /\ pc'[r] = "mark" => Untrusts(rep) \/ DeviceCredentialRetired(rep)
    BY <1>6 DEF Receive, TypeOK
  <2> QED  BY <1>4, <2>1, MarksDiffer
\* The reply: it goes from stage to stage and waits for its record.
<1>7. ASSUME NEW a \in cur[r], Unrecorded(r, a), UNCHANGED <<cur, reply, rows>>,
             pc'[r] \in {"record", "touch", "final"}
      PROVE  Ledger(r)' /\ pc'[r] # "lost"
  <2>1. \A b \in cur[r] : b = a  BY <1>7 DEF OneInHand
  <2>2. pc[r] # "lost"  BY <1>7 DEF Unrecorded
  <2> QED  BY <1>0, <1>7, <2>1, <2>2 DEF Ledger, Unrecorded, Recorded, Called
<1>8. ASSUME NEW a \in Accounts, MarkRefused(r, a) PROVE Ledger(r)' /\ pc'[r] # "lost"
  <2>1. /\ a \in cur[r] /\ pc[r] = "mark" /\ pc'[r] = "record"
        /\ UNCHANGED <<cur, reply, rows>>
        /\ Untrusts(reply[r][a]) \/ DeviceCredentialRetired(reply[r][a])
    BY <1>8 DEF MarkRefused, TypeOK
  <2>2. ~QuotaSignal(reply[r][a])  BY <1>0, <2>1, MarksDiffer DEF Ledger
  <2> QED  BY <1>7, <2>1, <2>2 DEF Unrecorded
<1>9. ASSUME NEW whole \in BOOLEAN, NEW usage \in BOOLEAN, Pipe(r, whole, usage)
      PROVE  Ledger(r)' /\ pc'[r] # "lost"
  <2>1. /\ pc[r] = "pipe" /\ pc'[r] \in {"touch", "final"}
        /\ UNCHANGED <<cur, reply, rows>>
    BY <1>9 DEF Pipe, TypeOK
  <2>2. PICK a \in cur[r] : TRUE  BY <1>0, <2>1 DEF Dialogue
  <2> QED  BY <1>7, <2>1, <2>2 DEF Unrecorded
<1>10. ASSUME NEW a \in Accounts, Touch(r, a) PROVE Ledger(r)' /\ pc'[r] # "lost"
  <2>1. /\ a \in cur[r] /\ pc[r] = "touch" /\ pc'[r] = "final"
        /\ UNCHANGED <<cur, reply, rows>>
    BY <1>10 DEF Touch, TypeOK
  <2> QED  BY <1>7, <2>1 DEF Unrecorded
\* The record.
<1>11. ASSUME NEW a \in cur[r], a \in Accounts, Unrecorded(r, a), UNCHANGED reply,
              \E ok \in Stored : rows' = IF ok THEN [rows EXCEPT ![r][a] = @ + 1] ELSE rows,
              \/ pc'[r] \in {"pick", "done"} /\ cur'[r] = {}
              \/ pc'[r] = "mark" /\ cur'[r] = cur[r] /\ QuotaSignal(reply[r][a])
       PROVE  Ledger(r)' /\ pc'[r] # "lost"
  <2>1. \A b \in cur[r] : b = a  BY <1>11 DEF OneInHand
  <2>2. rows[r][a] = 0 /\ reply[r][a] \in Replies /\ pc[r] # "lost"
    BY <1>0, <1>11 DEF Ledger, Unrecorded
  <2>3. reply[r][a] \notin {Unsent, InFlight}  BY <2>2, ReplyFacts
  <2>4. /\ rows'[r][a] \in {0, 1} /\ Recorded(r, a)'
        /\ \A b \in Accounts \ {a} : rows'[r][b] = rows[r][b]
    BY <1>11, <2>2, Written DEF Recorded
  <2>5. \A b \in Accounts :
          /\ rows'[r][b] \in {0, 1}
          /\ rows'[r][b] = 1 => reply'[r][b] \notin {Unsent, InFlight}
    BY <1>0, <1>11, <2>3, <2>4 DEF Ledger
  <2>6. \A b \in Called(r)' : Recorded(r, b)'
    <3> SUFFICES ASSUME NEW b \in Called(r)', b # a PROVE Recorded(r, b)'
      BY <2>4
    <3>1. b \in Called(r) \ cur[r] /\ b \in Accounts  BY <1>11, <2>1 DEF Called
    <3>2. Recorded(r, b)  BY <1>0, <2>2, <3>1 DEF Ledger
    <3> QED  BY <2>4, <3>1, <3>2 DEF Recorded
  <2>7. \A b \in cur'[r] : b = a /\ pc'[r] = "mark" /\ QuotaSignal(reply'[r][b])
    BY <1>11, <2>1
  <2> QED  BY <1>11, <2>2, <2>4, <2>5, <2>6, <2>7 DEF Ledger, Unrecorded
<1>12. ASSUME NEW a \in Accounts,
              RecordAndStop(r, a) \/ RecordAndRotate(r, a) \/ RecordSuccess(r, a)
       PROVE  Ledger(r)' /\ pc'[r] # "lost"
  <2>1. /\ a \in cur[r] /\ Unrecorded(r, a) /\ UNCHANGED reply
        /\ \E ok \in Stored : rows' = IF ok THEN [rows EXCEPT ![r][a] = @ + 1] ELSE rows
    BY <1>12 DEF RecordAndStop, RecordAndRotate, RecordSuccess, Unrecorded
  <2>2. \/ pc'[r] \in {"pick", "done"} /\ cur'[r] = {}
        \/ pc'[r] = "mark" /\ cur'[r] = cur[r] /\ QuotaSignal(reply[r][a])
    BY <1>12 DEF RecordAndStop, RecordAndRotate, RecordSuccess, Finish, TypeOK
  <2> QED  BY <1>11, <2>1, <2>2
<1>13. ASSUME NEW a \in Accounts, MarkExhausted(r, a) PROVE Ledger(r)' /\ pc'[r] # "lost"
  <2>1. /\ a \in cur[r] /\ pc[r] = "mark" /\ pc'[r] = "pick" /\ cur'[r] = {}
        /\ UNCHANGED <<reply, rows>> /\ QuotaSignal(reply[r][a])
    BY <1>13 DEF MarkExhausted, TypeOK
  <2>2. \A b \in cur[r] : b = a  BY <2>1 DEF OneInHand
  <2>3. Recorded(r, a)  BY <1>0, <2>1 DEF Ledger
  <2> QED  BY <1>0, <2>1, <2>2, <2>3 DEF Ledger, Unrecorded, Recorded, Called
<1> QED  BY <1>2, <1>3, <1>5, <1>6, <1>8, <1>9, <1>10, <1>12, <1>13 DEF Step

\* A step of one request writes no record of another.
LEMMA OthersRecords ==
  ASSUME TypeOK, NEW r \in Requests, Arrive(r) \/ Step(r), NEW q \in Requests \ {r}
  PROVE  rows'[q] = rows[q]
<1> USE DEF history
<1>1. CASE Arrive(r) \/ List(r) \/ Filter(r) \/ GiveUp(r)
  BY <1>1 DEF Arrive, List, Filter, GiveUp
<1>2. ASSUME NEW a \in Accounts,
             \/ Skip(r, a) \/ Pick(r, a) \/ Send(r, a) \/ MarkRefused(r, a)
             \/ MarkExhausted(r, a) \/ Touch(r, a)
             \/ \E rep \in Replies : Receive(r, a, rep)
             \/ \E whole, usage \in BOOLEAN : Pipe(r, whole, usage)
      PROVE  rows'[q] = rows[q]
  BY <1>2 DEF Skip, Pick, Send, MarkRefused, MarkExhausted, Touch, Receive, Pipe
<1>3. ASSUME NEW a \in Accounts,
             RecordAndStop(r, a) \/ RecordAndRotate(r, a) \/ RecordSuccess(r, a)
      PROVE  rows'[q] = rows[q]
  <2>1. rows' = rows \/ rows' = [rows EXCEPT ![r][a] = @ + 1]
    BY <1>3 DEF RecordAndStop, RecordAndRotate, RecordSuccess
  <2> QED  BY <2>1 DEF TypeOK
<1>4. ASSUME NEW whole \in BOOLEAN, NEW usage \in BOOLEAN, Pipe(r, whole, usage)
      PROVE  rows'[q] = rows[q]
  BY <1>4 DEF Pipe
<1> QED  BY <1>1, <1>2, <1>3, <1>4 DEF Step

\* A restart loses what is in hand.
LEMMA RestartLedger ==
  ASSUME TypeOK, OneInHand, LedgerInv, Restart, NEW q \in Requests
  PROVE  Ledger(q)' /\ Paired(q)'
<1>1. /\ cur'[q] = {} /\ UNCHANGED <<reply, rows>>
      /\ pc'[q] = IF Live(q) THEN "lost" ELSE pc[q]
  BY DEF Restart, history
<1>2. Ledger(q) /\ Paired(q)  BY DEF LedgerInv
<1>3. Called(q)' = Called(q)  BY <1>1 DEF Called
<1>4. Paired(q)'  BY <1>1, <1>2, <1>3 DEF Paired
<1>5. ~Live(q) => cur[q] = {}  BY DEF Live, OneInHand, CallStages
<1>6. Ledger(q)'  BY <1>1, <1>2, <1>3, <1>5 DEF Ledger, Unrecorded, Recorded
<1> QED  BY <1>4, <1>6

LEMMA LedgerStep ==
  ASSUME TypeOK, OneInHand, OneInHand', DialogueInv, LedgerInv, [Next]_vars
  PROVE  LedgerInv'
<1>1. ASSUME NEW r \in Requests, Arrive(r) \/ Step(r) PROVE LedgerInv'
  <2>1. ASSUME NEW q \in Requests \ {r} PROVE Ledger(q)' /\ Paired(q)'
    BY <1>1, <2>1, OthersKeep, OthersRecords, LedgerFrame DEF LedgerInv
  <2>2. Ledger(r)' /\ Paired(r)'  BY <1>1, StepLedger, OneOpen
  <2> QED  BY <2>1, <2>2 DEF LedgerInv
<1>2. CASE Restart  BY <1>2, RestartLedger DEF LedgerInv
<1>3. CASE UNCHANGED <<pc, cur, reply, rows>>  BY <1>3, LedgerFrame DEF LedgerInv
<1>4. CASE UNCHANGED vars  BY <1>3, <1>4 DEF vars, locals, history
<1>5. CASE Environment /\ ~Restart
  <2>1. rows' = rows
    BY <1>5 DEF Environment, Authorize, AddAccount, DeleteAccount, SetEnabled, RefreshQuota,
                Edit, Midnight, history
  <2> QED  BY <1>3, <1>5, <2>1, EnvironmentKeeps
<1> QED  BY <1>1, <1>2, <1>4, <1>5 DEF Next

LEMMA LedgerMeans == TypeOK /\ LedgerInv => EveryCallRecorded
BY DEF TypeOK, LedgerInv, Ledger, Paired, Recorded, EveryCallRecorded

\* Each call is recorded once at most, each call that a request has moved on
\* from exactly once unless the write failed, and a restart loses the record
\* of one call per request at most (the writers of the request log in chat.go).
THEOREM CallsAreRecorded == Spec => []EveryCallRecorded
<1>1. TypeOK /\ OneInHand /\ OneInHand' /\ DialogueInv /\ LedgerInv /\ [Next]_vars => LedgerInv'
  BY LedgerStep
<1> QED  BY <1>1, InitLedger, LedgerMeans, DialogueAlways, PTL DEF Spec

-----------------------------------------------------------------------------
(* The usage counters.                                                     *)

\* The requests the gateway served on an account and metered; of these, the
\* ones whose count may be in the row, and the ones whose count must be.
Served(a)  == {r \in Requests : metered[r] /\ IsSuccess(reply[r][a])}
Counted(a) == {r \in Served(a) : pc[r] # "touch"}
Settled(a) == {r \in Served(a) : pc[r] \notin {"touch", "lost"}}

\* A request is metered when its reply has been piped, and about to count it
\* on the one account that delivered it.
Meter(r) ==
  /\ metered[r] => pc[r] \in {"touch", "final", "done", "lost"}
  /\ pc[r] = "touch" => metered[r]
  /\ pc[r] = "touch" =>
       \A a \in Accounts : IsSuccess(reply[r][a]) <=> a \in cur[r]

\* Nobody calls an id before its row is added.
Uncalled(r, a) == reply[r][a] = Unsent /\ a \notin left[r] \cup cur[r]

\* The counter of one row, between the two bounds.
Within(a) ==
  Exists(acct[a]) => /\ acct[a].total <= Cardinality(Counted(a))
                     /\ Cardinality(Settled(a)) <= acct[a].total \/ StoreMayFail

UsageInv ==
  /\ \A r \in Requests : Meter(r)
  /\ \A r \in Requests, a \in Accounts :
       acct[a].life = "unused" => Uncalled(r, a)
  /\ \A a \in Accounts : Within(a)

\* No reply, and an answer awaited, are no success.
LEMMA NoSuccess == ~IsSuccess(Unsent) /\ ~IsSuccess(InFlight)
BY DEF IsSuccess, Unsent, InFlight

\* There are finitely many requests, so each of these sets has a size.
LEMMA UsageSizes ==
  ASSUME NEW T \in SUBSET Requests
  PROVE  IsFiniteSet(T) /\ Cardinality(T) \in Nat
BY RequestsAssumption, FS_Subset, FS_CardinalityType

LEMMA InitUsage == Init => UsageInv
<1> SUFFICES ASSUME Init PROVE UsageInv  OBVIOUS
<1>1. \A r \in Requests : Meter(r)
  BY DEF Init, Meter
<1>2. \A r \in Requests, a \in Accounts : Uncalled(r, a)
  BY DEF Init, Uncalled
<1>3. ASSUME NEW a \in Accounts PROVE Within(a)
  <2>1. Counted(a) = {} /\ Settled(a) = {}
    BY DEF Init, Counted, Settled, Served
  <2>2. acct[a].total = 0
    <3>1. PICK quota \in [Initial -> Quotas] :
            acct = [b \in Accounts |-> IF b \in Initial
                                      THEN Authorized(b \notin Damaged, quota[b])
                                      ELSE NoRow]
      BY DEF Init
    <3> QED  BY <3>1 DEF Authorized, NoRow
  <2> QED  BY <2>1, <2>2, FS_EmptySet DEF Within
<1> QED  BY <1>1, <1>2, <1>3 DEF UsageInv

\* The bounds survive a step that leaves the counter alone, makes no count
\* due and takes none back.
LEMMA WithinKept ==
  ASSUME TypeOK, NEW a \in Accounts, Within(a),
         Exists(acct'[a]) => Exists(acct[a]) /\ acct'[a].total = acct[a].total,
         Counted(a) \subseteq Counted(a)', Settled(a)' \subseteq Settled(a)
  PROVE  Within(a)'
<1> SUFFICES ASSUME Exists(acct'[a]) PROVE Within(a)'
  BY DEF Within
<1>1. /\ Counted(a) \in SUBSET Requests /\ Counted(a)' \in SUBSET Requests
      /\ Settled(a) \in SUBSET Requests /\ Settled(a)' \in SUBSET Requests
  BY DEF Counted, Settled, Served
<1>2. Cardinality(Counted(a)) <= Cardinality(Counted(a)')
  BY <1>1, UsageSizes, FS_Subset
<1>3. Cardinality(Settled(a)') <= Cardinality(Settled(a))
  BY <1>1, UsageSizes, FS_Subset
<1>4. acct[a].total \in Nat
  BY DEF TypeOK, Row
<1>5. /\ Cardinality(Counted(a)) \in Nat /\ Cardinality(Counted(a)') \in Nat
      /\ Cardinality(Settled(a)) \in Nat /\ Cardinality(Settled(a)') \in Nat
  BY <1>1, UsageSizes
<1> QED  BY <1>2, <1>3, <1>4, <1>5 DEF Within

\* What a step of a request does to its meter.
LEMMA StepMeters ==
  ASSUME TypeOK, NEW r \in Requests, Arrive(r) \/ Step(r)
  PROVE  /\ \A q \in Requests \ {r} : metered'[q] = metered[q]
         /\ \/ /\ pc[r] \in Unanswered /\ metered' = metered
               /\ pc'[r] \in Unanswered \cup {"done"}
            \/ /\ pc[r] = "pipe" /\ UNCHANGED <<reply, cur>>
               /\ pc'[r] = IF metered'[r] THEN "touch" ELSE "final"
            \/ pc[r] = "touch" /\ \E a \in cur[r] : Touch(r, a)
            \/ /\ pc[r] = "final" /\ pc'[r] = "done"
               /\ UNCHANGED <<metered, reply>>
<1> USE DEF TypeOK, Goto, history, Unanswered
<1>1. CASE Arrive(r) \/ List(r) \/ Filter(r) \/ GiveUp(r)
  BY <1>1 DEF Arrive, List, Filter, GiveUp, Finish
<1>2. ASSUME NEW a \in Accounts,
             \/ Skip(r, a) \/ Pick(r, a) \/ Send(r, a) \/ MarkRefused(r, a)
             \/ RecordAndStop(r, a) \/ RecordAndRotate(r, a)
             \/ MarkExhausted(r, a)
      PROVE  /\ pc[r] \in Unanswered /\ metered' = metered
             /\ pc'[r] \in Unanswered \cup {"done"}
  BY <1>2 DEF Skip, Pick, Send, MarkRefused, RecordAndStop, RecordAndRotate,
              MarkExhausted, Finish
<1>3. ASSUME NEW a \in Accounts, NEW rep \in Replies, Receive(r, a, rep)
      PROVE  /\ pc[r] \in Unanswered /\ metered' = metered
             /\ pc'[r] \in Unanswered \cup {"done"}
  BY <1>3 DEF Receive
<1>4. ASSUME NEW whole \in BOOLEAN, NEW usage \in BOOLEAN,
             Pipe(r, whole, usage)
      PROVE  /\ \A q \in Requests \ {r} : metered'[q] = metered[q]
             /\ pc[r] = "pipe" /\ UNCHANGED <<reply, cur>>
             /\ pc'[r] = IF metered'[r] THEN "touch" ELSE "final"
  BY <1>4 DEF Pipe
<1>5. ASSUME NEW a \in Accounts, Touch(r, a)
      PROVE  pc[r] = "touch" /\ a \in cur[r] /\ metered' = metered
  BY <1>5 DEF Touch
<1>6. ASSUME NEW a \in Accounts, RecordSuccess(r, a)
      PROVE  /\ pc[r] = "final" /\ pc'[r] = "done"
             /\ UNCHANGED <<metered, reply>>
  BY <1>6 DEF RecordSuccess, Finish
<1> QED  BY <1>1, <1>2, <1>3, <1>4, <1>5, <1>6 DEF Step

\* A request calls only accounts it has listed, and it lists only rows.
LEMMA StepCalls ==
  ASSUME TypeOK, NEW r \in Requests, Arrive(r) \/ Step(r),
         NEW a \in Accounts, acct[a].life = "unused", Uncalled(r, a)
  PROVE  Uncalled(r, a)'
<1> USE DEF TypeOK, history, Uncalled
<1>1. CASE Arrive(r) \/ Filter(r) \/ GiveUp(r)
  BY <1>1 DEF Arrive, Filter, GiveUp, Finish
<1>2. CASE List(r)
  BY <1>2 DEF List, Usable, Exists, Finish
<1>3. ASSUME NEW b \in Accounts,
             \/ Skip(r, b) \/ Pick(r, b) \/ Send(r, b) \/ MarkRefused(r, b)
             \/ RecordAndRotate(r, b) \/ MarkExhausted(r, b) \/ Touch(r, b)
      PROVE  Uncalled(r, a)'
  BY <1>3 DEF Skip, Pick, Send, MarkRefused, RecordAndRotate, MarkExhausted,
              Touch, IsFirst
<1>4. ASSUME NEW b \in Accounts, RecordAndStop(r, b) \/ RecordSuccess(r, b)
      PROVE  Uncalled(r, a)'
  BY <1>4 DEF RecordAndStop, RecordSuccess, Finish
<1>5. ASSUME NEW b \in Accounts, NEW rep \in Replies, Receive(r, b, rep)
      PROVE  Uncalled(r, a)'
  BY <1>5 DEF Receive
<1>6. ASSUME NEW whole \in BOOLEAN, NEW usage \in BOOLEAN,
             Pipe(r, whole, usage)
      PROVE  Uncalled(r, a)'
  BY <1>6 DEF Pipe
<1> QED  BY <1>1, <1>2, <1>3, <1>4, <1>5, <1>6 DEF Step

\* But for Touch, a request leaves every counter as it was.
LEMMA StepRows ==
  ASSUME TypeOK, NEW r \in Requests, Arrive(r) \/ Step(r),
         NEW a \in Accounts
  PROVE  /\ acct'[a].life = acct[a].life
         /\ pc[r] # "touch" => acct'[a].total = acct[a].total
<1> USE DEF TypeOK, table
<1>1. CASE Arrive(r) \/ List(r) \/ Filter(r) \/ GiveUp(r)
  BY <1>1 DEF Arrive, List, Filter, GiveUp
<1>2. ASSUME NEW b \in Accounts,
             \/ Skip(r, b) \/ Pick(r, b) \/ Send(r, b) \/ RecordAndStop(r, b)
             \/ RecordAndRotate(r, b) \/ MarkExhausted(r, b)
             \/ RecordSuccess(r, b) \/ \E rep \in Replies : Receive(r, b, rep)
      PROVE  acct' = acct
  BY <1>2 DEF Skip, Pick, Send, RecordAndStop, RecordAndRotate, MarkExhausted,
              RecordSuccess, Receive
<1>3. ASSUME NEW b \in Accounts, MarkRefused(r, b)
      PROVE  acct'[a].life = acct[a].life /\ acct'[a].total = acct[a].total
  <2>1. acct' = acct \/ Update(b, RefusedRow(acct[b], reply[r][b]))
    BY <1>3 DEF MarkRefused
  <2>2. /\ RefusedRow(acct[b], reply[r][b]).life = acct[b].life
        /\ RefusedRow(acct[b], reply[r][b]).total = acct[b].total
    BY DEF RefusedRow, Row
  <2> QED  BY <2>1, <2>2 DEF Update
<1>4. ASSUME NEW b \in Accounts, Touch(r, b)
      PROVE  pc[r] = "touch" /\ acct'[a].life = acct[a].life
  <2>1. acct' = acct \/ Update(b, [acct[b] EXCEPT !.total = @ + 1])
    BY <1>4 DEF Touch
  <2>2. [acct[b] EXCEPT !.total = @ + 1].life = acct[b].life
    BY DEF Row
  <2>3. pc[r] = "touch"
    BY <1>4 DEF Touch
  <2> QED  BY <2>1, <2>2, <2>3 DEF Update
<1>5. ASSUME NEW whole \in BOOLEAN, NEW usage \in BOOLEAN,
             Pipe(r, whole, usage)
      PROVE  acct' = acct
  BY <1>5 DEF Pipe
<1> QED  BY <1>1, <1>2, <1>3, <1>4, <1>5 DEF Step

\* Every step of a request but Touch.
LEMMA QuietUsage ==
  ASSUME TypeOK, DialogueInv, UsageInv, NEW r \in Requests,
         Arrive(r) \/ Step(r), pc[r] # "touch"
  PROVE  \A a \in Accounts : Within(a)'
<1> SUFFICES ASSUME NEW a \in Accounts PROVE Within(a)'
  OBVIOUS
<1>1. Meter(r) /\ Within(a)
  BY DEF UsageInv
<1>2. \A q \in Requests \ {r} :
        /\ q \in Counted(a) <=> q \in Counted(a)'
        /\ q \in Settled(a) <=> q \in Settled(a)'
  BY OthersKeep, StepMeters DEF Counted, Settled, Served
<1>3. r \in Counted(a) => r \in Counted(a)'
  BY <1>1, StepMeters DEF Counted, Served, Meter, Unanswered
<1>4. r \in Settled(a)' => r \in Settled(a)
  BY <1>1, StepMeters DEF Settled, Served, Meter, Unanswered
<1>5. Counted(a) \subseteq Counted(a)' /\ Settled(a)' \subseteq Settled(a)
  BY <1>2, <1>3, <1>4 DEF Counted, Settled, Served
<1> QED  BY <1>1, <1>5, StepRows, WithinKept DEF Exists

\* TouchAccount settles one count, on the account that delivered.
LEMMA TouchUsage ==
  ASSUME TypeOK, UsageInv, NEW r \in Requests, NEW b \in Accounts,
         OneInHand, Touch(r, b)
  PROVE  \A a \in Accounts : Within(a)'
<1> SUFFICES ASSUME NEW a \in Accounts PROVE Within(a)'
  OBVIOUS
<1>1. /\ pc[r] = "touch" /\ b \in cur[r] /\ pc' = [pc EXCEPT ![r] = "final"]
      /\ UNCHANGED <<metered, reply>>
  BY DEF Touch, Goto, history
<1>2. Meter(r) /\ Within(a)
  BY DEF UsageInv
<1>3. Step(r)
  BY DEF Step
<1>4. Exists(acct'[a]) <=> Exists(acct[a])
  BY <1>3, StepRows DEF Exists
<1>5. CASE a # b
  <2>1. r \notin Served(a) /\ Served(a)' = Served(a)
    BY <1>1, <1>2, <1>5 DEF Served, Meter, OneInHand
  <2>2. Counted(a)' = Counted(a) /\ Settled(a)' = Settled(a)
    BY <1>1, <2>1 DEF Counted, Settled, Served, TypeOK
  <2>3. acct'[a] = acct[a]
    BY <1>5 DEF Touch, Update, TypeOK
  <2> QED  BY <1>2, <2>2, <2>3, WithinKept
<1>6. CASE a = b
  <2> SUFFICES ASSUME Exists(acct'[a]) PROVE Within(a)'
    BY DEF Within
  <2>1. r \in Served(a) /\ Served(a)' = Served(a)
    BY <1>1, <1>2, <1>6 DEF Served, Meter
  <2>2. /\ Counted(a)' = Counted(a) \cup {r} /\ r \notin Counted(a)
        /\ Settled(a)' = Settled(a) \cup {r} /\ r \notin Settled(a)
    BY <1>1, <2>1 DEF Counted, Settled, Served, TypeOK
  <2>3. Counted(a) \in SUBSET Requests /\ Settled(a) \in SUBSET Requests
    BY DEF Counted, Settled, Served
  <2>4. /\ Cardinality(Counted(a)') = Cardinality(Counted(a)) + 1
        /\ Cardinality(Settled(a)') = Cardinality(Settled(a)) + 1
    BY <2>2, <2>3, UsageSizes, FS_AddElement
  <2>5. \/ acct'[a].total = acct[a].total + 1
        \/ StoreMayFail /\ acct'[a].total = acct[a].total
    <3>1. \/ Update(a, [acct[a] EXCEPT !.total = @ + 1])
          \/ StoreMayFail /\ acct' = acct
      BY <1>6, ChannelAssumption DEF Touch, Stored
    <3>2. [acct[a] EXCEPT !.total = @ + 1].total = acct[a].total + 1
      BY DEF Row, TypeOK
    <3> QED  BY <1>4, <3>1, <3>2 DEF Update, TypeOK
  <2>6. Cardinality(Counted(a)) \in Nat /\ Cardinality(Settled(a)) \in Nat
    BY <2>3, UsageSizes
  <2>7. acct[a].total \in Nat
    BY DEF TypeOK, Row
  <2> QED  BY <1>2, <1>4, <2>4, <2>5, <2>6, <2>7 DEF Within
<1> QED  BY <1>5, <1>6

\* The meter of the request that takes a step.
LEMMA StepMeter ==
  ASSUME TypeOK, OneInHand, DialogueInv, UsageInv, NEW r \in Requests,
         Arrive(r) \/ Step(r)
  PROVE  Meter(r)'
<1>1. Dialogue(r) /\ Meter(r)
  BY DEF DialogueInv, UsageInv
<1>2. CASE /\ pc[r] \in Unanswered /\ metered' = metered
           /\ pc'[r] \in Unanswered \cup {"done"}
  BY <1>1, <1>2 DEF Meter, Unanswered
<1>3. CASE /\ pc[r] = "pipe" /\ UNCHANGED <<reply, cur>>
           /\ pc'[r] = IF metered'[r] THEN "touch" ELSE "final"
  <2>1. ASSUME NEW a \in Accounts
        PROVE  IsSuccess(reply[r][a]) <=> a \in cur[r]
    <3>1. a \in cur[r] => IsSuccess(reply[r][a])
      BY <1>1, <1>3 DEF Dialogue
    <3>2. CASE a \notin cur[r] /\ reply[r][a] # Unsent
      <4>1. /\ reply[r][a] # InFlight /\ Rotates(reply[r][a])
        BY <1>1, <1>3, <3>2 DEF Dialogue, Called, Unanswered
      <4>2. reply[r][a] \in Replies
        BY <3>2, <4>1 DEF TypeOK, CallStates
      <4> QED  BY <3>2, <4>1, <4>2, RotateFacts
    <3> QED  BY <3>1, <3>2, NoSuccess
  <2> QED  BY <1>3, <2>1 DEF Meter
<1>4. CASE \E a \in cur[r] : Touch(r, a)
  BY <1>1, <1>4 DEF Touch, Goto, Meter, TypeOK
<1>5. CASE /\ pc[r] = "final" /\ pc'[r] = "done"
           /\ UNCHANGED <<metered, reply>>
  BY <1>5 DEF Meter
<1> QED  BY <1>2, <1>3, <1>4, <1>5, StepMeters

\* What the rest of the server does to the rows: a new one counts from zero.
LEMMA EnvironmentRows ==
  ASSUME TypeOK, Environment, NEW a \in Accounts
  PROVE  \/ acct'[a].life = acct[a].life /\ acct'[a].total = acct[a].total
         \/ /\ acct[a].life = "unused" /\ acct'[a].life = "present"
            /\ acct'[a].total = 0
         \/ acct'[a].life = "deleted"
<1> USE DEF TypeOK, table
<1>1. ASSUME NEW b \in Accounts,
             \/ Authorize(b) \/ \E on \in BOOLEAN : SetEnabled(b, on)
             \/ \E q \in Quotas : RefreshQuota(b, q)
      PROVE  acct'[a].life = acct[a].life /\ acct'[a].total = acct[a].total
  <2>1. acct[b] \in Row
    OBVIOUS
  <2>2. CASE Authorize(b)
    BY <2>1, <2>2 DEF Authorize, Update, Row
  <2>3. CASE \E on \in BOOLEAN : SetEnabled(b, on)
    BY <2>1, <2>3 DEF SetEnabled, Update, Row
  <2>4. CASE \E q \in Quotas : RefreshQuota(b, q)
    BY <2>1, <2>4 DEF RefreshQuota, Update, Row
  <2> QED  BY <1>1, <2>2, <2>3, <2>4
<1>2. ASSUME NEW b \in Accounts, AddAccount(b) \/ DeleteAccount(b)
      PROVE  \/ acct'[a] = acct[a]
             \/ /\ acct[a].life = "unused" /\ acct'[a].life = "present"
                /\ acct'[a].total = 0
             \/ acct'[a].life = "deleted"
  BY <1>2 DEF AddAccount, DeleteAccount, NewRow, NoRow
<1>3. CASE Midnight \/ Restart
  BY <1>3 DEF Midnight, Restart
<1> QED  BY <1>1, <1>2, <1>3 DEF Environment

\* A restart cuts requests off; every other step leaves them as they are.
LEMMA EnvironmentRequests ==
  ASSUME TypeOK, Environment, NEW r \in Requests
  PROVE  /\ UNCHANGED <<metered, reply>>
         /\ left'[r] \subseteq left[r] /\ cur'[r] \subseteq cur[r]
         /\ \/ pc'[r] = pc[r] /\ cur'[r] = cur[r]
            \/ pc'[r] = "lost"
            \/ pc'[r] = pc[r] /\ pc[r] # "touch"
<1>1. CASE Restart
  BY <1>1 DEF Restart, Live, history, TypeOK
<1>2. CASE ~Restart
  <2>1. metered' = metered
    BY <1>2 DEF Environment, Authorize, AddAccount, DeleteAccount, SetEnabled,
                RefreshQuota, Edit, Midnight, locals
  <2> QED  BY <1>2, <2>1, EnvironmentKeeps
<1> QED  BY <1>1, <1>2

LEMMA EnvironmentUsage ==
  ASSUME TypeOK, OneInHand, UsageInv, Environment
  PROVE  UsageInv'
<1>1. ASSUME NEW r \in Requests PROVE Meter(r)'
  BY EnvironmentRequests DEF UsageInv, Meter
<1>2. ASSUME NEW r \in Requests, NEW a \in Accounts, acct'[a].life = "unused"
      PROVE  Uncalled(r, a)'
  <2>1. acct[a].life = "unused"
    BY <1>2, EnvironmentRows
  <2> QED  BY <2>1, EnvironmentRequests DEF UsageInv, Uncalled
<1>3. ASSUME NEW a \in Accounts PROVE Within(a)'
  <2>1. Counted(a) \subseteq Counted(a)' /\ Settled(a)' \subseteq Settled(a)
    BY EnvironmentRequests DEF Counted, Settled, Served
  <2>2. Within(a)
    BY DEF UsageInv
  <2>3. CASE acct'[a].life = acct[a].life /\ acct'[a].total = acct[a].total
    BY <2>1, <2>2, <2>3, WithinKept DEF Exists
  <2>4. CASE acct[a].life = "unused" /\ acct'[a].total = 0
    <3>1. Settled(a)' = {}
      BY <2>1, <2>4, NoSuccess DEF UsageInv, Uncalled, Settled, Served
    <3>2. Cardinality(Counted(a)') \in Nat
      BY UsageSizes DEF Counted, Served
    <3> QED  BY <2>4, <3>1, <3>2, FS_EmptySet DEF Within
  <2>5. CASE acct'[a].life = "deleted"
    BY <2>5 DEF Within, Exists
  <2> QED  BY <2>3, <2>4, <2>5, EnvironmentRows
<1> QED  BY <1>1, <1>2, <1>3 DEF UsageInv

LEMMA UsageStep ==
  ASSUME TypeOK, OneInHand, DialogueInv, UsageInv, [Next]_vars
  PROVE  UsageInv'
<1>1. ASSUME NEW r \in Requests, Arrive(r) \/ Step(r) PROVE UsageInv'
  <2>1. ASSUME NEW q \in Requests PROVE Meter(q)'
    <3>1. CASE q = r
      BY <1>1, <3>1, StepMeter
    <3>2. CASE q # r
      BY <1>1, <3>2, OthersKeep, StepMeters DEF UsageInv, Meter
    <3> QED  BY <3>1, <3>2
  <2>2. ASSUME NEW q \in Requests, NEW a \in Accounts,
               acct'[a].life = "unused"
        PROVE  Uncalled(q, a)'
    <3>1. Uncalled(q, a) /\ acct[a].life = "unused"
      BY <1>1, <2>2, StepRows DEF UsageInv
    <3>2. CASE q = r
      BY <1>1, <3>1, <3>2, StepCalls
    <3>3. CASE q # r
      BY <1>1, <3>1, <3>3, OthersKeep DEF Uncalled
    <3> QED  BY <3>2, <3>3
  <2>3. \A a \in Accounts : Within(a)'
    <3>1. CASE pc[r] = "touch"
      BY <1>1, <3>1, StepMeters, TouchUsage DEF TypeOK, Unanswered
    <3>2. CASE pc[r] # "touch"
      BY <1>1, <3>2, QuietUsage
    <3> QED  BY <3>1, <3>2
  <2> QED  BY <2>1, <2>2, <2>3 DEF UsageInv
<1>2. CASE Environment
  BY <1>2, EnvironmentUsage
<1>3. CASE UNCHANGED vars
  <2>1. UNCHANGED <<acct, pc, left, cur, metered, reply>>
    BY <1>3 DEF vars, table, locals, history
  <2> QED  BY <2>1 DEF UsageInv, Meter, Uncalled, Within, Counted, Settled, Served
<1> QED  BY <1>1, <1>2, <1>3 DEF Next

\* The bounds of UsageInv are the ones the counter promises.
LEMMA UsageMeans == TypeOK /\ UsageInv => UsageAccounted
<1> SUFFICES ASSUME TypeOK, UsageInv, NEW a \in Accounts, Exists(acct[a])
             PROVE  LET pending == {r \in Served(a) : pc[r] \in {"touch", "lost"}}
                    IN  /\ acct[a].total <= Cardinality(Served(a))
                        /\ \/ acct[a].total + Cardinality(pending)
                                >= Cardinality(Served(a))
                           \/ StoreMayFail
  BY DEF UsageAccounted, Served
<1> DEFINE pending == {r \in Served(a) : pc[r] \in {"touch", "lost"}}
<1>1. /\ Served(a) \in SUBSET Requests /\ pending \in SUBSET Requests
      /\ Counted(a) \in SUBSET Served(a) /\ Settled(a) \in SUBSET Requests
  BY DEF Served, Counted, Settled
<1>2. Cardinality(Counted(a)) <= Cardinality(Served(a))
  BY <1>1, UsageSizes, FS_Subset
<1>3. Served(a) = Settled(a) \cup pending /\ Settled(a) \cap pending = {}
  BY DEF Settled
<1>4. Cardinality(Served(a)) = Cardinality(Settled(a)) + Cardinality(pending)
  <2>1. /\ IsFiniteSet(Settled(a)) /\ Cardinality(Settled(a)) \in Nat
        /\ IsFiniteSet(pending) /\ Cardinality(pending) \in Nat
    BY <1>1, UsageSizes
  <2> HIDE DEF pending
  <2>2. Cardinality(Settled(a) \cup pending) =
          Cardinality(Settled(a)) + Cardinality(pending)
            - Cardinality(Settled(a) \cap pending)
    BY <2>1, FS_Union
  <2>3. Cardinality(Settled(a) \cap pending) = 0
    BY <1>3, FS_EmptySet
  <2> QED  BY <1>3, <2>1, <2>2, <2>3
<1>5. acct[a].total \in Nat
  BY DEF TypeOK, Row
<1>6. /\ Cardinality(Served(a)) \in Nat /\ Cardinality(pending) \in Nat
      /\ Cardinality(Counted(a)) \in Nat /\ Cardinality(Settled(a)) \in Nat
  BY <1>1, UsageSizes
<1>7. Within(a)
  BY DEF UsageInv
<1> HIDE DEF pending
<1>8. /\ acct[a].total <= Cardinality(Served(a))
      /\ \/ acct[a].total + Cardinality(pending) >= Cardinality(Served(a))
         \/ StoreMayFail
  BY <1>2, <1>4, <1>5, <1>6, <1>7 DEF Within
<1> QED  BY <1>8 DEF pending

\* The usage counter of a row never counts a call that did not happen, and
\* misses only calls whose request is about to count them, was cut off by a
\* restart, or could not write (TouchAccount and its caller in chat.go).
THEOREM UsageIsAccounted == Spec => []UsageAccounted
<1>1. TypeOK /\ OneInHand /\ DialogueInv /\ UsageInv /\ [Next]_vars => UsageInv'
  BY UsageStep
<1> QED  BY <1>1, InitUsage, UsageMeans, DialogueAlways, PTL DEF Spec
=============================================================================
