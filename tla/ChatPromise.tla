---------------------------- MODULE ChatPromise -----------------------------
(***************************************************************************)
(* What the chat endpoint promises about one client request, whatever the  *)
(* other requests, the administrator and the gateway do:                   *)
(*                                                                         *)
(*   - it uses one account at a time and never the same account twice;     *)
(*   - it goes on to another account only after a reply that blames the    *)
(*     credential (or a transport failure), never after a reply that       *)
(*     blames the request, the gateway or the device's trust;              *)
(*   - it is answered once, and makes no upstream call after the answer.   *)
(*                                                                         *)
(* The rule is the comment of RequestScopedError, CredentialScopedError    *)
(* and DeviceNotTrusted in upstream/client.go: one client request must not *)
(* be amplified into calls of the same content with many credentials.      *)
(***************************************************************************)
CONSTANTS Requests, Accounts

VARIABLES phase,  \* [Requests -> Phases]
          used    \* [Requests -> SUBSET Accounts]: accounts called so far

vars == <<phase, used>>

Phases == {"new", "open", "calling", "settled", "answered", "lost"}

TypeOK ==
  /\ phase \in [Requests -> Phases]
  /\ used \in [Requests -> SUBSET Accounts]

Init ==
  /\ phase = [r \in Requests |-> "new"]
  /\ used = [r \in Requests |-> {}]

Move(r, from, to) ==
  /\ phase[r] \in from
  /\ phase' = [phase EXCEPT ![r] = to]

Open(r) == Move(r, {"new"}, "open") /\ UNCHANGED used

Call(r, a) ==
  /\ Move(r, {"open"}, "calling")
  /\ a \notin used[r]
  /\ used' = [used EXCEPT ![r] = @ \cup {a}]

\* The reply blames the credential: another account may be tried.
Rotate(r) == Move(r, {"calling"}, "open") /\ UNCHANGED used

\* The reply is final, good or bad: no other account may be tried.
Settle(r) == Move(r, {"calling"}, "settled") /\ UNCHANGED used

Answer(r) == Move(r, {"open", "settled"}, "answered") /\ UNCHANGED used

\* A restart of the process drops every request not answered yet.
Lose(lost) ==
  /\ \A r \in lost : phase[r] \in {"open", "calling", "settled"}
  /\ phase' = [r \in Requests |-> IF r \in lost THEN "lost" ELSE phase[r]]
  /\ UNCHANGED used

Next ==
  \/ \E r \in Requests : Open(r) \/ Rotate(r) \/ Settle(r) \/ Answer(r)
  \/ \E r \in Requests, a \in Accounts : Call(r, a)
  \/ \E lost \in SUBSET Requests : Lose(lost)

Spec == Init /\ [][Next]_vars
=============================================================================
