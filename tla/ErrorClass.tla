----------------------------- MODULE ErrorClass -----------------------------
(***************************************************************************)
(* How the gateway's answer to one upstream call is classified, and what   *)
(* the device channel does with it (upstream/client.go, server/chat.go).   *)
(*                                                                         *)
(* A reply is its HTTP status and the set of marker words its body         *)
(* contains.  The code searches the body for about a dozen literals; the   *)
(* literals that every predicate treats alike are one marker here:         *)
(*                                                                         *)
(*   "quota_code"       "quota_exceeded" or "insufficient_quota"           *)
(*   "quota_text"       the Chinese phrase of the 429 body                 *)
(*   "quota_exhausted"  "quota exhausted"                                  *)
(*   "balance"          the Chinese "balance too low" phrase               *)
(*   "moderation"       the content-inspection codes                       *)
(*   "client_only"      u1s1_client_only and its three phrases             *)
(*   "review"           client_integrity_review, account_restricted, ...   *)
(*                                                                         *)
(* A transport failure (no HTTP reply at all) has status 0.                *)
(***************************************************************************)
EXTENDS Integers

Words == {"quota_code", "quota_text", "quota_exhausted", "balance",
          "moderation", "client_only", "review"}

Reply == [status : 0..599, words : SUBSET Words]

Has(reply, words) == reply.words \cap words # {}

QuotaSignal(reply) ==
  /\ reply.status = 429
  /\ Has(reply, {"quota_code", "quota_text", "quota_exhausted"})

ContentModerationRejected(reply) ==
  reply.status = 400 /\ Has(reply, {"moderation"})

RequestScopedError(reply) ==
  /\ reply.status = 400
  /\ ~QuotaSignal(reply)
  /\ ~Has(reply, {"quota_code", "quota_exhausted", "balance"})

CredentialScopedError(reply) == reply.status \in {401, 402, 429}

DeviceCredentialRetired(reply) == reply.status = 401

DeviceNotTrusted(reply) == reply.status = 403

KeyClientOnlyRejected(reply) ==
  reply.status = 403 /\ Has(reply, {"client_only"})

IntegrityReviewRelogin(reply) ==
  /\ reply.status = 403
  /\ ~KeyClientOnlyRejected(reply)
  /\ Has(reply, {"review"})

\* DeviceChat turns every status from 400 up into an APIError.
IsSuccess(reply) == reply.status > 0 /\ reply.status < 400
IsNetworkError(reply) == reply.status = 0

-----------------------------------------------------------------------------
(***************************************************************************)
(* The chain of ifs of tryDeviceChatCompletion, in its order: what the     *)
(* reply makes the handler do.                                             *)
(***************************************************************************)
Verdicts == {"deliver", "rotate", "relogin", "ban", "retire", "reject",
             "gateway", "cool"}

Verdict(reply) ==
  CASE IsSuccess(reply)                -> "deliver"
    [] IsNetworkError(reply)           -> "rotate"
    [] DeviceNotTrusted(reply)         ->
         IF IntegrityReviewRelogin(reply) THEN "relogin" ELSE "ban"
    [] DeviceCredentialRetired(reply)  -> "retire"
    [] RequestScopedError(reply)       -> "reject"
    [] OTHER                           ->
         IF ~CredentialScopedError(reply) THEN "gateway"
         ELSE IF QuotaSignal(reply) THEN "cool" ELSE "rotate"

\* After these the handler tries the next account, after all others it stops.
Rotates(reply) == Verdict(reply) \in {"rotate", "retire", "cool"}

\* These change the account's row before the call is recorded.
Untrusts(reply) == Verdict(reply) \in {"relogin", "ban"}
=============================================================================
