-------------------------- MODULE MCDeviceChannel --------------------------
(* Small instances of DeviceChannel for TLC.                               *)
EXTENDS DeviceChannel, TLC

CONSTANTS r1, r2, r3

R(status, words) == [status |-> status, words |-> words]

\* One reply for every way the handler goes on: delivered, no HTTP answer,
\* credential refused, request error passed through, daily quota used up.
EveryTurn == {R(200, {}), R(0, {}), R(403, {"client_only"}),
              R(400, {"moderation"}), R(429, {"quota_code"})}

\* Replies that blame the credential, and a success.
TrustReplies == {R(200, {}), R(403, {"review"}), R(401, {})}
QuotaReplies == {R(200, {}), R(429, {"quota_code"})}
EditReplies == TrustReplies \cup {R(429, {"quota_text"})}

UnknownOnly == {-1}
UnknownOrOne == {-1, 1}

Interchangeable == Permutations(Requests)
=============================================================================
