----------------------------- MODULE MCSiteFeed -----------------------------
(* SiteFeed on a small instance, see MCSiteFeed.cfg.                       *)
EXTENDS SiteFeed
=============================================================================
