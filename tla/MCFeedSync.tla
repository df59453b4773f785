----------------------------- MODULE MCFeedSync -----------------------------
(* One sensor, a feed of two files, and two keys to sign it with. *)
EXTENDS FeedSync
============================================================================
