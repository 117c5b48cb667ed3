---------------------------- MODULE MCFeedIngestion ---------------------------
(***************************************************************************)
(* Instance of FeedIngestion for TLC.                                      *)
(***************************************************************************)
EXTENDS FeedIngestion, TLC

Articles == Permutations(Urls)
=============================================================================
