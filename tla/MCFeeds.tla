------------------------------ MODULE MCFeeds ------------------------------
(***************************************************************************)
(* A small instance of Feeds for TLC: a run of one pair and one of two.    *)
(***************************************************************************)
EXTENDS Feeds

OneOrTwoPairs == {{1}, {1, 2}}

=============================================================================
