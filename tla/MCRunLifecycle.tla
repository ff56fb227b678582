--------------------------- MODULE MCRunLifecycle ---------------------------
(***************************************************************************)
(* RunLifecycle for TLC.  Threads are alike and so are requests; runs are  *)
(* not, their ids are given in order.                                      *)
(***************************************************************************)
EXTENDS RunLifecycle, TLC

Swap == Permutations(Threads) \cup Permutations(Handlers)

=============================================================================
