---------------------------- MODULE MCTokenBucket ----------------------------
(* Five tasks, a bucket of two, and a refill of two thirds of a request to  *)
(* the tick: the bucket drains, waits are fractions of a tick long, and     *)
(* latecomers race the sleepers.                                            *)
EXTENDS TokenBucket
MCTasks == 1..5
=============================================================================
