---------------------------- MODULE MCQueueWorker ----------------------------
(* Model-checking instance of QueueWorker: jobs are numbered in queue order. *)
EXTENDS QueueWorker

RankByNumber == [j \in Jobs |-> j]
=============================================================================
