------------------------------- MODULE JobQueue -------------------------------
(***************************************************************************)
(* The background job queue: packages/worker-queue and the consumers of    *)
(* apps/workers.  Whatever the adapter (BullMQ, SQS, Pub/Sub, Service      *)
(* Bus), a published job waits until a worker takes it, in no order that   *)
(* its producer could rely on: jobs are delayed, retried with backoff and  *)
(* worked off by several processes.  A job that is acknowledged is gone; a *)
(* job that fails is published again or, its attempts used up, dropped.    *)
(***************************************************************************)
EXTENDS Naturals

CONSTANT Jobs
VARIABLE queue     \* how many copies of each job wait for a worker

Empty == [j \in Jobs |-> 0]

TypeOK == queue \in [Jobs -> Nat]

Waiting(j) == queue[j] > 0

\* enqueue: the payload is validated and handed to the adapter.
Publish(j) == queue' = [queue EXCEPT ![j] = @ + 1]

\* A worker is given a job.
Take(j) ==
    /\ Waiting(j)
    /\ queue' = [queue EXCEPT ![j] = @ - 1]

\* The handler of a job has thrown, or its worker has died: the job comes back
\* (nack, visibility time-out, BullMQ's next attempt), or it has failed for good.
GiveBack(j) == Publish(j) \/ UNCHANGED queue

\* A waiting job fails without having been handled.  The drain route of the
\* dashboard takes jobs with an empty registry of handlers, so each of its
\* attempts throws; the last one leaves the job among the failed.
Drain(j) == Take(j)
===============================================================================
