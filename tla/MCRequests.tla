----------------------------- MODULE MCRequests -----------------------------
(* Instances of Requests: two queues, jobs one after the other.            *)
EXTENDS Requests

CONSTANTS queue1, queue2

=============================================================================
