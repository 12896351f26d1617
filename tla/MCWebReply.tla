----------------------------- MODULE MCWebReply -----------------------------
(* Instances of WebReply: the queues, headers and functions of the include *)
(* file MessageQueueReply.inc, reduced to one of each kind.                *)
EXTENDS WebReply

CONSTANTS reply, status_, ctrl, function, abort, poll,
          web_func, status_func, update_func, timer_func

Clients == [q \in Queue |-> CASE q = reply -> {function} [] q = ctrl -> {abort}
                              [] q = status_ -> {poll}]
HeaderFunctions == function :> web_func @@ abort :> None
                   @@ poll :> status_func
Items == [h \in Header |-> IF h = abort THEN function ELSE h]
=============================================================================
