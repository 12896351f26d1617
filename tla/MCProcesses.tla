---------------------------- MODULE MCProcesses -----------------------------
(* Instances of Processes: groups whose last process is a plain one, a     *)
(* daemon or a pseudo process.                                             *)
EXTENDS Processes

CONSTANTS p1, p2, p3, daemon, echo

Groups == {<<p1, p2, p3>>, <<p2, p1, daemon>>, <<p3, echo>>}
=============================================================================
