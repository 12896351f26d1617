---------------------------- MODULE MCSubscriber ----------------------------
(* Instances of Subscriber: two headers with functions, one without.       *)
EXTENDS Subscriber

CONSTANTS alarm, order, value, button

=============================================================================
