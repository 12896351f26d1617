------------------------------- MODULE MCJobs -------------------------------
(* Model checking of Jobs: which starter and button runs which function.    *)
EXTENDS Jobs

CONSTANTS s1, s2, s3, s4, b1, f1, f2, f3

\* Two starters share a function; the last starter is that of AFTER_UPDATE_FORMS.
StarterAction == s1 :> f1 @@ s2 :> f1 @@ s3 :> f2 @@ s4 :> f3

\* A field, a timer, and a button of a task
MixedAction == s1 :> f1 @@ s2 :> f2 @@ b1 :> f3

\* A field and a timer
FieldAction == s1 :> f1 @@ s2 :> f2
=============================================================================
