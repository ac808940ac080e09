----------------------------- MODULE EvaluationRows -----------------------------
(***************************************************************************)
(* What the optimizer relies on when it asks the scheduler to evaluate a   *)
(* set of parameters: evaluations follow one another, each ends in exactly *)
(* one row of the result file, and a row that holds a measurement holds    *)
(* one of a server that ran with the parameters in the row; when the row   *)
(* reports no error, the request rate is the measured one too.  An         *)
(* evaluation may also never end, when the program ends in it.             *)
(*                                                                         *)
(* Nothing here knows of processes, retries or files: Scheduler implements *)
(* this specification.                                                     *)
(***************************************************************************)
EXTENDS Naturals, Sequences

CONSTANTS
    Evaluation,  \* evaluations, numbered from 1
    Rate,        \* where the request rate of a run comes from
    NoResult     \* no measurement

Measurement == [x : Evaluation, rate : Rate]
Row == [x : Evaluation, rate : Rate, perf : Measurement \cup {NoResult}, error : BOOLEAN]

VARIABLES
    open,   \* the evaluation in progress, or 0
    begun,  \* how many were begun
    rows    \* the result file

vars == <<open, begun, rows>>

Init == open = 0 /\ begun = 0 /\ rows = << >>

Begin ==
    /\ open = 0
    /\ begun' = begun + 1
    /\ open' = begun'
    /\ UNCHANGED rows

Truthful(r) ==
    r.perf # NoResult =>
        /\ r.perf.x = r.x
        /\ ~r.error => r.perf.rate = r.rate

(* A row of the evaluation in progress, or, when that could not be set up, *)
(* once more the parameters of an earlier one.                             *)
Record ==
    /\ open # 0
    /\ \E r \in Row :
         /\ Truthful(r) /\ r.x <= open
         /\ rows' = Append(rows, r)
    /\ open' = 0
    /\ UNCHANGED begun

Next == Begin \/ Record

Spec == Init /\ [][Next]_vars
===============================================================================
