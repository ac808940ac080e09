------------------------------- MODULE FineTune -------------------------------
(***************************************************************************)
(* Fine tuning of the best candidates of the search: each is evaluated     *)
(* with twice its request rate, and then again and again with another      *)
(* concurrency or request rate, chosen from what the last evaluation took  *)
(* for a token (tpot) and for a first token (ttft).  One loop,             *)
(* refine_optimization_candidates, and the object FineTune, which keeps    *)
(* histories of values and of signs so as to turn back by half.            *)
(*                                                                         *)
(* A measurement is abstracted to its side of the interval FineTune aims   *)
(* at; how far off it is appears as the choice of a factor.  Values are    *)
(* integers that count parts of 1/Unit, factors count parts of 1/Whole.    *)
(* Penalties that are zero make a measurement "within".                    *)
(***************************************************************************)
EXTENDS Integers, Sequences

CONSTANTS
    Min, Max,       \* [Fields -> Int], limits of the fields, in whole numbers
    Default,        \* default_run_param, [Fields -> Int], in whole numbers
    Firsts,         \* values of candidates, each as Default
    Unit,           \* parts a whole number is counted in
    Whole, Step,    \* step_size is Step / Whole
    Factors,        \* amounts of change, in parts of Whole
    Candidates,     \* bound: rows of best_results
    MaxFineTune     \* max_fine_tune

Fields == {"CONCURRENCY", "REQUESTRATE"}
Sides == {"over", "within", "under"}
Results == [tpot : Sides, ttft : Sides]
NoResult == [tpot |-> "missing", ttft |-> "missing"]

(* Limits are positive, as in config.toml.                                 *)
ASSUME ConstantsAssumption ==
    /\ Unit \in Nat \ {0} /\ Whole \in Nat \ {0}
    /\ Step \in 1..Whole /\ Factors \subseteq 1..Step
    /\ Candidates \in Nat /\ MaxFineTune \in Nat
    /\ Min \in [Fields -> Nat \ {0}] /\ Max \in [Fields -> Nat \ {0}]
    /\ \A f \in Fields : Min[f] <= Max[f]
    /\ Firsts \cup {Default}
         \subseteq {v \in [Fields -> Nat] : \A f \in Fields : v[f] \in Min[f]..Max[f]}

VARIABLES
    params,              \* what is evaluated next or was evaluated last
    record_params,       \* all that was evaluated
    res,                 \* the last measurement
    last_value,          \* of each field, at every call of FineTune
    last_signed_factor,  \* of each field, signs of the changes that were due
    candidate, calls,    \* of the two loops
    pc                   \* "next", "first", "again", "tune", "stopped"

history == <<last_value, last_signed_factor>>
vars == <<params, record_params, res, history, candidate, calls, pc>>

NoHistory == [f \in Fields |-> << >>]

InParts(v) == [f \in Fields |-> v[f] * Unit]

Init ==
    /\ params = InParts(Default)
    /\ record_params = {InParts(Default)}
    /\ res = NoResult
    /\ last_value = NoHistory /\ last_signed_factor = NoHistory
    /\ candidate = 0 /\ calls = 0
    /\ pc = "next"

-------------------------------------------------------------------------------
Abs(x) == IF x < 0 THEN -x ELSE x
Sign(x) == IF x < 0 THEN -1 ELSE IF x > 0 THEN 1 ELSE 0
Larger(x, y) == IF x < y THEN y ELSE x
Smaller(x, y) == IF x < y THEN x ELSE y
Clamp(x, lo, hi) == Larger(lo, Smaller(hi, x))

(* int(...) of a parameter of type int; the request rate is a float.       *)
Run == [params EXCEPT !["CONCURRENCY"] = (@ \div Unit) * Unit]

Low(f) == Min[f] * Unit
High(f) == Max[f] * Unit

(* The value update_field gives to a field; last = 0: none.                *)
Moved(value, factor, last, lo, hi) ==
    IF factor = 0 \/ lo = hi THEN value
    ELSE LET base == IF last # 0 THEN Abs(value - last) ELSE value
         IN Clamp(value + (factor * base) \div Whole, lo, hi)

(* A change that update_field reports.                                     *)
Effective(old, new) == 10 * Abs(new - old) >= Unit

(* Appended to the histories whether or not the field changes.             *)
Noted(signs, factor) == IF factor = 0 THEN signs ELSE Append(signs, Sign(factor))

Turns(signs) ==
    /\ Len(signs) >= 2
    /\ signs[Len(signs) - 1] * signs[Len(signs)] < 0

Previous(values) == values[Len(values) - 1]
Latest(values) == values[Len(values)]

ConcurrencyFactors ==
    CASE res.tpot = "over" -> {-x : x \in Factors}
      [] res.tpot = "under" -> Factors
      [] OTHER -> {0}

RequestRateFactors ==
    CASE res.ttft = "over" -> {-x : x \in Factors}
      [] res.ttft = "under" -> {Step}
      [] OTHER -> {0}

(* A bug: no turning back.                                                 *)
HandleConcurrencyAhead(factor, signs, values) ==
    Moved(Latest(values), factor, 0, Low("CONCURRENCY"), High("CONCURRENCY"))

(* A bug: turning back to a value that is the present one.                 *)
HandleConcurrencyUnguarded(factor, signs, values) ==
    Moved(Latest(values), factor,
          IF factor # 0 /\ Turns(signs) THEN Previous(values) ELSE 0,
          Low("CONCURRENCY"), High("CONCURRENCY"))

HandleConcurrency(factor, signs, values) ==
    LET last == IF /\ factor # 0
                   /\ Turns(signs)
                   /\ Previous(values) # Latest(values)
                THEN Previous(values) ELSE 0
    IN Moved(Latest(values), factor, last, Low("CONCURRENCY"), High("CONCURRENCY"))

(* The request rate is kept below the concurrency of this evaluation.      *)
RateLimit(concurrency) == Smaller(concurrency, High("REQUESTRATE"))

HandleRequestRate(factor, signs, values, concurrency) ==
    LET last == IF factor # 0 /\ Turns(signs) THEN Previous(values) ELSE 0
    IN Moved(Latest(values), factor, last, Low("REQUESTRATE"), RateLimit(concurrency))

-------------------------------------------------------------------------------
NextCandidate ==
    /\ pc \in {"next", "stopped"} /\ candidate < Candidates
    /\ \E v \in Firsts :
           params' = [InParts(v) EXCEPT !["REQUESTRATE"] =
               Clamp(2 * @, Low("REQUESTRATE"), High("REQUESTRATE"))]
    /\ candidate' = candidate + 1
    /\ res' = NoResult
    /\ pc' = "first"
    /\ UNCHANGED <<record_params, history, calls>>

EvaluationFails ==
    /\ pc \in {"first", "again"}
    /\ pc' = "next"
    /\ UNCHANGED <<params, record_params, res, history, candidate, calls>>

(* A bug: reset_history forgets the values only.                           *)
EvaluatedKeepsSigns ==
    /\ pc \in {"first", "again"}
    /\ res' \in Results
    /\ record_params' = record_params \cup {params}
    /\ IF pc = "first"
       THEN last_value' = NoHistory /\ calls' = 0
       ELSE UNCHANGED <<last_value, calls>>
    /\ pc' = "tune"
    /\ UNCHANGED <<params, last_signed_factor, candidate>>

(* The evaluation of the candidate itself forgets the one before.          *)
Evaluated ==
    /\ pc \in {"first", "again"}
    /\ res' \in Results
    /\ record_params' = record_params \cup {params}
    /\ IF pc = "first"
       THEN last_value' = NoHistory /\ last_signed_factor' = NoHistory /\ calls' = 0
       ELSE UNCHANGED <<history, calls>>
    /\ pc' = "tune"
    /\ UNCHANGED <<params, candidate>>

(* A measurement is missing, or the loop is at its end.                    *)
GivesUp ==
    /\ pc = "tune"
    /\ pc' = "next"
    /\ UNCHANGED <<params, record_params, res, history, candidate, calls>>

(* The loop evaluates new parameters unless it has them already.           *)
Choose(new) ==
    /\ params' = new
    /\ res' = NoResult
    /\ pc' = IF new \in record_params THEN "next" ELSE "again"

FineTuneWithConcurrencyAndRequestRate ==
    /\ pc = "tune" /\ calls < MaxFineTune
    /\ calls' = calls + 1
    /\ last_value' = [f \in Fields |-> Append(last_value[f], Run[f])]
    /\ \E fc \in ConcurrencyFactors, fr \in RequestRateFactors :
         LET signsC == Noted(last_signed_factor["CONCURRENCY"], fc)
             signsR == Noted(last_signed_factor["REQUESTRATE"], fr)
             valuesC == Append(last_value["CONCURRENCY"], Run["CONCURRENCY"])
             valuesR == Append(last_value["REQUESTRATE"], Run["REQUESTRATE"])
             concurrency == HandleConcurrency(fc, signsC, valuesC)
             rate == HandleRequestRate(fr, signsR, valuesR, Run["CONCURRENCY"])
             changedC == Effective(Run["CONCURRENCY"], concurrency)
             changedR == Effective(Run["REQUESTRATE"], rate)
         IN \/ /\ changedC
               /\ last_signed_factor' = [last_signed_factor EXCEPT !["CONCURRENCY"] = signsC]
               /\ Choose([f \in Fields |->
                      IF f = "CONCURRENCY" THEN concurrency ELSE valuesR[1]])
            \/ /\ ~changedC
               /\ last_signed_factor' = [f \in Fields |->
                      IF f = "CONCURRENCY" THEN signsC ELSE signsR]
               /\ \/ /\ changedR
                     /\ Choose([f \in Fields |->
                            IF f = "CONCURRENCY" THEN concurrency ELSE rate])
                  \/ /\ ~changedR
                     /\ pc' = "stopped"
                     /\ UNCHANGED <<params, res>>
    /\ UNCHANGED <<record_params, candidate>>

Next ==
    \/ NextCandidate \/ EvaluationFails \/ Evaluated \/ GivesUp
    \/ FineTuneWithConcurrencyAndRequestRate

Spec == Init /\ [][Next]_vars

-------------------------------------------------------------------------------
TypeOK ==
    /\ params \in [Fields -> Int]
    /\ \A f \in Fields : params[f] \in Low(f)..High(f)
    /\ res \in Results \cup {NoResult}
    /\ last_value \in [Fields -> Seq(Int)]
    /\ last_signed_factor \in [Fields -> Seq({-1, 1})]
    /\ candidate \in 0..Candidates /\ calls \in 0..MaxFineTune
    /\ pc \in {"next", "first", "again", "tune", "stopped"}

(* Where the code takes the last but one of the values of a field, because *)
(* two signs of it are known, there are two: the histories are extended    *)
(* and forgotten together.  (An IndexError would end the optimizer, which  *)
(* expects other exceptions only.)                                         *)
ValuesForSigns ==
    \A f \in Fields : Len(last_signed_factor[f]) <= Len(last_value[f])

(* "adjust towards the middle": when the token time has gone from one side *)
(* of its interval to the other by a change of the concurrency, the next   *)
(* concurrency lies between the two that were evaluated, rounded down or   *)
(* not.                                                                    *)
Between(x, a, b) == Smaller(a, b) <= x /\ x <= Larger(a, b)

TurnsBack ==
    [][LET signs == last_signed_factor'["CONCURRENCY"]
           values == last_value'["CONCURRENCY"]
       IN (/\ signs # last_signed_factor["CONCURRENCY"] /\ pc' # "stopped"
           /\ Turns(signs)
           /\ Previous(values) # Latest(values))
          => Between(params'["CONCURRENCY"], Previous(values), Latest(values))]_vars

(* A change that is asked for and not worth an evaluation: of an amount in *)
(* parts of 1/Unit, by one of the factors.                                 *)
SmallChange(amount) ==
    \E x \in Factors \cup {Step} : 10 * ((x * amount) \div Whole) < Unit

(* What can be said for stopping with a side that is not "within": the     *)
(* field is at the end of its range in that direction, its range is a      *)
(* point, or the change is too small, that of the value or, to go between  *)
(* two values, that of their distance.                                     *)
Done(f, side, hi) ==
    \/ side = "within"
    \/ side = "over" /\ ~Effective(Run[f], Smaller(Low(f), Run[f]))
    \/ side = "under" /\ ~Effective(Run[f], Larger(hi, Run[f]))
    \/ Low(f) = hi
    \/ IF /\ Turns(last_signed_factor[f])
          /\ Previous(last_value[f]) # Latest(last_value[f])
       THEN SmallChange(Abs(Latest(last_value[f]) - Previous(last_value[f])))
       ELSE SmallChange(Run[f])

ConcurrencyDone == Done("CONCURRENCY", res.tpot, High("CONCURRENCY"))
RequestRateDone == Done("REQUESTRATE", res.ttft, RateLimit(Run["CONCURRENCY"]))

(* StopFineTune is caught with the words "the best value that satisfies    *)
(* the constraints has been found" and raised with "reached its boundary   *)
(* or did not change": if a constraint is not met, then its field has      *)
(* nowhere to go.                                                          *)
StopMeansDone ==
    pc = "stopped" =>
        /\ res.tpot = "over" => ConcurrencyDone
        /\ res.ttft = "over" => RequestRateDone

(* What does hold: there is one way only to stop too early.  The request   *)
(* rate has been put back to its first value, twice, because the           *)
(* concurrency changed, so that the value to turn back to is the value it  *)
(* has.  The concurrency never stops too early.                            *)
StopExplained ==
    pc = "stopped" =>
        /\ ConcurrencyDone
        /\ \/ RequestRateDone
           \/ LET values == last_value["REQUESTRATE"]
              IN Turns(last_signed_factor["REQUESTRATE"]) /\ Previous(values) = Latest(values)
===============================================================================
