---------------------------- MODULE FineTuneProofs ----------------------------
(***************************************************************************)
(* Theorems on fine tuning, for all limits, factors, candidates and        *)
(* numbers of calls.                                                       *)
(***************************************************************************)
EXTENDS FineTune, TLAPS

C == "CONCURRENCY"
R == "REQUESTRATE"

-------------------------------------------------------------------------------
(* Arithmetic: parts of an amount, and rounding down to a whole number.    *)
LEMMA Division ==
    ASSUME NEW a \in Int, NEW n \in Nat \ {0}
    PROVE  /\ a \div n \in Int
           /\ n * (a \div n) <= a
           /\ a < n * (a \div n) + n
  OBVIOUS

LEMMA Products ==
    ASSUME NEW a \in Int, NEW b \in Int, NEW n \in Nat \ {0}, n * a < n * b + n
    PROVE  a <= b
<1>1. SUFFICES ASSUME b + 1 <= a PROVE FALSE
  OBVIOUS
<1>2. n * (b + 1) <= n * a
  BY <1>1
<1>3. n * (b + 1) = n * b + n
  OBVIOUS
<1> QED BY <1>2, <1>3

LEMMA PartUp ==
    ASSUME NEW n \in Nat \ {0}, NEW x \in 1..n, NEW b \in Nat
    PROVE  (x * b) \div n \in 0..b
<1> DEFINE q == (x * b) \div n
<1>0. x * b \in Nat /\ x * b <= n * b
  OBVIOUS
<1>1. q \in Int /\ n * q <= x * b /\ x * b < n * q + n
  BY <1>0, Division
<1>2. 0 <= q
  <2>1. n * 0 < n * q + n
    BY <1>0, <1>1
  <2> QED BY <2>1, <1>1, Products
<1>3. q <= b
  <2>1. n * q < n * b + n
    BY <1>0, <1>1
  <2> QED BY <2>1, <1>1, Products
<1> QED BY <1>1, <1>2, <1>3

LEMMA PartDown ==
    ASSUME NEW n \in Nat \ {0}, NEW x \in 1..n, NEW b \in Nat
    PROVE  ((-x) * b) \div n \in (-b)..0
<1> DEFINE q == ((-x) * b) \div n
<1>0. (-x) * b \in Int /\ (-x) * b <= 0 /\ n * (-b) <= (-x) * b
  <2>1. x * b \in Nat /\ x * b <= n * b
    OBVIOUS
  <2>2. (-x) * b = -(x * b) /\ n * (-b) = -(n * b)
    OBVIOUS
  <2> QED BY <2>1, <2>2
<1>1. q \in Int /\ n * q <= (-x) * b /\ (-x) * b < n * q + n
  BY <1>0, Division
<1>2. -b <= q
  <2>1. n * (-b) < n * q + n
    BY <1>0, <1>1
  <2> QED BY <2>1, <1>1, Products
<1>3. q <= 0
  <2>1. n * q < n * 0 + n
    BY <1>0, <1>1
  <2> QED BY <2>1, <1>1, Products
<1> QED BY <1>1, <1>2, <1>3

(* What int makes of a concurrency.                                        *)
Down(x) == (x \div Unit) * Unit

LEMMA DownBelow ==
    ASSUME NEW x \in Int
    PROVE  Down(x) \in Int /\ Down(x) <= x
  BY ConstantsAssumption, Division DEF Down

LEMMA DownAbove ==
    ASSUME NEW k \in Int, NEW x \in Int, k * Unit <= x
    PROVE  k * Unit <= Down(x)
<1> DEFINE q == x \div Unit
<1>0. Unit \in Nat \ {0}
  BY ConstantsAssumption
<1>1. q \in Int /\ x < Unit * q + Unit
  BY <1>0, Division
<1>2. Unit * k < Unit * q + Unit
  BY <1>0, <1>1
<1>3. k <= q
  BY <1>0, <1>1, <1>2, Products
<1>4. k * Unit <= q * Unit
  BY <1>0, <1>1, <1>3
<1> QED BY <1>4 DEF Down

LEMMA DownAgain ==
    ASSUME NEW x \in Int
    PROVE  Down(Down(x)) = Down(x)
<1>1. Down(x) \in Int /\ x \div Unit \in Int
  BY ConstantsAssumption, DownBelow, Division
<1>2. Down(Down(x)) <= Down(x)
  BY <1>1, DownBelow
<1>3. Down(x) <= Down(Down(x))
  BY <1>1, DownAbove DEF Down
<1>4. Down(Down(x)) \in Int
  BY <1>1, DownBelow
<1> QED BY <1>1, <1>2, <1>3, <1>4

(* Down keeps the order with what is whole already.                        *)
LEMMA DownMonotonic ==
    ASSUME NEW x \in Int, NEW y \in Int, Down(x) <= y
    PROVE  Down(x) <= Down(y)
  BY ConstantsAssumption, Division, DownAbove DEF Down

-------------------------------------------------------------------------------
(* A factor in parts of Whole.                                             *)
Factor(x) == x \in Int /\ -Whole <= x /\ x <= Whole

(* A field moves in the direction of the factor, and not past the value it *)
(* turns back to.                                                          *)
LEMMA MovedWithin ==
    ASSUME NEW value \in Int, NEW lo \in Nat \ {0}, NEW hi \in Int,
           lo <= value, value <= hi,
           NEW last \in Int, NEW factor, Factor(factor),
           NEW new, new = Moved(value, factor, last, lo, hi)
    PROVE  /\ new \in lo..hi
           /\ factor = 0 => new = value
           /\ factor >= 0 => value <= new
           /\ factor <= 0 => new <= value
           /\ last # 0 /\ factor > 0 /\ value <= last => new <= last
           /\ last # 0 /\ factor < 0 /\ last <= value => last <= new
<1> DEFINE base == IF last # 0 THEN Abs(value - last) ELSE value
           part == (factor * base) \div Whole
<1>0. Whole \in Nat \ {0}
  BY ConstantsAssumption
<1>1. base \in Nat
  BY DEF Abs
<1>2. CASE factor = 0 \/ lo = hi
  BY <1>2 DEF Moved
<1>3. CASE factor > 0 /\ lo # hi
  <2>1. part \in 0..base
    <3>1. factor \in 1..Whole
      BY <1>0, <1>3 DEF Factor
    <3> QED BY <1>0, <1>1, <3>1, PartUp
  <2>2. new = Clamp(value + part, lo, hi)
    BY <1>3 DEF Moved
  <2> HIDE DEF part
  <2>3. last # 0 /\ value <= last => base = last - value
    BY DEF Abs
  <2> HIDE DEF base
  <2> QED BY <1>1, <1>3, <2>1, <2>2, <2>3 DEF Clamp, Larger, Smaller, Factor
<1>4. CASE factor < 0 /\ lo # hi
  <2>1. part \in (-base)..0
    <3>1. -factor \in 1..Whole /\ factor = -(-factor)
      BY <1>0, <1>4 DEF Factor
    <3> HIDE DEF base
    <3>2. ((-(-factor)) * base) \div Whole \in (-base)..0
      BY <1>0, <1>1, <3>1, PartDown
    <3> QED BY <3>1, <3>2
  <2>2. new = Clamp(value + part, lo, hi)
    BY <1>4 DEF Moved
  <2> HIDE DEF part
  <2>3. last # 0 /\ last <= value => base = value - last
    BY DEF Abs
  <2> HIDE DEF base
  <2> QED BY <1>1, <1>4, <2>1, <2>2, <2>3 DEF Clamp, Larger, Smaller, Factor
<1> QED BY <1>2, <1>3, <1>4 DEF Factor

(* The request rate may be above its limit, the concurrency: it is put     *)
(* below it then.                                                          *)
LEMMA MovedInRange ==
    ASSUME NEW value \in Int, NEW lo \in Nat \ {0}, NEW hi \in Int, NEW top \in Int,
           lo <= value, value <= top, hi <= top,
           NEW last \in Int, NEW factor, Factor(factor)
    PROVE  Moved(value, factor, last, lo, hi) \in lo..top
<1> DEFINE base == IF last # 0 THEN Abs(value - last) ELSE value
           part == (factor * base) \div Whole
<1>1. part \in Int
  <2>1. factor * base \in Int
    BY DEF Abs, Factor
  <2> QED BY <2>1, Division, ConstantsAssumption
<1>2. Moved(value, factor, last, lo, hi) \in {value, Clamp(value + part, lo, hi)}
  BY DEF Moved
<1> HIDE DEF part
<1> QED BY <1>1, <1>2 DEF Clamp, Larger, Smaller

-------------------------------------------------------------------------------
(* Every value remembered is in the range of its field.                    *)
HistoryInRange ==
    \A f \in Fields : \A i \in 1..Len(last_value[f]) : last_value[f][i] \in Low(f)..High(f)

(* If the concurrency that is evaluated differs from the one remembered    *)
(* last, the last sign tells in which direction.                           *)
LastMove ==
    pc \in {"again", "tune"} /\ Len(last_value[C]) > 0 =>
        /\ Run[C] > Latest(last_value[C]) =>
             Len(last_signed_factor[C]) > 0 /\ Latest(last_signed_factor[C]) = 1
        /\ Run[C] < Latest(last_value[C]) =>
             Len(last_signed_factor[C]) > 0 /\ Latest(last_signed_factor[C]) = -1

IInv == TypeOK /\ HistoryInRange /\ ValuesForSigns /\ LastMove

LEMMA LimitsAreWhole ==
    ASSUME NEW f \in Fields
    PROVE  /\ Low(f) \in Nat \ {0} /\ High(f) \in Nat /\ Low(f) <= High(f)
           /\ Low(f) = Min[f] * Unit /\ Min[f] \in Int
<1>1. Min[f] \in Nat \ {0} /\ Max[f] \in Nat \ {0} /\ Min[f] <= Max[f] /\ Unit \in Nat \ {0}
  BY ConstantsAssumption
<1>2. Min[f] * Unit \in Nat \ {0} /\ Max[f] * Unit \in Nat /\ Min[f] * Unit <= Max[f] * Unit
  BY <1>1
<1> QED BY <1>1, <1>2 DEF Low, High

LEMMA RunInRange ==
    ASSUME TypeOK
    PROVE  /\ Run \in [Fields -> Int]
           /\ Run[C] = Down(params[C]) /\ Run[R] = params[R]
           /\ \A f \in Fields : Run[f] \in Low(f)..High(f)
<1>1. C \in Fields /\ R \in Fields /\ C # R /\ Fields = {C, R}
  BY DEF C, R, Fields
<1>2. params[C] \in Int /\ Down(params[C]) \in Int
  BY <1>1, DownBelow DEF TypeOK
<1>3. /\ Run \in [Fields -> Int]
      /\ Run[C] = Down(params[C]) /\ Run[R] = params[R]
  BY <1>1, <1>2 DEF TypeOK, Run, Down, C, R
<1>4. Low(C) <= Down(params[C])
  BY <1>1, <1>2, LimitsAreWhole, DownAbove DEF TypeOK
<1>5. Down(params[C]) <= High(C)
  BY <1>1, <1>2, LimitsAreWhole, DownBelow DEF TypeOK
<1>6. \A f \in Fields : Low(f) \in Int /\ High(f) \in Int
  BY LimitsAreWhole
<1> QED BY <1>1, <1>2, <1>3, <1>4, <1>5, <1>6 DEF TypeOK

LEMMA FactorsInRange ==
    /\ \A x \in ConcurrencyFactors : Factor(x)
    /\ \A x \in RequestRateFactors : Factor(x)
<1>1. \A x \in Factors : x \in 1..Whole
  BY ConstantsAssumption
<1>2. Step \in 1..Whole /\ Whole \in Nat
  BY ConstantsAssumption
<1>3. ASSUME NEW x \in ConcurrencyFactors PROVE Factor(x)
  <2>1. x = 0 \/ x \in Factors \/ \E y \in Factors : x = -y
    BY DEF ConcurrencyFactors
  <2> QED BY <1>1, <1>2, <2>1 DEF Factor
<1>4. ASSUME NEW x \in RequestRateFactors PROVE Factor(x)
  <2>1. x = 0 \/ x = Step \/ \E y \in Factors : x = -y
    BY DEF RequestRateFactors
  <2> QED BY <1>1, <1>2, <2>1 DEF Factor
<1> QED BY <1>3, <1>4

(* What is noted of a call.                                                *)
LEMMA NotedSigns ==
    ASSUME NEW signs \in Seq({-1, 1}), NEW factor, Factor(factor)
    PROVE  /\ Noted(signs, factor) \in Seq({-1, 1})
           /\ factor = 0 => Noted(signs, factor) = signs
           /\ factor # 0 =>
                /\ Len(Noted(signs, factor)) = Len(signs) + 1
                /\ Latest(Noted(signs, factor)) = Sign(factor)
                /\ Len(signs) > 0 =>
                     Noted(signs, factor)[Len(Noted(signs, factor)) - 1] = Latest(signs)
<1>1. factor # 0 => Sign(factor) \in {-1, 1}
  BY DEF Sign, Factor
<1> QED BY <1>1 DEF Noted, Latest

LEMMA Remembered ==
    ASSUME NEW values \in Seq(Int), NEW v \in Int
    PROVE  /\ Append(values, v) \in Seq(Int)
           /\ Len(Append(values, v)) = Len(values) + 1
           /\ Latest(Append(values, v)) = v
           /\ Len(values) > 0 => Previous(Append(values, v)) = Latest(values)
           /\ \A i \in 1..Len(Append(values, v)) :
                Append(values, v)[i] = IF i <= Len(values) THEN values[i] ELSE v
  BY DEF Latest, Previous

-------------------------------------------------------------------------------
(* Where the concurrency goes: in the direction of its factor, and between *)
(* the last two values if it turns back.                                   *)
LEMMA ConcurrencyMoves ==
    ASSUME IInv, pc = "tune",
           NEW factor \in ConcurrencyFactors,
           NEW signs, signs = Noted(last_signed_factor[C], factor),
           NEW values, values = Append(last_value[C], Run[C]),
           NEW new, new = HandleConcurrency(factor, signs, values)
    PROVE  /\ new \in Low(C)..High(C)
           /\ factor = 0 => new = Run[C]
           /\ factor > 0 => Run[C] <= new
           /\ factor < 0 => new <= Run[C]
           /\ factor # 0 /\ Turns(signs) /\ Previous(values) # Latest(values)
                => Between(new, Previous(values), Latest(values))
<1> DEFINE last == IF /\ factor # 0
                      /\ Turns(signs)
                      /\ Previous(values) # Latest(values)
                   THEN Previous(values) ELSE 0
<1>1. C \in Fields /\ Factor(factor)
  BY FactorsInRange DEF C, Fields
<1>2. /\ Low(C) \in Nat \ {0} /\ High(C) \in Nat
      /\ Run[C] \in Low(C)..High(C) /\ Run[C] \in Int
  BY <1>1, LimitsAreWhole, RunInRange DEF IInv
<1>3. /\ last_signed_factor[C] \in Seq({-1, 1}) /\ last_value[C] \in Seq(Int)
      /\ Len(last_signed_factor[C]) <= Len(last_value[C])
  BY <1>1 DEF IInv, TypeOK, ValuesForSigns
<1>4. Latest(values) = Run[C] /\ (Len(last_value[C]) > 0 => Previous(values) = Latest(last_value[C]))
  BY <1>2, <1>3, Remembered
<1>5. new = Moved(Run[C], factor, last, Low(C), High(C))
  BY <1>4 DEF HandleConcurrency, C
<1>6. /\ factor = 0 => signs = last_signed_factor[C]
      /\ factor # 0 => /\ Len(signs) = Len(last_signed_factor[C]) + 1
                       /\ Latest(signs) = Sign(factor)
                       /\ Len(last_signed_factor[C]) > 0 =>
                            signs[Len(signs) - 1] = Latest(last_signed_factor[C])
  BY <1>1, <1>3, NotedSigns
<1>7. factor # 0 /\ Turns(signs) =>
        /\ Len(last_value[C]) > 0 /\ Len(last_signed_factor[C]) > 0
        /\ Latest(last_signed_factor[C]) * Sign(factor) < 0
  BY <1>3, <1>6 DEF Turns, Latest
<1>8. Len(last_value[C]) > 0 => Latest(last_value[C]) \in Low(C)..High(C)
  BY <1>1, <1>3 DEF IInv, HistoryInRange, Latest
<1>9. last \in Int
  BY <1>4, <1>7, <1>8, <1>2
<1>10. /\ new \in Low(C)..High(C)
       /\ factor = 0 => new = Run[C]
       /\ factor >= 0 => Run[C] <= new
       /\ factor <= 0 => new <= Run[C]
       /\ last # 0 /\ factor > 0 /\ Run[C] <= last => new <= last
       /\ last # 0 /\ factor < 0 /\ last <= Run[C] => last <= new
  <2> DEFINE value == Run[C]  lo == Low(C)  hi == High(C)
  <2>1. /\ value \in Int /\ lo \in Nat \ {0} /\ hi \in Int
        /\ lo <= value /\ value <= hi
    BY <1>2
  <2>2. last \in Int /\ Factor(factor) /\ new = Moved(value, factor, last, lo, hi)
    BY <1>1, <1>5, <1>9
  <2> HIDE DEF last, value, lo, hi
  <2>3. /\ new \in lo..hi
        /\ factor = 0 => new = value
        /\ factor >= 0 => value <= new
        /\ factor <= 0 => new <= value
        /\ last # 0 /\ factor > 0 /\ value <= last => new <= last
        /\ last # 0 /\ factor < 0 /\ last <= value => last <= new
    BY <2>1, <2>2, MovedWithin
  <2> QED BY <2>3 DEF value, lo, hi
<1>11. ASSUME factor # 0, Turns(signs), Previous(values) # Latest(values)
       PROVE  Between(new, Previous(values), Latest(values))
  <2>1. last = Latest(last_value[C]) /\ last # 0 /\ last \in Low(C)..High(C) /\ last # Run[C]
    BY <1>2, <1>4, <1>7, <1>8, <1>11
  <2>2. Previous(values) = last /\ Latest(values) = Run[C]
    BY <1>4, <1>7, <1>11, <2>1
  <2>3. new \in Int /\ last \in Int /\ Run[C] \in Int
    BY <1>2, <1>9, <1>10
  <2> HIDE DEF last
  <2>4. /\ Run[C] > last => Latest(last_signed_factor[C]) = 1
        /\ Run[C] < last => Latest(last_signed_factor[C]) = -1
    BY <2>1, <1>7, <1>11 DEF IInv, LastMove
  <2>5. CASE Run[C] > last
    <3>1. factor < 0
      BY <1>1, <1>7, <1>11, <2>4, <2>5 DEF Sign, Factor
    <3>2. last <= new /\ new <= Run[C]
      BY <1>1, <1>10, <2>1, <2>3, <2>5, <3>1 DEF Factor
    <3> QED BY <2>5, <2>2, <2>3, <3>2 DEF Between, Smaller, Larger
  <2>6. CASE Run[C] < last
    <3>1. factor > 0
      BY <1>1, <1>7, <1>11, <2>4, <2>6 DEF Sign, Factor
    <3>2. Run[C] <= new /\ new <= last
      BY <1>1, <1>10, <2>1, <2>3, <2>6, <3>1 DEF Factor
    <3> QED BY <2>6, <2>2, <2>3, <3>2 DEF Between, Smaller, Larger
  <2> QED BY <2>1, <2>3, <2>5, <2>6
<1> QED BY <1>1, <1>10, <1>11 DEF Factor

LEMMA RequestRateMoves ==
    ASSUME IInv, pc = "tune",
           NEW factor \in RequestRateFactors,
           NEW signs, signs = Noted(last_signed_factor[R], factor),
           NEW values, values = Append(last_value[R], Run[R])
    PROVE  /\ HandleRequestRate(factor, signs, values, Run[C]) \in Low(R)..High(R)
           /\ values[1] \in Low(R)..High(R)
<1> DEFINE last == IF factor # 0 /\ Turns(signs) THEN Previous(values) ELSE 0
<1>1. R \in Fields /\ C \in Fields /\ Factor(factor)
  BY FactorsInRange DEF R, C, Fields
<1>2. /\ Low(R) \in Nat \ {0} /\ High(R) \in Nat
      /\ Run[R] \in Low(R)..High(R) /\ Run[R] \in Int /\ Run[C] \in Int
  BY <1>1, LimitsAreWhole, RunInRange DEF IInv
<1>3. /\ last_signed_factor[R] \in Seq({-1, 1}) /\ last_value[R] \in Seq(Int)
      /\ Len(last_signed_factor[R]) <= Len(last_value[R])
  BY <1>1 DEF IInv, TypeOK, ValuesForSigns
<1>4. Latest(values) = Run[R] /\ (Len(last_value[R]) > 0 => Previous(values) = Latest(last_value[R]))
  BY <1>2, <1>3, Remembered
<1>5. factor # 0 => Len(signs) = Len(last_signed_factor[R]) + 1
  BY <1>1, <1>3, NotedSigns
<1>6. factor # 0 /\ Turns(signs) => Len(last_value[R]) > 0
  BY <1>3, <1>5 DEF Turns
<1>7. last \in Int
  BY <1>3, <1>4, <1>6 DEF Latest
<1>8. RateLimit(Run[C]) \in Int /\ RateLimit(Run[C]) <= High(R)
  BY <1>2 DEF RateLimit, Smaller, R
<1>9. HandleRequestRate(factor, signs, values, Run[C])
        = Moved(Run[R], factor, last, Low(R), RateLimit(Run[C]))
  BY <1>4 DEF HandleRequestRate, R
<1>10. Moved(Run[R], factor, last, Low(R), RateLimit(Run[C])) \in Low(R)..High(R)
  <2> HIDE DEF last
  <2> QED BY <1>1, <1>2, <1>7, <1>8, MovedInRange
<1>11. values[1] \in Low(R)..High(R)
  <2>1. Len(last_value[R]) \in Nat /\ 1 \in 1..Len(values)
    BY <1>2, <1>3, Remembered
  <2> QED BY <1>1, <1>2, <1>3, <2>1, Remembered DEF IInv, HistoryInRange
<1> QED BY <1>9, <1>10, <1>11

-------------------------------------------------------------------------------
LEMMA InitEstablishes == Init => IInv
<1> SUFFICES ASSUME Init PROVE IInv
  OBVIOUS
<1>1. \A f \in Fields : Default[f] \in Nat /\ Default[f] \in Min[f]..Max[f]
  BY ConstantsAssumption
<1>2. \A f \in Fields : params[f] \in Low(f)..High(f) /\ params[f] \in Int
  <2> TAKE f \in Fields
  <2>1. /\ Default[f] \in Nat /\ Min[f] \in Nat /\ Max[f] \in Nat /\ Unit \in Nat
        /\ Min[f] <= Default[f] /\ Default[f] <= Max[f]
    BY <1>1, ConstantsAssumption
  <2>2. /\ Default[f] * Unit \in Nat /\ Min[f] * Unit \in Nat /\ Max[f] * Unit \in Nat
        /\ Min[f] * Unit <= Default[f] * Unit /\ Default[f] * Unit <= Max[f] * Unit
    BY <2>1
  <2> QED BY <2>2 DEF Init, InParts, Low, High
<1>3. TypeOK
  BY <1>2, ConstantsAssumption DEF Init, TypeOK, InParts, NoHistory
<1>4. HistoryInRange /\ ValuesForSigns
  BY DEF Init, HistoryInRange, ValuesForSigns, NoHistory
<1>5. LastMove
  BY DEF Init, LastMove
<1> QED BY <1>3, <1>4, <1>5 DEF IInv

(* Only this action has something to remember.                             *)
LEMMA FineTuneStep ==
    ASSUME IInv, FineTuneWithConcurrencyAndRequestRate
    PROVE  /\ IInv'
           /\ (/\ last_signed_factor'[C] # last_signed_factor[C] /\ pc' # "stopped"
               /\ Turns(last_signed_factor'[C])
               /\ Previous(last_value'[C]) # Latest(last_value'[C]))
              => Between(params'[C], Previous(last_value'[C]), Latest(last_value'[C]))
<1> DEFINE values(f) == Append(last_value[f], Run[f])
<1>0. C \in Fields /\ R \in Fields /\ C # R /\ Fields = {C, R}
  BY DEF C, R, Fields
<1>1. /\ pc = "tune" /\ calls < MaxFineTune /\ calls' = calls + 1
      /\ last_value' = [f \in Fields |-> values(f)]
      /\ UNCHANGED <<record_params, candidate>>
  BY DEF FineTuneWithConcurrencyAndRequestRate
<1>2. PICK fc \in ConcurrencyFactors, fr \in RequestRateFactors :
        LET signsC == Noted(last_signed_factor[C], fc)
            signsR == Noted(last_signed_factor[R], fr)
            concurrency == HandleConcurrency(fc, signsC, values(C))
            rate == HandleRequestRate(fr, signsR, values(R), Run[C])
        IN \/ /\ last_signed_factor' = [last_signed_factor EXCEPT ![C] = signsC]
              /\ Choose([f \in Fields |-> IF f = C THEN concurrency ELSE values(R)[1]])
           \/ /\ last_signed_factor' = [f \in Fields |-> IF f = C THEN signsC ELSE signsR]
              /\ \/ Choose([f \in Fields |-> IF f = C THEN concurrency ELSE rate])
                 \/ /\ ~Effective(Run[C], concurrency)
                    /\ pc' = "stopped"
                    /\ UNCHANGED <<params, res>>
  BY DEF FineTuneWithConcurrencyAndRequestRate, C, R
<1> DEFINE signsC == Noted(last_signed_factor[C], fc)
           signsR == Noted(last_signed_factor[R], fr)
           concurrency == HandleConcurrency(fc, signsC, values(C))
           rate == HandleRequestRate(fr, signsR, values(R), Run[C])
<1>3. /\ \A f \in Fields : /\ last_value[f] \in Seq(Int) /\ Run[f] \in Int
                           /\ Run[f] \in Low(f)..High(f)
                           /\ last_signed_factor[f] \in Seq({-1, 1})
      /\ Factor(fc) /\ Factor(fr)
      /\ \A f \in Fields : Low(f) \in Int /\ High(f) \in Int
  BY RunInRange, FactorsInRange, LimitsAreWhole DEF IInv, TypeOK
<1>4. /\ concurrency \in Low(C)..High(C)
      /\ fc = 0 => concurrency = Run[C]
      /\ fc > 0 => Run[C] <= concurrency
      /\ fc < 0 => concurrency <= Run[C]
      /\ fc # 0 /\ Turns(signsC) /\ Previous(values(C)) # Latest(values(C))
           => Between(concurrency, Previous(values(C)), Latest(values(C)))
  BY <1>1, ConcurrencyMoves
<1>5. rate \in Low(R)..High(R) /\ values(R)[1] \in Low(R)..High(R)
  BY <1>1, RequestRateMoves
<1>6. /\ last_signed_factor' \in [Fields -> Seq({-1, 1})]
      /\ last_signed_factor'[C] = signsC
      /\ last_signed_factor'[R] \in {last_signed_factor[R], signsR}
  <2>1. signsC \in Seq({-1, 1}) /\ signsR \in Seq({-1, 1})
    BY <1>0, <1>3, NotedSigns
  <2>2. last_signed_factor \in [Fields -> Seq({-1, 1})]
    BY DEF IInv, TypeOK
  <2> HIDE DEF signsC, signsR
  <2> QED BY <1>0, <1>2, <2>1, <2>2 DEF signsC, signsR
<1>7. \/ /\ params' \in [Fields -> Int] /\ params'[C] = concurrency
         /\ params'[R] \in Low(R)..High(R)
         /\ res' = NoResult /\ pc' \in {"next", "again"}
      \/ params' = params /\ res' = res /\ pc' = "stopped"
  <2> HIDE DEF concurrency, rate, values
  <2> QED BY <1>0, <1>2, <1>3, <1>4, <1>5 DEF Choose, concurrency, rate
<1>8. \A f \in Fields : /\ last_value'[f] = values(f)
                        /\ values(f) \in Seq(Int)
                        /\ Len(values(f)) = Len(last_value[f]) + 1
                        /\ Latest(values(f)) = Run[f]
                        /\ \A i \in 1..Len(values(f)) :
                             values(f)[i] = IF i <= Len(last_value[f]) THEN last_value[f][i]
                                            ELSE Run[f]
  BY <1>1, <1>3, Remembered
<1>9. TypeOK'
  <2>1. params' \in [Fields -> Int] /\ \A f \in Fields : params'[f] \in Low(f)..High(f)
    <3> HIDE DEF concurrency
    <3> QED BY <1>0, <1>4, <1>7 DEF IInv, TypeOK
  <2>2. last_value' \in [Fields -> Seq(Int)]
    <3> HIDE DEF values
    <3> QED BY <1>1, <1>8
  <2>3. calls' \in 0..MaxFineTune /\ candidate' \in 0..Candidates
    BY <1>1, ConstantsAssumption DEF IInv, TypeOK
  <2>4. res' \in Results \cup {NoResult} /\ pc' \in {"next", "first", "again", "tune", "stopped"}
    BY <1>7 DEF IInv, TypeOK
  <2> QED BY <1>6, <2>1, <2>2, <2>3, <2>4 DEF TypeOK, Low, High
<1>10. HistoryInRange'
  <2> SUFFICES ASSUME NEW f \in Fields, NEW i \in 1..Len(last_value'[f])
               PROVE  last_value'[f][i] \in Low(f)..High(f)
    BY DEF HistoryInRange, Low, High
  <2> HIDE DEF values
  <2>1. last_value'[f][i] = IF i <= Len(last_value[f]) THEN last_value[f][i] ELSE Run[f]
    BY <1>8
  <2>2. Len(last_value[f]) \in Nat /\ i \in Nat \ {0}
    BY <1>3
  <2>3. i <= Len(last_value[f]) => last_value[f][i] \in Low(f)..High(f)
    BY <2>2 DEF IInv, HistoryInRange
  <2> QED BY <1>3, <2>1, <2>3
<1>11. ValuesForSigns'
  <2> SUFFICES ASSUME NEW f \in Fields
               PROVE  Len(last_signed_factor'[f]) <= Len(last_value'[f])
    BY DEF ValuesForSigns
  <2>1. Len(last_signed_factor[f]) <= Len(last_value[f])
    BY DEF IInv, ValuesForSigns
  <2>2. Len(last_signed_factor'[f]) \in {Len(last_signed_factor[f]), Len(last_signed_factor[f]) + 1}
    <3>1. /\ signsC = last_signed_factor[C] \/ Len(signsC) = Len(last_signed_factor[C]) + 1
          /\ signsR = last_signed_factor[R] \/ Len(signsR) = Len(last_signed_factor[R]) + 1
      BY <1>0, <1>3, NotedSigns
    <3> HIDE DEF signsC, signsR
    <3> QED BY <1>0, <1>6, <3>1
  <2>3. Len(last_value'[f]) = Len(last_value[f]) + 1
    <3> HIDE DEF values
    <3> QED BY <1>8
  <2> QED BY <1>3, <2>1, <2>2, <2>3
<1>12. LastMove'
  <2> SUFFICES ASSUME pc' \in {"again", "tune"}
               PROVE  /\ Run'[C] > Latest(last_value'[C]) =>
                           Len(last_signed_factor'[C]) > 0 /\ Latest(last_signed_factor'[C]) = 1
                      /\ Run'[C] < Latest(last_value'[C]) =>
                           Len(last_signed_factor'[C]) > 0 /\ Latest(last_signed_factor'[C]) = -1
    BY DEF LastMove
  <2>1. params'[C] = concurrency /\ concurrency \in Int
    <3> HIDE DEF concurrency
    <3> QED BY <1>0, <1>3, <1>4, <1>7
  <2>2. Run'[C] = Down(concurrency)
    BY <1>0, <1>9, <2>1 DEF Run, Down, C, TypeOK
  <2>3. Latest(last_value'[C]) = Run[C] /\ Run[C] = Down(params[C]) /\ params[C] \in Int
    <3> HIDE DEF values
    <3> QED BY <1>0, <1>8, RunInRange DEF IInv, TypeOK
  <2>4. fc # 0 => Len(signsC) > 0 /\ Latest(signsC) = Sign(fc)
    <3>1. last_signed_factor[C] \in Seq({-1, 1}) /\ Len(last_signed_factor[C]) \in Nat
      BY <1>0, <1>3
    <3>2. fc # 0 => Len(signsC) = Len(last_signed_factor[C]) + 1 /\ Latest(signsC) = Sign(fc)
      BY <1>3, <3>1, NotedSigns
    <3> HIDE DEF signsC
    <3> QED BY <3>1, <3>2
  <2> HIDE DEF concurrency, signsC
  <2>5. CASE fc = 0
    <3>1. Down(concurrency) = Run[C]
      BY <1>4, <2>3, <2>5, DownAgain
    <3> QED BY <1>0, <1>3, <2>2, <2>3, <3>1
  <2>6. CASE fc > 0
    <3>1. Run[C] <= Down(concurrency)
      BY <1>4, <2>1, <2>3, <2>6, DownMonotonic
    <3>2. Down(concurrency) \in Int
      BY <2>1, DownBelow
    <3>3. Sign(fc) = 1
      BY <1>3, <2>6 DEF Sign, Factor
    <3>4. Len(last_signed_factor'[C]) > 0 /\ Latest(last_signed_factor'[C]) = 1
      <4>1. fc # 0
        BY <2>6
      <4> QED BY <1>6, <2>4, <3>3, <4>1
    <3>5. ~(Run'[C] < Latest(last_value'[C]))
      BY <1>0, <1>3, <2>2, <2>3, <3>1, <3>2
    <3> QED BY <3>4, <3>5
  <2>7. CASE fc < 0
    <3>1. Down(concurrency) <= Run[C] /\ Down(concurrency) \in Int
      <4>1. Down(concurrency) \in Int /\ Down(concurrency) <= concurrency
        BY <2>1, DownBelow
      <4>2. concurrency <= Run[C] /\ Run[C] \in Int
        BY <1>0, <1>3, <1>4, <2>7
      <4> QED BY <2>1, <4>1, <4>2
    <3>2. Sign(fc) = -1
      BY <1>3, <2>7 DEF Sign, Factor
    <3>3. Len(last_signed_factor'[C]) > 0 /\ Latest(last_signed_factor'[C]) = -1
      <4>1. fc # 0
        BY <2>7
      <4> QED BY <1>6, <2>4, <3>2, <4>1
    <3>4. ~(Run'[C] > Latest(last_value'[C]))
      BY <1>0, <1>3, <2>2, <2>3, <3>1
    <3> QED BY <3>3, <3>4
  <2> QED BY <1>3, <2>5, <2>6, <2>7 DEF Factor
<1>13. ASSUME last_signed_factor'[C] # last_signed_factor[C], pc' # "stopped",
              Turns(last_signed_factor'[C]),
              Previous(last_value'[C]) # Latest(last_value'[C])
       PROVE  Between(params'[C], Previous(last_value'[C]), Latest(last_value'[C]))
  <2>1. fc # 0
    BY <1>0, <1>3, <1>6, <1>13, NotedSigns
  <2>2. params'[C] = concurrency /\ last_value'[C] = values(C)
    <3> HIDE DEF concurrency, values
    <3> QED BY <1>0, <1>7, <1>8, <1>13
  <2> HIDE DEF concurrency, values, signsC
  <2> QED BY <1>4, <1>6, <1>13, <2>1, <2>2
<1> QED BY <1>9, <1>10, <1>11, <1>12, <1>13 DEF IInv

LEMMA NextCandidateStep ==
    ASSUME IInv, NextCandidate
    PROVE  IInv' /\ UNCHANGED last_signed_factor
<1>0. C \in Fields /\ R \in Fields /\ C # R /\ Fields = {C, R}
  BY DEF C, R, Fields
<1>1. PICK v \in Firsts :
        params' = [InParts(v) EXCEPT ![R] = Clamp(2 * InParts(v)[R], Low(R), High(R))]
  BY DEF NextCandidate, R
<1>2. \A f \in Fields : InParts(v)[f] \in Int /\ InParts(v)[f] \in Low(f)..High(f)
  <2> TAKE f \in Fields
  <2>1. /\ v[f] \in Nat /\ Min[f] \in Nat /\ Max[f] \in Nat /\ Unit \in Nat
        /\ Min[f] <= v[f] /\ v[f] <= Max[f]
    BY ConstantsAssumption
  <2>2. /\ v[f] * Unit \in Nat /\ Min[f] * Unit \in Nat /\ Max[f] * Unit \in Nat
        /\ Min[f] * Unit <= v[f] * Unit /\ v[f] * Unit <= Max[f] * Unit
    BY <2>1
  <2> QED BY <2>2 DEF InParts, Low, High
<1>3. InParts(v) \in [Fields -> Int]
  BY <1>2 DEF InParts
<1>4. Clamp(2 * InParts(v)[R], Low(R), High(R)) \in Low(R)..High(R)
  BY <1>0, <1>2, LimitsAreWhole DEF Clamp, Larger, Smaller
<1>5. params' \in [Fields -> Int] /\ \A f \in Fields : params'[f] \in Low(f)..High(f)
  BY <1>0, <1>1, <1>2, <1>3, <1>4, LimitsAreWhole
<1>6. /\ candidate' = candidate + 1 /\ candidate < Candidates
      /\ res' = NoResult /\ pc' = "first"
      /\ UNCHANGED <<record_params, history, calls>>
  BY DEF NextCandidate
<1>7. TypeOK'
  BY <1>5, <1>6, ConstantsAssumption DEF IInv, TypeOK, history, Low, High
<1>8. HistoryInRange' /\ ValuesForSigns'
  BY <1>6 DEF IInv, HistoryInRange, ValuesForSigns, history, Low, High
<1>9. LastMove'
  BY <1>6 DEF LastMove
<1> QED BY <1>6, <1>7, <1>8, <1>9 DEF IInv, history

LEMMA EvaluatedStep ==
    ASSUME IInv, Evaluated
    PROVE  IInv' /\ (last_signed_factor' = last_signed_factor \/ last_signed_factor' = NoHistory)
<1>0. C \in Fields
  BY DEF C, Fields
<1>1. /\ pc \in {"first", "again"} /\ pc' = "tune" /\ res' \in Results
      /\ UNCHANGED <<params, candidate>>
      /\ \/ last_value' = NoHistory /\ last_signed_factor' = NoHistory /\ calls' = 0
         \/ pc = "again" /\ UNCHANGED <<history, calls>>
  BY DEF Evaluated
<1>2. CASE last_value' = NoHistory /\ last_signed_factor' = NoHistory /\ calls' = 0
  <2>1. TypeOK'
    BY <1>1, <1>2, ConstantsAssumption DEF IInv, TypeOK, NoHistory, Low, High
  <2>2. HistoryInRange' /\ ValuesForSigns' /\ LastMove'
    BY <1>0, <1>2 DEF HistoryInRange, ValuesForSigns, LastMove, NoHistory
  <2> QED BY <1>2, <2>1, <2>2 DEF IInv
<1>3. CASE pc = "again" /\ UNCHANGED <<history, calls>>
  <2>1. TypeOK'
    BY <1>1, <1>3 DEF IInv, TypeOK, history, Low, High
  <2>2. HistoryInRange' /\ ValuesForSigns'
    BY <1>3 DEF IInv, HistoryInRange, ValuesForSigns, history, Low, High
  <2>3. LastMove'
    BY <1>1, <1>3 DEF IInv, LastMove, history, Run
  <2> QED BY <1>3, <2>1, <2>2, <2>3 DEF IInv, history
<1> QED BY <1>1, <1>2, <1>3

LEMMA EndingStep ==
    ASSUME IInv, EvaluationFails \/ GivesUp
    PROVE  IInv' /\ UNCHANGED last_signed_factor
<1>1. /\ pc' = "next"
      /\ UNCHANGED <<params, record_params, res, history, candidate, calls>>
  BY DEF EvaluationFails, GivesUp
<1>2. TypeOK' /\ HistoryInRange' /\ ValuesForSigns'
  BY <1>1 DEF IInv, TypeOK, HistoryInRange, ValuesForSigns, history, Low, High
<1>3. LastMove'
  BY <1>1 DEF LastMove
<1> QED BY <1>1, <1>2, <1>3 DEF IInv, history

LEMMA UnchangedStep ==
    ASSUME IInv, UNCHANGED vars
    PROVE  IInv'
  BY DEF IInv, TypeOK, HistoryInRange, ValuesForSigns, LastMove, vars, history, Low, High, Run

(* The formula of TurnsBack, for a step.                                   *)
TurnsBackStep ==
    LET signs == last_signed_factor'[C]
        values == last_value'[C]
    IN (/\ signs # last_signed_factor[C] /\ pc' # "stopped"
        /\ Turns(signs)
        /\ Previous(values) # Latest(values))
       => Between(params'[C], Previous(values), Latest(values))

LEMMA StepPreserves ==
    ASSUME IInv, [Next]_vars
    PROVE  IInv' /\ TurnsBackStep
<1>0. C \in Fields
  BY DEF C, Fields
<1>1. CASE NextCandidate
  BY <1>1, NextCandidateStep DEF TurnsBackStep
<1>2. CASE EvaluationFails \/ GivesUp
  BY <1>2, EndingStep DEF TurnsBackStep
<1>3. CASE Evaluated
  <2>1. ~Turns(NoHistory[C])
    BY <1>0 DEF NoHistory, Turns
  <2> QED BY <1>3, <2>1, EvaluatedStep DEF TurnsBackStep
<1>4. CASE FineTuneWithConcurrencyAndRequestRate
  BY <1>4, FineTuneStep DEF TurnsBackStep
<1>5. CASE UNCHANGED vars
  BY <1>5, UnchangedStep DEF TurnsBackStep, vars, history
<1> QED BY <1>1, <1>2, <1>3, <1>4, <1>5 DEF Next

THEOREM Invariance == Spec => []IInv
<1>1. IInv /\ [Next]_vars => IInv'
  BY StepPreserves
<1> QED BY InitEstablishes, <1>1, PTL DEF Spec

-------------------------------------------------------------------------------
(* Whatever is evaluated is within the limits of its field, also after a   *)
(* turn back, a request rate put back or put below the concurrency.        *)
THEOREM TypeCorrect == Spec => []TypeOK
<1>1. IInv => TypeOK
  BY DEF IInv
<1> QED BY Invariance, <1>1, PTL

(* Where two signs of a field are known, two of its values are.            *)
THEOREM ValuesAreKnown == Spec => []ValuesForSigns
<1>1. IInv => ValuesForSigns
  BY DEF IInv
<1> QED BY Invariance, <1>1, PTL

(* A concurrency that turns back goes between the last two.                *)
THEOREM BracketTheorem == Spec => TurnsBack
<1>1. IInv /\ [Next]_vars => [TurnsBackStep]_vars
  BY StepPreserves
<1>2. TurnsBack <=> [][TurnsBackStep]_vars
  BY DEF TurnsBack, TurnsBackStep, C
<1> QED BY Invariance, <1>1, <1>2, PTL DEF Spec
-------------------------------------------------------------------------------
(* Why the tuning stops.                                                   *)

(* A field that was to move and did not: it is at its end in that          *)
(* direction, or the change was small.                                     *)
LEMMA MovedLittle ==
    ASSUME NEW value \in Int, NEW lo \in Nat \ {0}, NEW hi \in Int,
           lo <= value, lo # hi,
           NEW last \in Int,
           NEW factor, factor # 0,
           NEW x \in Factors \cup {Step}, factor = x \/ factor = -x,
           ~Effective(value, Moved(value, factor, last, lo, hi))
    PROVE  \/ factor < 0 /\ ~Effective(value, Smaller(lo, value))
           \/ factor > 0 /\ ~Effective(value, Larger(hi, value))
           \/ SmallChange(IF last # 0 THEN Abs(value - last) ELSE value)
<1> DEFINE base == IF last # 0 THEN Abs(value - last) ELSE value
           part == (factor * base) \div Whole
           small == (x * base) \div Whole
           new == Clamp(value + part, lo, hi)
<1>0. Whole \in Nat \ {0} /\ Unit \in Nat \ {0} /\ x \in 1..Whole
  BY ConstantsAssumption
<1>1. base \in Nat
  BY DEF Abs
<1>2. ~Effective(value, new)
  BY DEF Moved
<1>3. 10 * small < Unit => SmallChange(base)
  BY DEF SmallChange
<1> HIDE DEF base
<1>4. CASE factor = x
  <2>1. part = small /\ part \in Nat
    <3>1. small \in 0..base
      BY <1>0, <1>1, PartUp
    <3>2. part = small
      BY <1>4
    <3> HIDE DEF part, small
    <3> QED BY <1>1, <3>1, <3>2
  <2> HIDE DEF part, small
  <2>2. CASE hi <= value
    <3>1. Larger(hi, value) = value
      BY <2>2 DEF Larger
    <3>2. ~Effective(value, value)
      BY <1>0 DEF Effective, Abs
    <3>3. factor > 0
      BY <1>0, <1>4
    <3> QED BY <3>1, <3>2, <3>3
  <2>3. CASE value < hi /\ hi <= value + part
    <3>1. new = hi
      BY <2>1, <2>3 DEF Clamp, Larger, Smaller
    <3>2. Larger(hi, value) = hi
      BY <2>3 DEF Larger
    <3> HIDE DEF new
    <3> QED BY <1>0, <1>2, <1>4, <3>1, <3>2
  <2>4. CASE value + part < hi
    <3>1. new = value + part
      BY <2>1, <2>4 DEF Clamp, Larger, Smaller
    <3> HIDE DEF new
    <3>2. 10 * part < Unit
      BY <1>0, <1>2, <2>1, <3>1 DEF Effective, Abs
    <3> QED BY <1>3, <2>1, <3>2 DEF base
  <2> QED BY <2>1, <2>2, <2>3, <2>4
<1>5. CASE factor = -x
  <2>1. part \in (-base)..0
    BY <1>0, <1>1, <1>5, PartDown
  <2>2. small \in Nat /\ small <= -part
    <3>1. small \in 0..base
      BY <1>0, <1>1, PartUp
    <3>2. Whole * small <= x * base /\ x * base \in Int
      BY <1>0, <1>1, Division
    <3>3. Whole * part <= (-x) * base /\ (-x) * base = -(x * base)
      BY <1>0, <1>1, <1>5, Division
    <3> HIDE DEF part, small
    <3>4. Whole * part <= Whole * (-small)
      BY <1>0, <1>1, <2>1, <3>1, <3>2, <3>3
    <3>5. part <= -small
      <4>1. -small \in Int /\ part \in Int
        BY <1>1, <2>1, <3>1
      <4>2. Whole * part < Whole * (-small) + Whole
        BY <1>0, <3>4, <4>1
      <4> QED BY <1>0, <4>1, <4>2, Products
    <3> QED BY <1>1, <2>1, <3>1, <3>5
  <2> HIDE DEF part, small
  <2>3. part \in Int /\ part <= 0
    BY <1>1, <2>1
  <2>4. CASE value + part <= lo
    <3>1. new = lo \/ hi < value + part
      BY <2>3, <2>4 DEF Clamp, Larger, Smaller
    <3>2. new = lo
      BY <2>3, <2>4, <3>1 DEF Clamp, Larger, Smaller
    <3>3. Smaller(lo, value) = lo
      BY DEF Smaller
    <3> HIDE DEF new
    <3> QED BY <1>0, <1>2, <1>5, <3>2, <3>3
  <2>5. CASE lo < value + part /\ hi <= lo
    <3>1. new = lo
      BY <2>3, <2>5 DEF Clamp, Larger, Smaller
    <3>2. Smaller(lo, value) = lo
      BY DEF Smaller
    <3> HIDE DEF new
    <3> QED BY <1>0, <1>2, <1>5, <3>1, <3>2
  <2>6. CASE lo < value + part /\ lo < hi
    <3>1. new \in Int /\ new <= value + part
      BY <2>3, <2>6 DEF Clamp, Larger, Smaller
    <3> HIDE DEF new
    <3>2. 10 * small < Unit
      BY <1>0, <1>2, <2>2, <2>3, <3>1 DEF Effective, Abs
    <3> QED BY <1>3, <3>2 DEF base
  <2> QED BY <2>3, <2>4, <2>5, <2>6
<1> QED BY <1>4, <1>5

(* What is tuned by has been measured.                                     *)
Measured == pc = "tune" => res \in Results

(* Neither field has moved enough when the tuning stops.                   *)
LEMMA StopStep ==
    ASSUME IInv, Measured, FineTuneWithConcurrencyAndRequestRate, pc' = "stopped"
    PROVE  StopExplained'
<1> DEFINE values(f) == Append(last_value[f], Run[f])
<1>0. C \in Fields /\ R \in Fields /\ C # R /\ Fields = {C, R}
  BY DEF C, R, Fields
<1>1. /\ pc = "tune"
      /\ last_value' = [f \in Fields |-> values(f)]
  BY DEF FineTuneWithConcurrencyAndRequestRate
<1>2. PICK fc \in ConcurrencyFactors, fr \in RequestRateFactors :
        LET signsC == Noted(last_signed_factor[C], fc)
            signsR == Noted(last_signed_factor[R], fr)
        IN /\ ~Effective(Run[C], HandleConcurrency(fc, signsC, values(C)))
           /\ ~Effective(Run[R], HandleRequestRate(fr, signsR, values(R), Run[C]))
           /\ last_signed_factor' = [f \in Fields |-> IF f = C THEN signsC ELSE signsR]
           /\ UNCHANGED <<params, res>>
  BY DEF FineTuneWithConcurrencyAndRequestRate, Choose, C, R
<1> DEFINE signsC == Noted(last_signed_factor[C], fc)
           signsR == Noted(last_signed_factor[R], fr)
<1>3. /\ Run' = Run /\ res' = res
      /\ last_signed_factor'[C] = signsC /\ last_signed_factor'[R] = signsR
      /\ last_value'[C] = values(C) /\ last_value'[R] = values(R)
  BY <1>0, <1>1, <1>2 DEF Run
<1>4. \A f \in Fields : /\ last_value[f] \in Seq(Int) /\ Run[f] \in Low(f)..High(f)
                        /\ last_signed_factor[f] \in Seq({-1, 1})
                        /\ Low(f) \in Nat \ {0} /\ High(f) \in Nat
                        /\ Len(last_signed_factor[f]) <= Len(last_value[f])
                        /\ Low(f)' = Low(f) /\ High(f)' = High(f)
  BY RunInRange, LimitsAreWhole DEF IInv, TypeOK, ValuesForSigns, Low, High
<1>5. ASSUME NEW f \in Fields, NEW factor, Factor(factor), factor # 0,
             Turns(Noted(last_signed_factor[f], factor))
      PROVE  Previous(values(f)) \in Nat \ {0}
  <2>1. /\ last_signed_factor[f] \in Seq({-1, 1}) /\ last_value[f] \in Seq(Int)
        /\ Run[f] \in Int /\ Len(last_signed_factor[f]) <= Len(last_value[f])
        /\ Low(f) \in Nat \ {0} /\ High(f) \in Nat
    BY <1>4
  <2>2. Len(Noted(last_signed_factor[f], factor)) = Len(last_signed_factor[f]) + 1
    BY <1>5, <2>1, NotedSigns
  <2>3. Len(last_value[f]) > 0
    BY <1>5, <2>1, <2>2 DEF Turns
  <2>4. Previous(values(f)) = Latest(last_value[f])
    BY <2>1, <2>3, Remembered
  <2>5. Latest(last_value[f]) \in Low(f)..High(f)
    BY <2>1, <2>3 DEF IInv, HistoryInRange, Latest
  <2> QED BY <2>1, <2>4, <2>5
<1>6. \A f \in Fields : Latest(values(f)) = Run[f] /\ Run[f] \in Int
  BY <1>4, Remembered
<1>7. (\A x \in ConcurrencyFactors : Factor(x)) /\ (\A x \in RequestRateFactors : Factor(x))
  BY FactorsInRange
<1>8. res.tpot \in Sides /\ res.ttft \in Sides
  BY <1>1 DEF Measured, Results
<1>9. Done(C, res.tpot, High(C))'
  <2> DEFINE last == IF /\ fc # 0
                        /\ Turns(signsC)
                        /\ Previous(values(C)) # Latest(values(C))
                     THEN Previous(values(C)) ELSE 0
  <2>1. ~Effective(Run[C], Moved(Run[C], fc, last, Low(C), High(C)))
    BY <1>0, <1>2, <1>6 DEF HandleConcurrency, C
  <2>2. last \in Int /\ (last # 0 => last = Previous(values(C)))
        /\ (fc # 0 => (last # 0 <=> Turns(signsC) /\ Previous(values(C)) # Latest(values(C))))
    BY <1>0, <1>5, <1>7
  <2> HIDE DEF last, signsC, values
  <2>3. CASE res.tpot = "within"
    BY <1>3, <2>3 DEF Done
  <2>4. CASE res.tpot # "within"
    <3>1. PICK x \in Factors : /\ res.tpot = "over" => fc = -x
                               /\ res.tpot = "under" => fc = x
      BY <1>2, <1>8, <2>4 DEF ConcurrencyFactors, Sides
    <3>2. fc # 0 /\ x \in Nat \ {0} /\ (fc = x \/ fc = -x)
      BY <1>8, <2>4, <3>1, ConstantsAssumption DEF Sides
    <3>3. CASE Low(C) = High(C)
      BY <1>0, <1>4, <3>3 DEF Done
    <3>4. CASE Low(C) # High(C)
      <4>1. \/ fc < 0 /\ ~Effective(Run[C], Smaller(Low(C), Run[C]))
            \/ fc > 0 /\ ~Effective(Run[C], Larger(High(C), Run[C]))
            \/ SmallChange(IF last # 0 THEN Abs(Run[C] - last) ELSE Run[C])
        <5> DEFINE value == Run[C]  lo == Low(C)  hi == High(C)
        <5>1. /\ value \in Int /\ lo \in Nat \ {0} /\ hi \in Int
              /\ lo <= value /\ lo # hi
          BY <1>0, <1>4, <1>6, <3>4
        <5>2. /\ last \in Int /\ fc # 0 /\ x \in Factors \cup {Step}
              /\ fc = x \/ fc = -x
              /\ ~Effective(value, Moved(value, fc, last, lo, hi))
          BY <2>1, <2>2, <3>1, <3>2
        <5> HIDE DEF value, lo, hi
        <5>3. \/ fc < 0 /\ ~Effective(value, Smaller(lo, value))
              \/ fc > 0 /\ ~Effective(value, Larger(hi, value))
              \/ SmallChange(IF last # 0 THEN Abs(value - last) ELSE value)
          BY <5>1, <5>2, MovedLittle
        <5> QED BY <5>3 DEF value, lo, hi
      <4>2. /\ fc < 0 => res.tpot = "over"
            /\ fc > 0 => res.tpot = "under"
        BY <1>8, <2>4, <3>1, <3>2 DEF Sides
      <4>3. CASE res.tpot = "over" /\ ~Effective(Run[C], Smaller(Low(C), Run[C]))
        BY <1>0, <1>3, <1>4, <4>3 DEF Done
      <4>4. CASE res.tpot = "under" /\ ~Effective(Run[C], Larger(High(C), Run[C]))
        BY <1>0, <1>3, <1>4, <4>4 DEF Done
      <4>5. CASE SmallChange(IF last # 0 THEN Abs(Run[C] - last) ELSE Run[C])
        <5>1. \/ /\ Turns(signsC) /\ Previous(values(C)) # Latest(values(C))
                 /\ SmallChange(Abs(Latest(values(C)) - Previous(values(C))))
              \/ /\ ~(Turns(signsC) /\ Previous(values(C)) # Latest(values(C)))
                 /\ SmallChange(Run[C])
          BY <1>0, <1>6, <2>2, <3>2, <4>5
        <5> QED BY <1>3, <5>1 DEF Done, SmallChange
      <4> QED BY <4>1, <4>2, <4>3, <4>4, <4>5
    <3> QED BY <3>3, <3>4
  <2> QED BY <2>3, <2>4
<1>10. \/ Done(R, res.ttft, RateLimit(Run[C]))'
       \/ Turns(signsR) /\ Previous(values(R)) = Latest(values(R))
  <2> DEFINE last == IF fr # 0 /\ Turns(signsR) THEN Previous(values(R)) ELSE 0
             hi == RateLimit(Run[C])
  <2>1. ~Effective(Run[R], Moved(Run[R], fr, last, Low(R), hi))
    BY <1>0, <1>2, <1>6 DEF HandleRequestRate, R
  <2>2. last \in Int /\ (last # 0 => last = Previous(values(R)))
        /\ (fr # 0 => (last # 0 <=> Turns(signsR)))
    BY <1>0, <1>5, <1>7
  <2>3. hi \in Int /\ RateLimit(Run[C])' = hi
    BY <1>0, <1>3, <1>4, <1>6 DEF RateLimit, Smaller, R
  <2> HIDE DEF last, signsR, values, hi
  <2>4. CASE res.ttft = "within"
    BY <1>3, <2>4 DEF Done
  <2>5. CASE res.ttft # "within"
    <3>1. PICK x \in Factors \cup {Step} : /\ res.ttft = "over" => fr = -x
                                           /\ res.ttft = "under" => fr = x
      BY <1>2, <1>8, <2>5 DEF RequestRateFactors, Sides
    <3>2. fr # 0 /\ x \in Nat \ {0} /\ (fr = x \/ fr = -x)
      BY <1>8, <2>5, <3>1, ConstantsAssumption DEF Sides
    <3>3. CASE Low(R) = hi
      BY <1>0, <1>4, <2>3, <3>3 DEF Done
    <3>4. CASE Low(R) # hi
      <4>1. \/ fr < 0 /\ ~Effective(Run[R], Smaller(Low(R), Run[R]))
            \/ fr > 0 /\ ~Effective(Run[R], Larger(hi, Run[R]))
            \/ SmallChange(IF last # 0 THEN Abs(Run[R] - last) ELSE Run[R])
        <5> DEFINE value == Run[R]  lo == Low(R)
        <5>1. /\ value \in Int /\ lo \in Nat \ {0} /\ hi \in Int
              /\ lo <= value /\ lo # hi
          BY <1>0, <1>4, <1>6, <2>3, <3>4
        <5>2. /\ last \in Int /\ fr # 0 /\ x \in Factors \cup {Step}
              /\ fr = x \/ fr = -x
              /\ ~Effective(value, Moved(value, fr, last, lo, hi))
          BY <2>1, <2>2, <3>1, <3>2
        <5> HIDE DEF value, lo
        <5>3. \/ fr < 0 /\ ~Effective(value, Smaller(lo, value))
              \/ fr > 0 /\ ~Effective(value, Larger(hi, value))
              \/ SmallChange(IF last # 0 THEN Abs(value - last) ELSE value)
          BY <5>1, <5>2, MovedLittle
        <5> QED BY <5>3 DEF value, lo
      <4>2. /\ fr < 0 => res.ttft = "over"
            /\ fr > 0 => res.ttft = "under"
        BY <1>8, <2>5, <3>1, <3>2 DEF Sides
      <4>3. CASE res.ttft = "over" /\ ~Effective(Run[R], Smaller(Low(R), Run[R]))
        BY <1>0, <1>3, <1>4, <4>3 DEF Done
      <4>4. CASE res.ttft = "under" /\ ~Effective(Run[R], Larger(hi, Run[R]))
        BY <1>0, <1>3, <1>4, <2>3, <4>4 DEF Done
      <4>5. CASE SmallChange(IF last # 0 THEN Abs(Run[R] - last) ELSE Run[R])
        <5>1. \/ Turns(signsR) /\ Previous(values(R)) = Latest(values(R))
              \/ /\ Turns(signsR) /\ Previous(values(R)) # Latest(values(R))
                 /\ SmallChange(Abs(Latest(values(R)) - Previous(values(R))))
              \/ ~Turns(signsR) /\ SmallChange(Run[R])
          BY <1>0, <1>6, <2>2, <3>2, <4>5
        <5> QED BY <1>3, <5>1 DEF Done, SmallChange
      <4> QED BY <4>1, <4>2, <4>3, <4>4, <4>5
    <3> QED BY <3>3, <3>4
  <2> QED BY <2>4, <2>5
<1> QED BY <1>3, <1>9, <1>10 DEF StopExplained, ConcurrencyDone, RequestRateDone, C, R

StopInv == Measured /\ StopExplained

LEMMA StopInvStep ==
    ASSUME IInv, StopInv, [Next]_vars
    PROVE  StopInv'
<1>1. CASE NextCandidate \/ EvaluationFails \/ Evaluated \/ GivesUp
  BY <1>1 DEF NextCandidate, EvaluationFails, Evaluated, GivesUp, StopInv, Measured, StopExplained
<1>2. CASE FineTuneWithConcurrencyAndRequestRate
  <2>1. pc' \in {"next", "again", "stopped"}
    BY <1>2 DEF FineTuneWithConcurrencyAndRequestRate, Choose
  <2> QED BY <1>2, <2>1, StopStep DEF StopInv, Measured, StopExplained
<1>3. CASE UNCHANGED vars
  BY <1>3 DEF vars, history, StopInv, Measured, StopExplained, ConcurrencyDone, RequestRateDone,
     Done, Run, Low, High, RateLimit
<1> QED BY <1>1, <1>2, <1>3 DEF Next

(* When the tuning stops, the concurrency is done: it is within its        *)
(* interval, at its end or a change would be small; and so is the request  *)
(* rate, unless it was to turn back to the value it has.                   *)
THEOREM StopTheorem == Spec => []StopExplained
<1>1. Init => StopInv
  BY DEF Init, StopInv, Measured, StopExplained
<1>2. StopInv => StopExplained
  BY DEF StopInv
<1> QED BY <1>1, <1>2, Invariance, StopInvStep, PTL DEF Spec
===============================================================================
