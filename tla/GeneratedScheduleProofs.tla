----------------------- MODULE GeneratedScheduleProofs -----------------------
(***************************************************************************)
(* Theorems on the layer-wise runner, for every number of layers and every *)
(* pipeline of processors.                                                 *)
(***************************************************************************)
EXTENDS GeneratedSchedule, TLAPS

(* The units go through the layers side by side: those that had their turn *)
(* are one layer ahead; all are exhausted in the same round.               *)
SideBySide ==
    /\ ended = {} =>
         \A u \in Units :
            at[u] = at[Offloader] + (IF u < turn /\ turn <= Offloader THEN 1 ELSE 0)
    /\ ended # {} => ended = 0..turn - 1 /\ \A u \in Units : at[u] = Layers

InTheList ==
    /\ phase # "done" => unitList = Units
    /\ phase = "done" => turn = 0 /\ ended = {} /\ \A u \in Units : at[u] = Layers
    /\ phase = "start" => turn = 0 /\ ended = {} /\ \A u \in Units : at[u] = 0

(* Where the layers are, by the units at the two ends.                     *)
Resident ==
    \A l \in Layer :
        place[l] = IF l <= at[Offloader] THEN "meta"
                   ELSE IF l <= at[Loader] THEN "npu" ELSE "cpu"

(* Who has changed a layer: the units that have been there.                *)
Been(l) == {u \in Units : at[u] >= l}

ChangedByBeen == \A l \in Layer : changed[l] = UNION {Processors(u) : u \in Been(l)}

(* What is recorded perceives the front of all units with data behind      *)
(* which it was recorded, in all layers so far, and no layer to come.      *)
InputFromFront ==
    phase = "round" /\ turn <= Offloader /\ at[Offloader] > 0 =>
        \A u \in Units : UsesData(u) => (1..at[Offloader]) \X Front(u) \subseteq input

OutputFromFront ==
    phase = "round" /\ ended = {} =>
        \A u \in Units : u < turn /\ UsesData(u) => (1..at[u]) \X Front(u) \subseteq output

OfLayersSoFar ==
    /\ \A e \in input : e[1] \in 0..at[Offloader]
    /\ \A e \in output : e[1] \in 0..at[Loader]

ForwardsSoFar ==
    \A u \in Units : UsesData(u) =>
        \A l \in 1..at[u] : \E f \in forwards : f.unit = u /\ f.layer = l

IInv ==
    /\ TypeOK /\ SideBySide /\ InTheList /\ Resident /\ ChangedByBeen
    /\ InputFromFront /\ OutputFromFront /\ OfLayersSoFar /\ ForwardsSoFar
    /\ PerceivesFront /\ SameLayerFromFront

-------------------------------------------------------------------------------
(* Units                                                                   *)

LEMMA UnitsType ==
  ASSUME TypeOK
  PROVE  /\ Offloader \in Nat \ {0} /\ Loader = 0 /\ Units = 0..Offloader
         /\ Loader \in Units /\ Offloader \in Units /\ Units \subseteq Nat
         /\ Layers \in Nat \ {0}
<1>1. Len(pipeline) \in Nat
  BY ConstantsAssumption DEF TypeOK
<1> QED
  BY <1>1, ConstantsAssumption DEF Offloader, Loader, Units

LEMMA FrontGrows ==
  ASSUME TypeOK, NEW u \in Units, NEW v \in Units, v <= u
  PROVE  /\ Front(v) \subseteq Front(u)
         /\ v < u => Processors(v) \subseteq Front(u)
  BY UnitsType DEF Front

LEMMA FrontIsUnion ==
  ASSUME NEW u, NEW p
  PROVE  p \in Front(u) <=> \E v \in Units : v < u /\ p \in Processors(v)
  BY DEF Front

(* All that depends on the pipeline only.                                  *)
LEMMA PipelineStays ==
  ASSUME pipeline' = pipeline
  PROVE  /\ Units' = Units /\ Offloader' = Offloader
         /\ \A u : UsesData(u)' <=> UsesData(u)
         /\ \A u : Processors(u)' = Processors(u) /\ Members(u)' = Members(u)
         /\ \A u : EarlyProcessors(u)' = EarlyProcessors(u)
         /\ \A u : Front(u)' = Front(u)
  BY DEF Units, Offloader, UsesData, Processors, Members, EarlyProcessors, Front

LEMMA InitIInv == Init => IInv
<1> SUFFICES ASSUME Init PROVE IInv
  OBVIOUS
<1>1. /\ pipeline \in Pipelines /\ samples \in {"none", "empty", "some"}
      /\ phase = "start" /\ unitList = Units /\ turn = 0 /\ ended = {}
      /\ at = [u \in Units |-> 0] /\ input = Nothing /\ output = Nothing
      /\ place = [l \in Layer |-> "cpu"] /\ changed = [l \in Layer |-> {}]
      /\ forwards = {}
  BY DEF Init
<1>2. Offloader \in Nat \ {0} /\ Units = 0..Offloader /\ Layers \in Nat \ {0}
  <2>1. Len(pipeline) \in Nat
    BY <1>1, ConstantsAssumption
  <2> QED
    BY <2>1, ConstantsAssumption DEF Offloader, Units, Loader
<1>3. TypeOK
  BY <1>1, <1>2 DEF TypeOK
<1>4. SideBySide /\ InTheList
  BY <1>1, <1>2 DEF SideBySide, InTheList
<1>5. Resident
  BY <1>1, <1>2 DEF Resident, Layer, Loader
<1>6. ChangedByBeen
  BY <1>1, <1>2 DEF ChangedByBeen, Been, Layer
<1>7. InputFromFront /\ OutputFromFront
  BY <1>1, <1>2 DEF InputFromFront, OutputFromFront
<1>8. OfLayersSoFar
  BY <1>1, <1>2 DEF OfLayersSoFar, Nothing, Loader
<1>9. ForwardsSoFar /\ PerceivesFront /\ SameLayerFromFront
  BY <1>1, <1>2 DEF ForwardsSoFar, PerceivesFront, SameLayerFromFront
<1> QED
  BY <1>3, <1>4, <1>5, <1>6, <1>7, <1>8, <1>9 DEF IInv

-------------------------------------------------------------------------------
(* Steps that leave what was computed as it is.                            *)
LEMMA SamePast ==
  ASSUME IInv, UNCHANGED <<pipeline, at, model, forwards>>
  PROVE  Resident' /\ ChangedByBeen' /\ ForwardsSoFar' /\ PerceivesFront' /\ SameLayerFromFront'
<1>1. UNCHANGED <<at, place, changed, forwards>>
  BY DEF model
<1>2. Resident'
  BY <1>1, PipelineStays DEF IInv, Resident, Loader
<1>3. ChangedByBeen'
  BY <1>1, PipelineStays DEF IInv, ChangedByBeen, Been
<1>4. ForwardsSoFar' /\ PerceivesFront' /\ SameLayerFromFront'
  BY <1>1, PipelineStays DEF IInv, ForwardsSoFar, PerceivesFront, SameLayerFromFront
<1> QED
  BY <1>2, <1>3, <1>4

LEMMA StartIInv == ASSUME IInv, Start PROVE IInv'
<1>1. /\ phase = "start" /\ phase' \in {"failed", "round"}
      /\ UNCHANGED <<pipeline, samples, unitList, turn, ended, at, input, output, model, forwards>>
  BY DEF Start, config
<1>2. UNCHANGED <<place, changed>>
  BY <1>1 DEF model
<1>3. TypeOK'
  BY <1>1, <1>2, PipelineStays DEF IInv, TypeOK
<1>4. turn = 0 /\ ended = {} /\ unitList = Units /\ \A u \in Units : at[u] = 0
  BY <1>1 DEF IInv, InTheList
<1>5. SideBySide' /\ InTheList' /\ OfLayersSoFar'
  BY <1>1, <1>4, PipelineStays DEF IInv, SideBySide, InTheList, OfLayersSoFar, Loader
<1>6. InputFromFront' /\ OutputFromFront'
  <2>1. at'[Offloader'] = 0 /\ turn' = 0
    BY <1>1, <1>4, UnitsType, PipelineStays DEF IInv
  <2>2. \A u \in Units' : ~(u < 0)
    BY <1>1, UnitsType, PipelineStays DEF IInv
  <2> QED
    BY <2>1, <2>2 DEF InputFromFront, OutputFromFront
<1> QED
  BY <1>1, <1>3, <1>5, <1>6, SamePast DEF IInv

LEMMA NoRequestIInv == ASSUME IInv, NEW u \in Units, NoRequest(u) PROVE IInv'
<1>1. /\ phase = "round" /\ phase' = "failed"
      /\ UNCHANGED <<pipeline, samples, unitList, turn, ended, at, input, output, model, forwards>>
  BY DEF NoRequest, Turn, config
<1>2. TypeOK'
  BY <1>1, PipelineStays DEF IInv, TypeOK, model
<1>3. SideBySide' /\ InTheList' /\ OfLayersSoFar'
  BY <1>1, PipelineStays DEF IInv, SideBySide, InTheList, OfLayersSoFar, Loader
<1>4. InputFromFront' /\ OutputFromFront'
  BY <1>1 DEF InputFromFront, OutputFromFront
<1> QED
  BY <1>1, <1>2, <1>3, <1>4, SamePast DEF IInv

(* The first unit is exhausted when all have been through the last layer.  *)
LEMMA ExhaustedIInv == ASSUME IInv, NEW u \in Units, Exhausted(u) PROVE IInv'
<1>1. /\ phase = "round" /\ turn = u /\ at[u] = Layers
      /\ ended' = ended \cup {u} /\ turn' = u + 1
      /\ UNCHANGED <<pipeline, samples, phase, unitList, at, input, output, model, forwards>>
  BY DEF Exhausted, Turn, NextTurn, config
<1>2. /\ Offloader \in Nat \ {0} /\ u \in Nat /\ u <= Offloader /\ Units = 0..Offloader
      /\ Offloader \in Units /\ Loader \in Units
  BY UnitsType DEF IInv
<1>3. at \in [Units -> 0..Layers] /\ Layers \in Nat
  BY ConstantsAssumption DEF IInv, TypeOK
<1>4. /\ \A v \in Units : at[v] = Layers
      /\ ended' = 0..u
  <2>1. CASE ended = {}
    <3>1. \A v \in Units :
            at[v] = at[Offloader] + (IF v < u THEN 1 ELSE 0)
      BY <1>1, <1>2, <2>1 DEF IInv, SideBySide
    <3>2. at[Offloader] = Layers
      BY <1>1, <1>2, <1>3, <3>1
    <3>3. u = 0
      <4>1. CASE u > 0
        <5>1. at[0] = Layers + 1
          BY <1>2, <3>1, <3>2, <4>1
        <5> QED
          BY <1>2, <1>3, <5>1
      <4> QED
        BY <1>2, <4>1
    <3> QED
      BY <1>1, <1>2, <1>3, <2>1, <3>1, <3>2, <3>3
  <2>2. CASE ended # {}
    <3>1. ended = 0..u - 1 /\ \A v \in Units : at[v] = Layers
      BY <1>1, <2>2 DEF IInv, SideBySide
    <3> QED
      BY <1>1, <1>2, <3>1
  <2> QED
    BY <2>1, <2>2
<1>5. TypeOK'
  BY <1>1, <1>2, PipelineStays DEF IInv, TypeOK, model
<1>6. SideBySide' /\ InTheList'
  <2>1. ended' # {} /\ ended' = 0..turn' - 1
    BY <1>1, <1>2, <1>4
  <2>2. SideBySide'
    BY <1>1, <1>4, <2>1, PipelineStays DEF SideBySide
  <2>3. InTheList'
    BY <1>1, PipelineStays DEF IInv, InTheList
  <2> QED
    BY <2>2, <2>3
<1>7. OfLayersSoFar' /\ InputFromFront'
  <2>1. OfLayersSoFar'
    BY <1>1, PipelineStays DEF IInv, OfLayersSoFar, Loader
  <2>2. turn' <= Offloader => turn <= Offloader
    BY <1>1, <1>2
  <2>3. InputFromFront'
    BY <1>1, <2>2, PipelineStays DEF IInv, InputFromFront
  <2> QED
    BY <2>1, <2>3
<1>8. OutputFromFront'
  BY <1>1 DEF OutputFromFront
<1> QED
  BY <1>1, <1>5, <1>6, <1>7, <1>8, SamePast DEF IInv

-------------------------------------------------------------------------------
(* What a unit finds when it goes to its next layer.                       *)
LEMMA NextLayer ==
  ASSUME IInv, NEW u \in Units, Process(u)
  PROVE  /\ phase = "round" /\ turn = u /\ ended = {}
         /\ at[u] = at[Offloader] /\ at[u] + 1 \in Layer
         /\ \A v \in Units : at[v] = IF v < u THEN at[u] + 1 ELSE at[u]
         /\ \A v \in Units : at[v] \in Nat
<1>1. phase = "round" /\ turn = u /\ at[u] < Layers
  BY DEF Process, Turn
<1>2. /\ Offloader \in Units /\ u <= Offloader /\ Units \subseteq Nat
      /\ at \in [Units -> 0..Layers] /\ Layers \in Nat
  BY UnitsType DEF IInv, TypeOK
<1>3. ended = {}
  BY <1>1, <1>2 DEF IInv, SideBySide
<1>4. \A v \in Units : at[v] = at[Offloader] + (IF v < u THEN 1 ELSE 0)
  BY <1>1, <1>2, <1>3 DEF IInv, SideBySide
<1>5. at[u] = at[Offloader]
  BY <1>2, <1>4
<1>6. \A v \in Units : at[v] = IF v < u THEN at[u] + 1 ELSE at[u]
  BY <1>2, <1>4, <1>5
<1>7. at[u] + 1 \in Layer /\ \A v \in Units : at[v] \in Nat
  BY <1>1, <1>2 DEF Layer
<1> QED
  BY <1>1, <1>3, <1>5, <1>6, <1>7

(* A forward perceives the front in its own layer, since they have changed *)
(* it, and in those before, through what the last unit with data recorded. *)
LEMMA ForwardPerceives ==
  ASSUME IInv, NEW u \in Units, Process(u), UsesData(u), NEW l, l = at[u] + 1
  PROVE  /\ (1..l) \X Front(u) \subseteq Perceives(u, l)
         /\ \A e \in Perceives(u, l) :
              e[1] = l => e[2] \in Front(u) \cup EarlyProcessors(u)
         /\ \A e \in Perceives(u, l) : e[1] \in 0..l
<1>1. /\ phase = "round" /\ turn = u /\ at[u] = at[Offloader] /\ l \in Layer
      /\ \A v \in Units : at[v] = IF v < u THEN l ELSE at[u]
      /\ at[u] \in Nat /\ l \in Nat
  BY NextLayer
<1>2. u \in Nat /\ u <= Offloader /\ Units \subseteq Nat
  BY UnitsType DEF IInv
<1>3. \A p : p \in changed[l] <=> p \in Front(u)
  <2>1. \A v \in Units : at[v] >= l <=> v < u
    BY <1>1, <1>2
  <2>2. changed[l] = UNION {Processors(v) : v \in Been(l)}
    BY <1>1 DEF IInv, ChangedByBeen
  <2> QED
    BY <2>1, <2>2, FrontIsUnion DEF Been
<1>4. ASSUME NEW m \in 1..l, NEW p \in Front(u) PROVE <<m, p>> \in Perceives(u, l)
  <2>1. CASE m = l
    BY <1>3, <1>4, <2>1 DEF Perceives
  <2>2. CASE m # l
    <3>1. at[Offloader] > 0 /\ m \in 1..at[Offloader] /\ l # 1
      BY <1>1, <2>2
    <3>2. (1..at[Offloader]) \X Front(u) \subseteq input
      BY <1>1, <1>2, <3>1 DEF IInv, InputFromFront
    <3>3. <<m, p>> \in input
      BY <1>4, <3>1, <3>2
    <3> QED
      BY <3>1, <3>3 DEF Perceives, Response
  <2> QED
    BY <2>1, <2>2
<1>5. \A e \in Response(l) : e[1] \in 0..at[u]
  BY <1>1 DEF Response, IInv, OfLayersSoFar
<1>6. ASSUME NEW e \in Perceives(u, l)
      PROVE  /\ e[1] = l => e[2] \in Front(u) \cup EarlyProcessors(u)
             /\ e[1] \in 0..l
  <2>1. CASE e \in Response(l)
    <3>1. e[1] \in 0..at[u]
      BY <1>5, <2>1
    <3> QED
      BY <1>1, <3>1
  <2>2. CASE \E p \in changed[l] \cup EarlyProcessors(u) : e = <<l, p>>
    BY <1>1, <1>3, <2>2
  <2> QED
    BY <2>1, <2>2 DEF Perceives
<1> QED
  BY <1>4, <1>6

LEMMA ProcessIInv == ASSUME IInv, NEW u \in Units, Process(u) PROVE IInv'
<1> DEFINE l == at[u] + 1
<1>1. /\ phase = "round" /\ turn = u /\ ended = {} /\ at[u] = at[Offloader] /\ l \in Layer
      /\ \A v \in Units : at[v] = IF v < u THEN l ELSE at[u]
      /\ \A v \in Units : at[v] \in Nat
  BY NextLayer
<1>2. /\ at' = [at EXCEPT ![u] = l]
      /\ output' = IF UsesData(u) THEN Perceives(u, l) ELSE output
      /\ forwards' =
           IF UsesData(u)
           THEN forwards \cup {[unit |-> u, layer |-> l, perceives |-> Perceives(u, l)]}
           ELSE forwards
      /\ changed' = [changed EXCEPT ![l] = @ \cup Processors(u)]
      /\ place' = [place EXCEPT ![l] = Placed(u, l)]
      /\ turn' = u + 1
      /\ UNCHANGED <<pipeline, samples, phase, unitList, ended, input>>
  BY DEF Process, NextTurn, Recorded, config
<1>3. /\ Offloader \in Nat \ {0} /\ Loader = 0 /\ Units = 0..Offloader
      /\ Loader \in Units /\ Offloader \in Units /\ Layers \in Nat \ {0}
      /\ at \in [Units -> 0..Layers] /\ DOMAIN changed = Layer
      /\ place \in [Layer -> {"cpu", "npu", "meta"}]
  BY UnitsType DEF IInv, TypeOK
<1>4. l \in Nat /\ l \in 1..Layers
  BY <1>1, <1>3 DEF Layer
<1>5. UsesData(u) =>
        /\ (1..l) \X Front(u) \subseteq Perceives(u, l)
        /\ \A e \in Perceives(u, l) :
             e[1] = l => e[2] \in Front(u) \cup EarlyProcessors(u)
        /\ \A e \in Perceives(u, l) : e[1] \in 0..l
  BY ForwardPerceives
<1>6. at[u] < l
  BY <1>1
<1> HIDE DEF l
<1>7. /\ at'[u] = l
      /\ \A v \in Units : v # u => at'[v] = at[v]
      /\ \A v \in Units : v <= u => at'[v] = l
  BY <1>1, <1>2, <1>3
<1>8. TypeOK'
  <2>1. at' \in [Units -> 0..Layers]
    BY <1>2, <1>3, <1>4
  <2>2. place' \in [Layer -> {"cpu", "npu", "meta"}]
    BY <1>1, <1>2, <1>3 DEF Placed
  <2>3. DOMAIN changed' = Layer
    BY <1>2, <1>3
  <2>4. turn' \in 0..Offloader + 1
    BY <1>2, <1>3
  <2> QED
    BY <1>2, <2>1, <2>2, <2>3, <2>4, PipelineStays DEF IInv, TypeOK
<1>9. SideBySide'
  <2>1. ASSUME NEW v \in Units
        PROVE  at'[v] = at'[Offloader] + (IF v < u + 1 /\ u + 1 <= Offloader THEN 1 ELSE 0)
    <3>1. CASE u = Offloader
      BY <1>3, <1>4, <1>7, <3>1
    <3>2. CASE u # Offloader
      <4>1. at'[Offloader] = at[u] /\ u + 1 <= Offloader
        BY <1>1, <1>3, <1>7, <3>2
      <4>2. CASE v <= u
        BY <1>1, <1>3, <1>4, <1>7, <4>1, <4>2 DEF l
      <4>3. CASE v > u
        BY <1>1, <1>3, <1>7, <4>1, <4>3
      <4> QED
        BY <1>3, <4>2, <4>3
    <3> QED
      BY <3>1, <3>2
  <2> QED
    BY <1>1, <1>2, <2>1, PipelineStays DEF SideBySide
<1>10. InTheList'
  BY <1>1, <1>2, PipelineStays DEF IInv, InTheList
<1>11. Resident'
  <2> SUFFICES ASSUME NEW m \in Layer
               PROVE  place'[m] = IF m <= at'[Offloader] THEN "meta"
                                  ELSE IF m <= at'[Loader] THEN "npu" ELSE "cpu"
    BY <1>2, PipelineStays DEF Resident, Loader
  <2>1. m \in Nat /\ place[m] = IF m <= at[Offloader] THEN "meta"
                                ELSE IF m <= at[Loader] THEN "npu" ELSE "cpu"
    BY <1>3 DEF IInv, Resident, Layer
  <2>2. CASE u = Loader
    <3>1. at'[Loader] = l /\ at'[Offloader] = at[u] /\ at[Loader] = at[u]
      BY <1>1, <1>3, <1>7, <2>2
    <3>2. place'[m] = IF m = l THEN "npu" ELSE place[m]
      BY <1>1, <1>2, <1>3, <2>2 DEF Placed
    <3> QED
      BY <1>1, <1>4, <2>1, <3>1, <3>2 DEF l
  <2>3. CASE u = Offloader
    <3>1. at'[Loader] = l /\ at'[Offloader] = l /\ at[Loader] = l
      BY <1>1, <1>3, <1>7, <2>3
    <3>2. place'[m] = IF m = l THEN "meta" ELSE place[m]
      BY <1>1, <1>2, <1>3, <2>3 DEF Placed
    <3> QED
      BY <1>1, <1>4, <2>1, <3>1, <3>2 DEF l
  <2>4. CASE u # Loader /\ u # Offloader
    <3>1. at'[Loader] = at[Loader] /\ at'[Offloader] = at[Offloader]
      BY <1>3, <1>7, <2>4
    <3>2. place'[m] = place[m]
      BY <1>1, <1>2, <1>3, <2>4 DEF Placed
    <3> QED
      BY <2>1, <3>1, <3>2
  <2> QED
    BY <2>2, <2>3, <2>4
<1>12. ChangedByBeen'
  <2> SUFFICES ASSUME NEW m \in Layer
               PROVE  changed'[m] = UNION {Processors(v) : v \in {w \in Units : at'[w] >= m}}
    BY <1>2, PipelineStays DEF ChangedByBeen, Been
  <2>1. m \in Nat /\ changed[m] = UNION {Processors(v) : v \in {w \in Units : at[w] >= m}}
    BY <1>3 DEF IInv, ChangedByBeen, Been, Layer
  <2>2. CASE m = l
    <3>1. \A w \in Units : at'[w] >= l <=> at[w] >= l \/ w = u
      BY <1>1, <1>4, <1>7
    <3>2. changed'[m] = changed[m] \cup Processors(u)
      BY <1>1, <1>2, <1>3, <2>2
    <3> QED
      BY <2>1, <2>2, <3>1, <3>2
  <2>3. CASE m # l
    <3>1. \A w \in Units : at'[w] >= m <=> at[w] >= m
      BY <1>1, <1>4, <1>7, <2>1, <2>3 DEF l
    <3>2. changed'[m] = changed[m]
      BY <1>2, <1>3, <2>3
    <3> QED
      BY <2>1, <3>1, <3>2
  <2> QED
    BY <2>2, <2>3
<1>13. InputFromFront'
  <2>1. CASE u = Offloader
    BY <1>2, <1>3, <2>1, PipelineStays DEF InputFromFront
  <2>2. CASE u # Offloader
    <3>1. at'[Offloader] = at[Offloader] /\ turn <= Offloader
      BY <1>1, <1>3, <1>7, <2>2
    <3> QED
      BY <1>2, <3>1, PipelineStays DEF IInv, InputFromFront
  <2> QED
    BY <2>1, <2>2
<1>14. OutputFromFront'
  <2> SUFFICES ASSUME NEW v \in Units, v < u + 1, UsesData(v)
               PROVE  (1..l) \X Front(v) \subseteq output'
    <3>1. \A v \in Units : v < u + 1 => at'[v] = l
      BY <1>3, <1>7
    <3> QED
      BY <1>2, <3>1, PipelineStays DEF OutputFromFront
  <2>1. v <= u
    BY <1>3
  <2>2. CASE UsesData(u)
    <3>1. Front(v) \subseteq Front(u)
      BY <2>1, FrontGrows DEF IInv
    <3>2. (1..l) \X Front(v) \subseteq (1..l) \X Front(u)
      BY <3>1
    <3> QED
      BY <1>2, <1>5, <2>2, <3>2
  <2>3. CASE ~UsesData(u)
    <3>1. v < u
      BY <1>3, <2>1, <2>3
    <3>2. at[v] = l
      BY <1>1, <3>1
    <3>3. (1..l) \X Front(v) \subseteq output
      BY <1>1, <3>1, <3>2 DEF IInv, OutputFromFront
    <3> QED
      BY <1>2, <2>3, <3>3
  <2> QED
    BY <2>2, <2>3
<1>15. OfLayersSoFar'
  <2>1. at[Offloader] <= at'[Offloader] /\ at[Loader] <= at'[Loader] /\ at'[Loader] = l
    BY <1>1, <1>3, <1>4, <1>6, <1>7
  <2>2. /\ at[Offloader] \in Nat /\ at'[Offloader] \in Nat
        /\ at[Loader] \in Nat
    BY <1>1, <1>3, <1>4, <1>7
  <2>3. \A e \in input' : e[1] \in 0..at'[Offloader]
    <3> SUFFICES ASSUME NEW e \in input PROVE e[1] \in 0..at'[Offloader]
      BY <1>2
    <3>1. e[1] \in 0..at[Offloader]
      BY DEF IInv, OfLayersSoFar
    <3> QED
      BY <2>1, <2>2, <3>1
  <2>4. \A e \in output' : e[1] \in 0..at'[Loader]
    <3>1. CASE UsesData(u)
      BY <1>2, <1>5, <2>1, <3>1
    <3>2. CASE ~UsesData(u)
      <4> SUFFICES ASSUME NEW e \in output PROVE e[1] \in 0..at'[Loader]
        BY <1>2, <3>2
      <4>1. e[1] \in 0..at[Loader]
        BY DEF IInv, OfLayersSoFar
      <4> QED
        BY <1>4, <2>1, <2>2, <4>1
    <3> QED
      BY <3>1, <3>2
  <2> QED
    BY <1>2, <2>3, <2>4, PipelineStays DEF OfLayersSoFar, Loader
<1>16. ForwardsSoFar'
  <2> SUFFICES ASSUME NEW v \in Units, UsesData(v), NEW m \in 1..at'[v]
               PROVE  \E f \in forwards' : f.unit = v /\ f.layer = m
    BY <1>2, PipelineStays DEF ForwardsSoFar
  <2>1. forwards \subseteq forwards'
    BY <1>2
  <2>2. CASE v = u /\ m = l
    <3>1. [unit |-> u, layer |-> l, perceives |-> Perceives(u, l)] \in forwards'
      BY <1>2, <2>2
    <3> QED
      BY <2>2, <3>1
  <2>3. CASE ~(v = u /\ m = l)
    <3>1. m \in 1..at[v]
      BY <1>1, <1>4, <1>7, <2>3 DEF l
    <3> QED
      BY <2>1, <3>1 DEF IInv, ForwardsSoFar
  <2> QED
    BY <2>2, <2>3
<1>17. PerceivesFront' /\ SameLayerFromFront'
  <2> SUFFICES ASSUME NEW f \in forwards'
               PROVE  /\ (1..f.layer) \X Front(f.unit) \subseteq f.perceives
                      /\ \A e \in f.perceives :
                           e[1] = f.layer => e[2] \in Front(f.unit) \cup EarlyProcessors(f.unit)
    BY <1>2, PipelineStays DEF PerceivesFront, SameLayerFromFront
  <2>1. CASE f \in forwards
    BY <2>1 DEF IInv, PerceivesFront, SameLayerFromFront
  <2>2. CASE f \notin forwards
    <3>1. UsesData(u) /\ f = [unit |-> u, layer |-> l, perceives |-> Perceives(u, l)]
      BY <1>2, <2>2
    <3>2. f.unit = u /\ f.layer = l /\ f.perceives = Perceives(u, l)
      BY <3>1
    <3> QED
      BY <1>5, <3>1, <3>2
  <2> QED
    BY <2>1, <2>2
<1> QED
  BY <1>8, <1>9, <1>10, <1>11, <1>12, <1>13, <1>14, <1>15, <1>16, <1>17 DEF IInv

-------------------------------------------------------------------------------
(* Between rounds: what was recorded goes to all generators.               *)
LEMMA EndRoundIInv == ASSUME IInv, EndRound PROVE IInv'
<1>1. /\ phase = "round" /\ turn = Offloader + 1
      /\ unitList' = unitList \ ended /\ ended' = {}
      /\ phase' = IF unitList' = {} THEN "done" ELSE "round"
      /\ turn' = 0 /\ input' = output /\ output' = Nothing
      /\ UNCHANGED <<pipeline, samples, at, model, forwards>>
  BY DEF EndRound, Remaining, config
<1>2. /\ Offloader \in Nat \ {0} /\ Loader = 0 /\ Units = 0..Offloader
      /\ Loader \in Units /\ Offloader \in Units /\ Layers \in Nat \ {0}
      /\ at \in [Units -> 0..Layers]
  BY UnitsType DEF IInv, TypeOK
<1>3. /\ unitList = Units
      /\ \/ ended = {} /\ unitList' = Units /\ phase' = "round"
         \/ /\ ended = Units /\ unitList' = {} /\ phase' = "done"
            /\ \A u \in Units : at[u] = Layers
      /\ \A u \in Units : at[u] = at[Offloader]
  <2>1. unitList = Units
    BY <1>1 DEF IInv, InTheList
  <2>2. CASE ended = {}
    <3>1. \A u \in Units :
            at[u] = at[Offloader] + (IF u < turn /\ turn <= Offloader THEN 1 ELSE 0)
      BY <2>2 DEF IInv, SideBySide
    <3> QED
      BY <1>1, <1>2, <2>1, <2>2, <3>1
  <2>3. CASE ended # {}
    <3>1. ended = 0..turn - 1 /\ \A u \in Units : at[u] = Layers
      BY <2>3 DEF IInv, SideBySide
    <3>2. ended = Units
      BY <1>1, <1>2, <3>1
    <3> QED
      BY <1>1, <1>2, <2>1, <3>1, <3>2
  <2> QED
    BY <2>2, <2>3
<1>4. TypeOK'
  BY <1>1, <1>2, <1>3, PipelineStays DEF IInv, TypeOK, model
<1>5. SideBySide'
  <2>1. \A u \in Units : ~(u < 0) /\ at[u] \in Nat
    BY <1>2
  <2> QED
    BY <1>1, <1>2, <1>3, <2>1, PipelineStays DEF SideBySide
<1>6. InTheList'
  BY <1>1, <1>3, PipelineStays DEF InTheList
<1>7. InputFromFront'
  <2> SUFFICES ASSUME phase' = "round", NEW u \in Units, UsesData(u)
               PROVE  (1..at[Offloader]) \X Front(u) \subseteq output
    BY <1>1, PipelineStays DEF InputFromFront
  <2>1. ended = {} /\ u < turn /\ at[u] = at[Offloader]
    BY <1>1, <1>2, <1>3
  <2>2. (1..at[u]) \X Front(u) \subseteq output
    BY <1>1, <2>1 DEF IInv, OutputFromFront
  <2> QED
    BY <2>1, <2>2
<1>8. OutputFromFront'
  <2>1. \A u \in Units' : ~(u < turn')
    BY <1>1, <1>2, PipelineStays
  <2> QED
    BY <2>1 DEF OutputFromFront
<1>9. OfLayersSoFar'
  <2>1. at[Loader] = at[Offloader] /\ at[Loader] \in Nat
    BY <1>2, <1>3
  <2>2. \A e \in output : e[1] \in 0..at[Loader]
    BY DEF IInv, OfLayersSoFar
  <2>3. \A e \in Nothing : e[1] = 0
    BY DEF Nothing
  <2> QED
    BY <1>1, <2>1, <2>2, <2>3, PipelineStays DEF OfLayersSoFar, Loader
<1> QED
  BY <1>1, <1>4, <1>5, <1>6, <1>7, <1>8, <1>9, SamePast DEF IInv

LEMMA NextIInv == ASSUME IInv, [Next]_vars PROVE IInv'
<1>1. CASE Start
  BY <1>1, StartIInv
<1>2. ASSUME NEW u \in Units, NoRequest(u) \/ Exhausted(u) \/ Process(u) PROVE IInv'
  BY <1>2, NoRequestIInv, ExhaustedIInv, ProcessIInv
<1>3. CASE EndRound
  BY <1>3, EndRoundIInv
<1>4. CASE UNCHANGED vars
  <2>1. UNCHANGED <<pipeline, samples, phase, unitList, turn, ended, at, input, output, model,
                    forwards>>
    BY <1>4 DEF vars, config
  <2>2. TypeOK'
    BY <2>1, PipelineStays DEF IInv, TypeOK, model
  <2>3. SideBySide' /\ InTheList' /\ OfLayersSoFar'
    BY <2>1, PipelineStays DEF IInv, SideBySide, InTheList, OfLayersSoFar, Loader
  <2>4. InputFromFront' /\ OutputFromFront'
    BY <2>1, PipelineStays DEF IInv, InputFromFront, OutputFromFront
  <2> QED
    BY <2>1, <2>2, <2>3, <2>4, SamePast DEF IInv
<1> QED
  BY <1>1, <1>2, <1>3, <1>4 DEF Next

(* The inductive invariant holds in every reachable state.                 *)
THEOREM Invariance == Spec => []IInv
  BY InitIInv, NextIInv, PTL DEF Spec

(* Types: the turn never runs past the end of a round.                     *)
THEOREM TypeCorrect == Spec => []TypeOK
<1>1. IInv => TypeOK
  BY DEF IInv
<1> QED
  BY <1>1, Invariance, PTL

(* However many layers the model has, one is on the device, and it is      *)
(* there for every unit whose turn it is.                                  *)
THEOREM OneLayerOnTheDevice == Spec => []OneLayerAtATime
<1>1. IInv => OneLayerAtATime
  <2> SUFFICES ASSUME IInv PROVE OneLayerAtATime
    OBVIOUS
  <2>1. /\ Offloader \in Nat \ {0} /\ Loader = 0 /\ Units = 0..Offloader
        /\ Loader \in Units /\ Offloader \in Units /\ Layers \in Nat \ {0}
        /\ at \in [Units -> 0..Layers] /\ turn \in 0..Offloader + 1
    BY UnitsType DEF IInv, TypeOK
  <2>2. at[Loader] <= at[Offloader] + 1
    <3>1. CASE ended = {}
      BY <2>1, <3>1 DEF IInv, SideBySide
    <3>2. CASE ended # {}
      BY <2>1, <3>2 DEF IInv, SideBySide
    <3> QED
      BY <3>1, <3>2
  <2>3. ASSUME NEW l \in Layer, NEW m \in Layer, place[l] = "npu", place[m] = "npu"
        PROVE  l = m
    <3>1. /\ l > at[Offloader] /\ l <= at[Loader] /\ m > at[Offloader] /\ m <= at[Loader]
          /\ l \in Nat /\ m \in Nat
      BY <2>1, <2>3 DEF IInv, Resident, Layer
    <3> QED
      BY <2>1, <2>2, <3>1
  <2>4. ASSUME phase = "round", turn \in unitList \ {Loader}, at[turn] < Layers
        PROVE  place[at[turn] + 1] = "npu"
    <3>1. turn \in Units /\ turn > 0 /\ turn <= Offloader
      BY <2>1, <2>4 DEF IInv, InTheList
    <3>2. ended = {}
      BY <2>1, <2>4, <3>1 DEF IInv, SideBySide
    <3>3. at[turn] = at[Offloader] /\ at[Loader] = at[Offloader] + 1
      BY <2>1, <3>1, <3>2 DEF IInv, SideBySide
    <3>4. at[turn] + 1 \in Layer
      BY <2>1, <2>4, <3>1 DEF Layer
    <3> QED
      BY <2>1, <3>3, <3>4 DEF IInv, Resident
  <2> QED
    BY <2>3, <2>4 DEF OneLayerAtATime
<1> QED
  BY <1>1, Invariance, PTL

(* Every forward of every unit perceives the processors in front, in the   *)
(* layer and in all those before it.                                       *)
THEOREM FrontIsPerceived == Spec => []PerceivesFront
<1>1. IInv => PerceivesFront
  BY DEF IInv
<1> QED
  BY <1>1, Invariance, PTL

(* In its own layer a unit perceives no processor behind it.               *)
THEOREM OwnLayerFromFront == Spec => []SameLayerFromFront
<1>1. IInv => SameLayerFromFront
  BY DEF IInv
<1> QED
  BY <1>1, Invariance, PTL

(* A schedule that ends has taken every processor through every layer.     *)
THEOREM LayersAreProcessed == Spec => []AllLayersProcessed
<1>1. IInv => AllLayersProcessed
  <2> SUFFICES ASSUME IInv, phase = "done" PROVE AllLayersProcessed
    BY DEF AllLayersProcessed
  <2>1. \A u \in Units : at[u] = Layers
    BY DEF IInv, InTheList
  <2>2. Layers \in Nat /\ \A l \in Layer : l \in 1..Layers /\ Layers >= l
    BY ConstantsAssumption DEF Layer
  <2>3. \A l \in Layer : changed[l] = UNION {Processors(u) : u \in Units}
    <3> SUFFICES ASSUME NEW l \in Layer
                 PROVE  changed[l] = UNION {Processors(u) : u \in Units}
      OBVIOUS
    <3>1. Been(l) = Units
      BY <2>1, <2>2 DEF Been
    <3> QED
      BY <3>1 DEF IInv, ChangedByBeen
  <2>4. ASSUME NEW u \in Units, NEW l \in Layer, NEW i \in Members(u), pipeline[u][i].data
        PROVE  \E f \in forwards : f.unit = u /\ f.layer = l
    <3>1. UsesData(u)
      BY <2>4 DEF UsesData
    <3> QED
      BY <2>1, <2>2, <3>1 DEF IInv, ForwardsSoFar
  <2> QED
    BY <2>3, <2>4 DEF AllLayersProcessed
<1> QED
  BY <1>1, Invariance, PTL

-------------------------------------------------------------------------------
(* The part of ScheduleEnds that no fairness is needed for.                *)

(* The rounds that have ended: that of the last unit has not when the unit *)
(* has had its turn.                                                       *)
Rounds == at[Offloader] - (IF turn > Offloader /\ ended = {} THEN 1 ELSE 0)

Further ==
    \/ phase = "start" /\ phase' \in {"round", "failed"}
    \/ phase = "round" /\ phase' \in {"done", "failed"}
    \/ /\ phase = "round" /\ phase' = "round"
       /\ \/ Rounds' = Rounds /\ turn' = turn + 1
          \/ Rounds' = Rounds + 1

GoesForward == [][Further]_vars

(* The unit whose turn it is can take it, or the round can end.            *)
SomeTurn ==
    phase = "round" => turn = Offloader + 1 \/ (turn \in Units /\ Turn(turn))

LEMMA NextIsFurther == ASSUME IInv, Next PROVE Further
<1>1. Offloader \in Nat /\ Offloader \in Units /\ Units = 0..Offloader /\ Layers \in Nat
  BY UnitsType DEF IInv
<1>2. turn \in 0..Offloader + 1 /\ at \in [Units -> 0..Layers]
  BY DEF IInv, TypeOK
<1>3. CASE Start
  BY <1>3 DEF Start, Further
<1>4. ASSUME NEW u \in Units, NoRequest(u) PROVE Further
  BY <1>4 DEF NoRequest, Turn, Further
<1>5. ASSUME NEW u \in Units, Exhausted(u) PROVE Further
  <2>1. /\ phase = "round" /\ phase' = "round" /\ turn = u /\ turn' = u + 1
        /\ ended' = ended \cup {u} /\ at' = at /\ Offloader' = Offloader
    BY <1>5, PipelineStays DEF Exhausted, Turn, NextTurn, config
  <2>2. Rounds = at[Offloader] /\ Rounds' = at[Offloader]
    BY <1>1, <1>2, <2>1 DEF Rounds
  <2> QED
    BY <2>1, <2>2 DEF Further
<1>6. ASSUME NEW u \in Units, Process(u) PROVE Further
  <2>1. /\ phase = "round" /\ phase' = "round" /\ turn = u /\ turn' = u + 1 /\ at[u] < Layers
        /\ ended' = ended /\ at' = [at EXCEPT ![u] = at[u] + 1] /\ Offloader' = Offloader
    BY <1>6, PipelineStays DEF Process, Turn, NextTurn, config
  <2>2. ended = {}
    BY <1>1, <2>1 DEF IInv, SideBySide
  <2>3. Rounds = at[Offloader]
    BY <1>1, <1>2, <2>1 DEF Rounds
  <2>4. at[Offloader] \in Nat
    BY <1>1, <1>2
  <2>5. Rounds' = at[Offloader]
    <3>1. CASE u = Offloader
      <4>1. at'[Offloader] = at[Offloader] + 1 /\ turn' > Offloader
        BY <1>1, <1>2, <2>1, <3>1
      <4> QED
        BY <2>1, <2>2, <2>4, <4>1 DEF Rounds
    <3>2. CASE u # Offloader
      <4>1. at'[Offloader] = at[Offloader] /\ ~(turn' > Offloader)
        BY <1>1, <1>2, <2>1, <3>2
      <4> QED
        BY <2>1, <2>4, <4>1 DEF Rounds
    <3> QED
      BY <3>1, <3>2
  <2> QED
    BY <2>1, <2>3, <2>5 DEF Further
<1>7. CASE EndRound
  <2>1. /\ phase = "round" /\ turn = Offloader + 1 /\ turn' = 0 /\ ended' = {}
        /\ unitList' = unitList \ ended /\ phase' = IF unitList' = {} THEN "done" ELSE "round"
        /\ at' = at /\ Offloader' = Offloader
    BY <1>7, PipelineStays DEF EndRound, Remaining, config
  <2>2. CASE ended = {}
    <3>1. unitList' # {}
      BY <1>1, <2>1, <2>2 DEF IInv, InTheList
    <3>2. Rounds = at[Offloader] - 1 /\ Rounds' = at[Offloader] - 0
      BY <1>1, <2>1, <2>2 DEF Rounds
    <3>3. at[Offloader] \in Nat
      BY <1>1, <1>2
    <3>4. Rounds' = Rounds + 1
      BY <3>2, <3>3
    <3> QED
      BY <2>1, <3>1, <3>4 DEF Further
  <2>3. CASE ended # {}
    <3>1. unitList = Units /\ ended = 0..turn - 1
      BY <2>1, <2>3 DEF IInv, InTheList, SideBySide
    <3>2. unitList' = {}
      BY <1>1, <2>1, <3>1
    <3> QED
      BY <2>1, <3>2 DEF Further
  <2> QED
    BY <2>2, <2>3
<1> QED
  BY <1>3, <1>4, <1>5, <1>6, <1>7 DEF Next

(* Every step ends the schedule, begins it, or comes to the next turn or   *)
(* the next round.  There are Offloader + 2 turns and, by TypeOK, no more  *)
(* rounds than layers: a schedule has finitely many steps.                 *)
THEOREM ForwardTheorem == Spec => GoesForward
<1>1. IInv /\ [Next]_vars => [Further]_vars
  BY NextIsFurther
<1> QED
  BY <1>1, Invariance, PTL DEF Spec, GoesForward

(* While there are rounds a unit can take its turn: the list has the units *)
(* that are to come, whichever have been exhausted.                        *)
THEOREM TurnsAreTaken == Spec => []SomeTurn
<1>1. IInv => SomeTurn
  <2> SUFFICES ASSUME IInv, phase = "round", turn # Offloader + 1
               PROVE  turn \in Units /\ Turn(turn)
    BY DEF SomeTurn
  <2>1. turn \in 0..Offloader + 1 /\ Offloader \in Nat /\ Units = 0..Offloader
    BY UnitsType DEF IInv, TypeOK
  <2>2. turn \in Units
    BY <2>1
  <2> QED
    BY <2>2 DEF IInv, InTheList, Turn
<1> QED
  BY <1>1, Invariance, PTL
===============================================================================
