--------------------------- MODULE GeneratedSchedule ---------------------------
(***************************************************************************)
(* The layer-wise runner of msmodelslim.  Every processor is a unit with a *)
(* generator of its own over the layers of the model, one for each sample  *)
(* when the processor needs data; a group of processors is one unit.       *)
(* generated_schedule resumes the units in turn, so that they go through   *)
(* the model side by side.  The outputs of one round are the responses to  *)
(* all generators in the next.  At either end the runner adds a unit, one  *)
(* that loads the layer and one that takes it off the device again, which  *)
(* loses it, the offload device being "meta".                              *)
(*                                                                         *)
(* A processor changes a layer in its preprocess or in its postprocess.    *)
(* An activation is abstracted to what it perceives: the pairs of a layer  *)
(* and a processor that had changed the layer when the activation was      *)
(* computed through it.  The generators of an adapter for visiting and for *)
(* running the model yield the same layers, as pipeline_interface asks.    *)
(***************************************************************************)
EXTENDS Naturals, FiniteSets, Sequences

CONSTANTS
    Layers,    \* number of layers the generators yield
    Pipelines  \* configurations: sequences of units, sequences of processors

(* A processor: whether it needs data, whether it works in preprocess.     *)
Kind == [data : BOOLEAN, early : BOOLEAN]

ASSUME ConstantsAssumption ==
    /\ Layers \in Nat \ {0}
    /\ Pipelines \subseteq Seq(Seq(Kind))

(* None: what no activation perceives.                                     *)
Nothing == {<<0, <<0, 0>>>>}

VARIABLES
    pipeline,  \* process_config_list
    samples,   \* calib_data: "none", "empty" or "some"
    phase,     \* "start", "round", "done" or "failed"
    unitList,  \* the units that are not exhausted
    turn,      \* the unit whose make_progress is next; past the last: none
    ended,     \* remove_unit
    at,        \* the layer a unit's generators yielded last
    input, output, \* data_recorder
    place,     \* of a layer: "cpu", "npu" or "meta"
    changed,   \* the processors that have changed a layer
    forwards   \* history: the runs of layers, by whom, with what perceived

config == <<pipeline, samples>>
model == <<place, changed>>
vars == <<config, phase, unitList, turn, ended, at, input, output, model, forwards>>

Loader == 0
Offloader == Len(pipeline) + 1
Units == 0..Offloader
Layer == 1..Layers

(* preprocess_processor and GroupProcessor: the processors of a unit.      *)
Members(u) == IF u \in DOMAIN pipeline THEN DOMAIN pipeline[u] ELSE {}

(* A bug: a group is data-free when any of its processors is.              *)
UsesDataAll(u) == Members(u) # {} /\ \A i \in Members(u) : pipeline[u][i].data

UsesData(u) == \E i \in Members(u) : pipeline[u][i].data

Processors(u) == {<<u, i>> : i \in Members(u)}
EarlyProcessors(u) == {<<u, i>> : i \in {j \in Members(u) : pipeline[u][j].early}}
Front(u) == UNION {Processors(v) : v \in {w \in Units : w < u}}

Init ==
    /\ pipeline \in Pipelines
    /\ samples \in {"none", "empty", "some"}
    /\ phase = "start"
    /\ unitList = Units
    /\ turn = 0
    /\ ended = {}
    /\ at = [u \in Units |-> 0]
    /\ input = Nothing /\ output = Nothing
    /\ place = [l \in Layer |-> "cpu"]
    /\ changed = [l \in Layer |-> {}]
    /\ forwards = {}

-------------------------------------------------------------------------------
(* pre_run and init_generators of all units: who needs data must have some *)
(* to make generators from, if only an empty list.                         *)
Start ==
    /\ phase = "start"
    /\ phase' = IF samples = "none" /\ \E u \in Units : UsesData(u)
                THEN "failed" ELSE "round"
    /\ UNCHANGED <<config, unitList, turn, ended, at, input, output, model, forwards>>

(* make_progress of the unit whose turn it is.  Units are exhausted in the *)
(* same round, so that none is passed over in the list.                    *)
Turn(u) == phase = "round" /\ turn = u /\ u \in unitList

NextTurn(u) == turn' = u + 1

(* No sample, no generator, no request.                                    *)
NoRequest(u) ==
    /\ Turn(u) /\ UsesData(u) /\ samples = "empty"
    /\ phase' = "failed"
    /\ UNCHANGED <<config, unitList, turn, ended, at, input, output, model, forwards>>

(* StopIteration from the first generator.                                 *)
Exhausted(u) ==
    /\ Turn(u) /\ ~(UsesData(u) /\ samples = "empty")
    /\ at[u] = Layers
    /\ ended' = ended \cup {u}
    /\ NextTurn(u)
    /\ UNCHANGED <<config, phase, unitList, at, input, output, model, forwards>>

(* What the arguments of layer l perceive: the model's own input nothing,  *)
(* and those of later layers what was sent to the generator.               *)
Response(l) == IF l = 1 THEN {} ELSE input

(* A bug: preprocess and postprocess of all processors before the forward. *)
PerceivesSelf(u, l) ==
    Response(l) \cup {<<l, p>> : p \in changed[l] \cup Processors(u)}

Perceives(u, l) ==
    Response(l) \cup {<<l, p>> : p \in changed[l] \cup EarlyProcessors(u)}

(* A bug: the layer is taken off the device by the unit that loads it.     *)
PlacedBack(u, l) == IF u = Loader THEN "cpu" ELSE place[l]

Placed(u, l) ==
    IF u = Loader THEN "npu" ELSE IF u = Offloader THEN "meta" ELSE place[l]

(* A bug: units that need no data clear what the others recorded.          *)
RecordedAlways(u, l) == IF UsesData(u) THEN Perceives(u, l) ELSE Nothing

Recorded(u, l) == IF UsesData(u) THEN Perceives(u, l) ELSE output

(* The next layer: preprocess, the forward if data is needed, postprocess. *)
Process(u) ==
    LET l == at[u] + 1 IN
        /\ Turn(u) /\ ~(UsesData(u) /\ samples = "empty")
        /\ at[u] < Layers
        /\ at' = [at EXCEPT ![u] = l]
        /\ output' = Recorded(u, l)
        /\ forwards' =
             IF UsesData(u)
             THEN forwards \cup {[unit |-> u, layer |-> l, perceives |-> Perceives(u, l)]}
             ELSE forwards
        /\ changed' = [changed EXCEPT ![l] = @ \cup Processors(u)]
        /\ place' = [place EXCEPT ![l] = Placed(u, l)]
        /\ NextTurn(u)
        /\ UNCHANGED <<config, phase, unitList, ended, input>>

(* A bug: units are removed from a copy of the list.                       *)
RemainingAll == unitList

Remaining == unitList \ ended

(* The round ends; after the last one post_run of all units.               *)
EndRound ==
    /\ phase = "round" /\ turn = Offloader + 1
    /\ unitList' = Remaining
    /\ ended' = {}
    /\ phase' = IF unitList' = {} THEN "done" ELSE "round"
    /\ turn' = 0
    /\ input' = output
    /\ output' = Nothing
    /\ UNCHANGED <<config, at, model, forwards>>

Next ==
    \/ Start
    \/ \E u \in Units : NoRequest(u) \/ Exhausted(u) \/ Process(u)
    \/ EndRound

Spec == Init /\ [][Next]_vars

(* One thread runs the loop; generators and processors return.             *)
LiveSpec == Spec /\ WF_vars(Next)

-------------------------------------------------------------------------------
TypeOK ==
    /\ pipeline \in Pipelines
    /\ samples \in {"none", "empty", "some"}
    /\ phase \in {"start", "round", "done", "failed"}
    /\ unitList \subseteq Units /\ ended \subseteq Units
    /\ turn \in 0..Offloader + 1
    /\ at \in [Units -> 0..Layers]
    /\ place \in [Layer -> {"cpu", "npu", "meta"}]
    /\ DOMAIN changed = Layer

(* One layer at a time is on the device, each unit behind the first finds  *)
(* its layer there, and none asks for a layer that is lost.                *)
OneLayerAtATime ==
    /\ \A l, m \in Layer : place[l] = "npu" /\ place[m] = "npu" => l = m
    /\ phase = "round" /\ turn \in unitList \ {Loader} /\ at[turn] < Layers
         => place[at[turn] + 1] = "npu"

(* "Perceive the calibration results of all processors in front": in the   *)
(* layer itself and, through its input, in all layers before it.           *)
PerceivesFront ==
    \A f \in forwards : (1..f.layer) \X Front(f.unit) \subseteq f.perceives

(* In the layer it works on a unit perceives, of its own processors, those *)
(* that work in preprocess only, and no processor behind it.               *)
SameLayerFromFront ==
    \A f \in forwards : \A e \in f.perceives :
        e[1] = f.layer => e[2] \in Front(f.unit) \cup EarlyProcessors(f.unit)

(* At the end every processor has changed every layer, those that need     *)
(* data with a forward of it: no unit was taken from the list before it    *)
(* had been through all layers, and a group gets data if any member needs  *)
(* it.                                                                     *)
AllLayersProcessed ==
    phase = "done" =>
        /\ \A l \in Layer : changed[l] = UNION {Processors(u) : u \in Units}
        /\ \A u \in Units, l \in Layer : \A i \in Members(u) :
             pipeline[u][i].data => \E f \in forwards : f.unit = u /\ f.layer = l

(* Every schedule ends, whichever units it has.                            *)
ScheduleEnds == <>(phase \in {"done", "failed"})
===============================================================================
