----------------------- MODULE DistributedSaveProofs -----------------------
(***************************************************************************)
(* Proofs about DistributedSave: types, that ranks meet in the same        *)
(* collectives, and that rank 0 merges only what is complete.  All three   *)
(* rest on counting: the number of collectives a rank has entered is a     *)
(* function of where it is in the code and of its layer, and a rank leaves *)
(* a collective only when all have entered as many.  Then that shards stay *)
(* within the size limit, with the sums this needs; and, at the end, that  *)
(* a run goes forward and is not stuck, which is what can be proved here   *)
(* of its ending.                                                          *)
(***************************************************************************)
EXTENDS DistributedSave, FiniteSetTheorems, TLAPS

(* Directories are finite, so that their files can be counted. *)
FiniteDirs == \A r \in Ranks : IsFiniteSet(DOMAIN dirs[r])

InPostRun == {"post_run", "close", "rename", "count"}
AfterBarrier == {"waiting", "copy", "copying", "remove", "rewrite", "rewriting", "postprocess",
                 "extend", "extending", "done"} \cup Merging

(* How many collectives a rank has entered, by where it is. *)
Fits(where, c, l) ==
  /\ where \in {"construct", "preprocess"} => c = l - 1
  /\ where \in {"gather", "save"} => c = l
  /\ where \in InPostRun => c = Layers /\ l = Layers
  /\ where \in {"counting", "barrier"} => c = Layers + 1 /\ l = Layers
  /\ where \in AfterBarrier => c = Layers + 2 /\ l = Layers

InStep == \A r \in Ranks : Fits(pc[r], calls[r], layer[r])

(* A rank that has entered the count of files has closed its writer, and   *)
(* its count stays right until the merge begins.                           *)
Closed ==
  \A r \in Ranks :
    /\ pc[r] \in {"rename", "count"} => buffer[r] = {}
    /\ calls[r] > Layers => buffer[r] = {}
    /\ calls[r] > Layers /\ moved = 0 => counted[r] = FileCount(r)

(* Only rank 0 merges, when all have entered the barrier. *)
MergeOrder ==
  /\ \A r \in Ranks : pc[r] \in Merging => r = 0 /\ \A q \in Ranks : calls[q] >= Layers + 2
  /\ \A r \in Ranks : pc[r] \in {"merge_index", "merge_json"} => moved = World

IInv == TypeOK /\ FiniteDirs /\ InStep /\ Closed /\ MergeOrder

USE DEF Goto

-----------------------------------------------------------------------------
(* Initially nothing has been entered, saved or merged. *)
LEMMA InitIInv == Init => IInv
<1> SUFFICES ASSUME Init PROVE IInv
  OBVIOUS
<1> USE ConstantsAssumption DEF Init, None, Empty, Ranks
<1>1. PICK left \in [Ranks -> Leftovers] : dirs = [r \in Ranks |-> [n \in left[r] |-> {}]]
  OBVIOUS
<1>2. DOMAIN dirs = Ranks /\ \A r \in Ranks : DOMAIN dirs[r] = left[r]
  BY <1>1
<1>3. FiniteDirs /\ \A r \in Ranks : DOMAIN dirs[r] \subseteq Nat \X Nat
  BY <1>2 DEF FiniteDirs
<1>4. TypeOK
  <2>1. shards \in [Ranks -> Seq(SUBSET Tensors)]
    OBVIOUS
  <2>2. DOMAIN index \subseteq Tensors
    OBVIOUS
  <2> QED
    BY <1>2, <1>3, <2>1, <2>2 DEF TypeOK, PCs, Fields
<1>5. InStep /\ Closed /\ MergeOrder
  BY DEF InStep, Fits, Closed, MergeOrder, InPostRun, AfterBarrier, Merging
<1> QED
  BY <1>3, <1>4, <1>5 DEF IInv

-----------------------------------------------------------------------------
(* What several steps have in common. *)

ConfigType == /\ config \in [kind : {"empty", "garbled", "whole"}, fields : SUBSET Fields]
              /\ seen \in [Ranks -> SUBSET Fields]

DirsType == DOMAIN dirs = Ranks /\ \A r \in Ranks : DOMAIN dirs[r] \subseteq Nat \X Nat

(* A step that moves one rank to another place and may touch config.json.  *)
LEMMA MoveKeepsIInv ==
  ASSUME IInv, NEW r \in Ranks, NEW where \in PCs \ Merging,
         Goto(r, where),
         UNCHANGED <<saveVars, dirs, calls, counted, mergeVars>>,
         ConfigType',
         Fits(where, calls[r], layer[r]),
         where \notin {"rename", "count"}
  PROVE  IInv'
<1> USE DEF IInv, saveVars, mergeVars
<1>1. pc \in [Ranks -> PCs]
  BY DEF TypeOK
<1>2. TypeOK'
  BY <1>1 DEF TypeOK, ConfigType
<1>3. FiniteDirs'
  BY DEF FiniteDirs
<1>4. InStep'
  BY <1>1 DEF InStep
<1>5. Closed'
  BY <1>1 DEF Closed, FileCount
<1>6. MergeOrder'
  BY <1>1 DEF MergeOrder, Merging
<1> QED
  BY <1>2, <1>3, <1>4, <1>5, <1>6

(* Writing a file keeps the directories well-formed. *)
LEMMA PutFileDirs ==
  ASSUME IInv, NEW r \in Ranks, NEW name \in Nat \X Nat, NEW tensors, PutFile(r, name, tensors)
  PROVE  DirsType' /\ FiniteDirs' /\ \A q \in Ranks \ {r} : dirs'[q] = dirs[q]
<1>1. DirsType /\ FiniteDirs
  BY DEF IInv, TypeOK, DirsType
<1>2. DOMAIN dirs' = Ranks /\ \A q \in Ranks \ {r} : dirs'[q] = dirs[q]
  BY <1>1 DEF PutFile, DirsType
<1>3. DOMAIN dirs'[r] = DOMAIN dirs[r] \cup {name}
  BY <1>1 DEF PutFile, DirsType
<1>4. IsFiniteSet(DOMAIN dirs[r] \cup {name})
  BY <1>1, FS_AddElement DEF FiniteDirs
<1>5. FiniteDirs'
  BY <1>1, <1>2, <1>3, <1>4 DEF FiniteDirs
<1>6. DirsType'
  BY <1>1, <1>2, <1>3 DEF DirsType
<1> QED
  BY <1>2, <1>5, <1>6

LEMMA NewShardName ==
  ASSUME TypeOK, NEW r \in Ranks
  PROVE  NewShard(r) \in Nat \X Nat
<1>1. Len(shards[r]) \in Nat
  BY DEF TypeOK
<1> QED
  BY <1>1 DEF NewShard

(* So does what a rank may do to them when it saves or flushes. *)
Untouched(r) == UNCHANGED <<shards, dirs>>

LEMMA SavingDirs ==
  ASSUME IInv, NEW r \in Ranks,
         \/ Untouched(r)
         \/ SaveOneFile(r)
         \/ PutFile(r, <<0, 0>>, buffer[r]) /\ UNCHANGED shards
  PROVE  /\ DirsType' /\ FiniteDirs' /\ \A q \in Ranks \ {r} : dirs'[q] = dirs[q]
         /\ shards' \in [Ranks -> Seq(SUBSET Tensors)]
<1>1. /\ DirsType /\ FiniteDirs /\ shards \in [Ranks -> Seq(SUBSET Tensors)]
      /\ buffer[r] \in SUBSET Tensors
  BY DEF IInv, TypeOK, DirsType
<1>2. CASE Untouched(r)
  BY <1>1, <1>2 DEF Untouched, DirsType, FiniteDirs
<1>3. CASE SaveOneFile(r)
  <2>1. PutFile(r, NewShard(r), buffer[r])
    BY <1>3 DEF SaveOneFile
  <2>2. NewShard(r) \in Nat \X Nat
    BY NewShardName DEF IInv
  <2>3. DirsType' /\ FiniteDirs' /\ \A q \in Ranks \ {r} : dirs'[q] = dirs[q]
    BY <2>1, <2>2, PutFileDirs
  <2>4. Append(shards[r], buffer[r]) \in Seq(SUBSET Tensors)
    BY <1>1
  <2> QED
    BY <1>1, <1>3, <2>3, <2>4 DEF SaveOneFile
<1>4. CASE PutFile(r, <<0, 0>>, buffer[r]) /\ UNCHANGED shards
  <2>1. <<0, 0>> \in Nat \X Nat
    OBVIOUS
  <2> QED
    BY <1>1, <1>4, <2>1, PutFileDirs
<1> QED
  BY <1>2, <1>3, <1>4

(* A step of a rank that has not counted its files yet. *)
LEMMA SavingKeepsIInv ==
  ASSUME IInv, NEW r \in Ranks, NEW where \in PCs \ Merging,
         Goto(r, where),
         UNCHANGED <<calls, counted, mergeVars, configVars>>,
         layer' \in [Ranks -> 1 .. Layers], next' \in [Ranks -> 1 .. Modules + 1],
         \A q \in Ranks \ {r} : layer'[q] = layer[q] /\ buffer'[q] = buffer[q] /\ dirs'[q] = dirs[q],
         buffer' \in [Ranks -> SUBSET Tensors],
         shards' \in [Ranks -> Seq(SUBSET Tensors)],
         DirsType', FiniteDirs',
         calls[r] <= Layers, Fits(where, calls[r], layer'[r]),
         where \in {"rename", "count"} => buffer'[r] = {}
  PROVE  IInv'
<1> USE DEF IInv, mergeVars, configVars
<1>1. pc \in [Ranks -> PCs] /\ calls \in [Ranks -> 0 .. Layers + 2]
  BY DEF TypeOK
<1>2. TypeOK'
  BY <1>1 DEF TypeOK, DirsType
<1>3. InStep'
  BY <1>1 DEF InStep
<1>4. Closed'
  <2> SUFFICES ASSUME NEW q \in Ranks
               PROVE  /\ pc'[q] \in {"rename", "count"} => buffer'[q] = {}
                      /\ calls'[q] > Layers => buffer'[q] = {}
                      /\ calls'[q] > Layers /\ moved' = 0 => counted'[q] = FileCount(q)'
    BY DEF Closed
  <2>1. CASE q = r
    <3>1. ~(calls'[q] > Layers)
      BY <1>1, <2>1, ConstantsAssumption
    <3> QED
      BY <1>1, <2>1, <3>1
  <2>2. CASE q # r
    <3>1. pc'[q] = pc[q] /\ dirs'[q] = dirs[q] /\ buffer'[q] = buffer[q]
      BY <1>1, <2>2
    <3> QED
      BY <3>1 DEF Closed, FileCount
  <2> QED
    BY <2>1, <2>2
<1>5. MergeOrder'
  BY <1>1 DEF MergeOrder, Merging
<1> QED
  BY <1>2, <1>3, <1>4, <1>5

-----------------------------------------------------------------------------
(* Every step of a rank keeps the invariant.  First those that only move   *)
(* it, and touch at most config.json.                                      *)

(* The facts about pc, calls and layer that most steps start from. *)
LEMMA Where ==
  ASSUME IInv, NEW r \in Ranks
  PROVE  /\ pc \in [Ranks -> PCs] /\ calls[r] \in 0 .. Layers + 2 /\ layer[r] \in 1 .. Layers
         /\ Fits(pc[r], calls[r], layer[r]) /\ ConfigType /\ Layers \in Nat
BY ConstantsAssumption DEF IInv, TypeOK, InStep, ConfigType

LEMMA ConstructIInv ==
  ASSUME IInv, NEW r \in Ranks, Construct(r) PROVE IInv'
<1>1. ConfigType'
  BY Where DEF Construct, configVars, ConfigType
<1>2. PICK where \in {"preprocess", "failed"} : Goto(r, where)
  BY DEF Construct
<1>3. Fits(where, calls[r], layer[r]) /\ where \in PCs \ Merging
  BY Where DEF Construct, Fits, InPostRun, AfterBarrier, Merging, PCs, Ended
<1> QED
  BY <1>1, <1>2, <1>3, MoveKeepsIInv DEF Construct

LEMMA FinishingIInv ==
  ASSUME IInv, NEW r \in Ranks, Finishing(r) PROVE IInv'
<1> DEFINE Opens == {"copying", "rewriting", "extending"}
           Others == {"remove", "postprocess", "done", "rewrite", "extend", "failed"}
<1>1. pc[r] \in AfterBarrier /\ ConfigType /\ UNCHANGED <<saveVars, dirs, calls, counted, mergeVars>>
  BY Where DEF Finishing, OpenConfig, WriteConfig, RemoveQuantizationConfig, SavePostprocess,
               AfterBarrier
<1>2. PICK where \in Opens \cup Others : Goto(r, where)
  BY DEF Finishing, OpenConfig, WriteConfig, RemoveQuantizationConfig, SavePostprocess
<1>3. Fits(where, calls[r], layer[r]) /\ where \in PCs \ Merging
  BY <1>1, Where DEF Fits, InPostRun, AfterBarrier, Merging, PCs, Ended
<1>4. ConfigType'
  <2>1. CASE OpenConfig(r)
    <3>1. Empty \in [kind : {"empty", "garbled", "whole"}, fields : SUBSET Fields]
      BY DEF Empty
    <3>2. Original \in SUBSET Fields
      BY DEF Original, Fields
    <3> QED
      BY <1>1, <2>1, <3>1, <3>2 DEF OpenConfig, ConfigType
  <2>2. CASE WriteConfig(r)
    <3>1. Garbled \in [kind : {"empty", "garbled", "whole"}, fields : SUBSET Fields]
      BY DEF Garbled
    <3>2. Whole(seen[r]) \in [kind : {"empty", "garbled", "whole"}, fields : SUBSET Fields]
      BY <1>1 DEF Whole, ConfigType
    <3> QED
      BY <1>1, <2>2, <3>1, <3>2 DEF WriteConfig, ConfigType
  <2>3. CASE RemoveQuantizationConfig(r) \/ SavePostprocess(r)
    <3>1. config.fields \in SUBSET Fields
      BY <1>1 DEF ConfigType
    <3>2. config.fields \ {"quantization_config"} \in SUBSET Fields
      BY <3>1
    <3>3. config.fields \cup {"quantize"} \in SUBSET Fields
      BY <3>1 DEF Fields
    <3> QED
      BY <1>1, <2>3, <3>2, <3>3 DEF RemoveQuantizationConfig, SavePostprocess, ConfigType
  <2> QED
    BY <2>1, <2>2, <2>3 DEF Finishing
<1> QED
  BY <1>1, <1>2, <1>3, <1>4, MoveKeepsIInv

LEMMA EndIInv ==
  ASSUME IInv, NEW r \in Ranks, Fail(r) \/ Terminate(r) PROVE IInv'
<1>1. ConfigType'
  BY Where DEF Fail, Terminate, configVars, ConfigType
<1>2. PICK where \in {"failed", "terminated"} : Goto(r, where)
  BY DEF Fail, Terminate
<1>3. Fits(where, calls[r], layer[r]) /\ where \in PCs \ Merging
  BY DEF Fits, InPostRun, AfterBarrier, Merging, PCs, Ended
<1> QED
  BY <1>1, <1>2, <1>3, MoveKeepsIInv DEF Fail, Terminate

(* Then those of a rank that saves. *)
LEMMA SaveModuleIInv ==
  ASSUME IInv, NEW r \in Ranks, SaveModule(r) PROVE IInv'
<1> DEFINE t == <<layer[r], next[r]>>
<1>1. pc[r] = "save" /\ UNCHANGED <<calls, counted, mergeVars, configVars, layer>>
  BY DEF SaveModule, Refused, saveVars
<1>2. PICK where \in {"save", "failed"} : Goto(r, where)
  BY Where, <1>1 DEF SaveModule, Refused
<1>3. Fits(where, calls[r], layer[r]) /\ where \in PCs \ Merging /\ calls[r] <= Layers
  BY <1>1, Where DEF Fits, InPostRun, AfterBarrier, Merging, PCs, Ended
<1>4. /\ Untouched(r) \/ SaveOneFile(r)
      /\ buffer' \in {buffer, [buffer EXCEPT ![r] = @ \cup {t}], [buffer EXCEPT ![r] = {t}]}
      /\ next' \in {next, [next EXCEPT ![r] = @ + 1]}
      /\ next[r] <= Modules
  BY DEF SaveModule, Write, Refused, saveVars, Untouched
<1>5. /\ buffer \in [Ranks -> SUBSET Tensors] /\ next \in [Ranks -> 1 .. Modules + 1]
      /\ layer \in [Ranks -> 1 .. Layers] /\ Modules \in Nat
  BY ConstantsAssumption DEF IInv, TypeOK
<1>6. t \in Tensors
  BY <1>4, <1>5 DEF Tensors
<1>7. buffer' \in [Ranks -> SUBSET Tensors] /\ \A q \in Ranks \ {r} : buffer'[q] = buffer[q]
  BY <1>4, <1>5, <1>6
<1>8. next' \in [Ranks -> 1 .. Modules + 1]
  BY <1>4, <1>5
<1> QED
  BY <1>1, <1>2, <1>3, <1>4, <1>5, <1>7, <1>8, SavingDirs, SavingKeepsIInv

LEMMA LayerSavedIInv ==
  ASSUME IInv, NEW r \in Ranks, LayerSaved(r) PROVE IInv'
<1>1. /\ pc[r] = "save"
      /\ UNCHANGED <<calls, counted, mergeVars, configVars, buffer, shards, dirs>>
  BY DEF LayerSaved
<1>2. PICK where \in {"preprocess", "post_run"} :
        /\ Goto(r, where)
        /\ where = "preprocess" => layer[r] < Layers /\ layer' = [layer EXCEPT ![r] = @ + 1]
        /\ where = "post_run" => layer[r] = Layers /\ layer' = layer
  BY DEF LayerSaved
<1>3. /\ buffer \in [Ranks -> SUBSET Tensors] /\ next \in [Ranks -> 1 .. Modules + 1]
      /\ layer \in [Ranks -> 1 .. Layers] /\ Modules \in Nat /\ Layers \in Nat
      /\ calls[r] = layer[r]
  BY <1>1, ConstantsAssumption, Where DEF IInv, TypeOK, Fits
<1>4. layer' \in [Ranks -> 1 .. Layers] /\ \A q \in Ranks \ {r} : layer'[q] = layer[q]
  BY <1>2, <1>3
<1>5. next' \in [Ranks -> 1 .. Modules + 1]
  BY <1>3 DEF LayerSaved
<1>6. Fits(where, calls[r], layer'[r]) /\ where \in PCs \ Merging /\ calls[r] <= Layers
  BY <1>2, <1>3 DEF Fits, InPostRun, AfterBarrier, Merging, PCs, Ended
<1>7. where \notin {"rename", "count"} /\ Untouched(r)
  BY <1>1, <1>2 DEF Untouched
<1> QED
  BY <1>1, <1>2, <1>3, <1>4, <1>5, <1>6, <1>7, SavingDirs, SavingKeepsIInv

LEMMA SaveRestIInv ==
  ASSUME IInv, NEW r \in Ranks, SaveRest(r) PROVE IInv'
<1>1. pc[r] = "post_run" /\ UNCHANGED <<calls, counted, mergeVars, configVars, layer, next>>
  BY DEF SaveRest
<1>2. PICK where \in {"close", "failed"} : Goto(r, where)
  BY DEF SaveRest, Refused
<1>3. Fits(where, calls[r], layer[r]) /\ where \in PCs \ Merging /\ calls[r] <= Layers
  BY <1>1, Where DEF Fits, InPostRun, AfterBarrier, Merging, PCs, Ended
<1>4. /\ Untouched(r) \/ SaveOneFile(r)
      /\ buffer' \in {buffer, [buffer EXCEPT ![r] = @ \cup {Rest}], [buffer EXCEPT ![r] = {Rest}]}
  BY DEF SaveRest, Write, Refused, saveVars, Untouched
<1>5. /\ buffer \in [Ranks -> SUBSET Tensors] /\ next \in [Ranks -> 1 .. Modules + 1]
      /\ layer \in [Ranks -> 1 .. Layers]
  BY DEF IInv, TypeOK
<1>6. buffer' \in [Ranks -> SUBSET Tensors] /\ \A q \in Ranks \ {r} : buffer'[q] = buffer[q]
  BY <1>4, <1>5 DEF Tensors
<1> QED
  BY <1>1, <1>2, <1>3, <1>4, <1>5, <1>6, SavingDirs, SavingKeepsIInv

LEMMA FlushIInv ==
  ASSUME IInv, NEW r \in Ranks, Flush(r) PROVE IInv'
<1>1. pc[r] = "close" /\ UNCHANGED <<calls, counted, mergeVars, configVars, layer, next>>
  BY DEF Flush
<1>2. PICK where \in {"rename", "count", "failed"} :
        Goto(r, where) /\ (where \in {"rename", "count"} => buffer'[r] = {})
  <2>1. buffer \in [Ranks -> SUBSET Tensors]
    BY DEF IInv, TypeOK
  <2> QED
    BY <2>1 DEF Flush, Refused
<1>3. Fits(where, calls[r], layer[r]) /\ where \in PCs \ Merging /\ calls[r] <= Layers
  BY <1>1, Where DEF Fits, InPostRun, AfterBarrier, Merging, PCs, Ended
<1>4. /\ \/ Untouched(r)
         \/ SaveOneFile(r)
         \/ PutFile(r, <<0, 0>>, buffer[r]) /\ UNCHANGED shards
      /\ buffer' \in {buffer, [buffer EXCEPT ![r] = {}]}
  BY DEF Flush, Refused, saveVars, Untouched
<1>5. /\ buffer \in [Ranks -> SUBSET Tensors] /\ next \in [Ranks -> 1 .. Modules + 1]
      /\ layer \in [Ranks -> 1 .. Layers]
  BY DEF IInv, TypeOK
<1>6. buffer' \in [Ranks -> SUBSET Tensors] /\ \A q \in Ranks \ {r} : buffer'[q] = buffer[q]
  BY <1>4, <1>5
<1> QED
  BY <1>1, <1>2, <1>3, <1>4, <1>5, <1>6, SavingDirs, SavingKeepsIInv

LEMMA RenameIInv ==
  ASSUME IInv, NEW r \in Ranks, Rename(r) PROVE IInv'
<1>1. /\ pc[r] = "rename" /\ Goto(r, "count")
      /\ UNCHANGED <<calls, counted, mergeVars, configVars, layer, next, buffer, shards>>
  BY DEF Rename, saveVars
<1>2. Fits("count", calls[r], layer[r]) /\ "count" \in PCs \ Merging /\ calls[r] <= Layers
  BY <1>1, Where DEF Fits, InPostRun, AfterBarrier, Merging, PCs, Ended
<1>3. /\ buffer \in [Ranks -> SUBSET Tensors] /\ next \in [Ranks -> 1 .. Modules + 1]
      /\ layer \in [Ranks -> 1 .. Layers] /\ DirsType /\ FiniteDirs
      /\ shards \in [Ranks -> Seq(SUBSET Tensors)] /\ Total(r) \in Nat
      /\ buffer[r] = {}
  BY <1>1 DEF IInv, TypeOK, DirsType, Total, Closed
<1>4. DOMAIN dirs' = Ranks /\ \A q \in Ranks \ {r} : dirs'[q] = dirs[q]
  BY <1>3 DEF Rename, DirsType
<1>5. DOMAIN dirs'[r] = (DOMAIN dirs[r] \ Temporary(r)) \cup Numbered(r)
  BY <1>3 DEF Rename, DirsType
<1>6. Numbered(r) \subseteq Nat \X Nat /\ IsFiniteSet(Numbered(r))
  <2>1. IsFiniteSet(1 .. Total(r))
    BY <1>3, FS_Interval
  <2>2. IsFiniteSet({Total(r)})
    BY FS_Singleton
  <2>3. IsFiniteSet((1 .. Total(r)) \X {Total(r)})
    BY <2>1, <2>2, FS_Product
  <2> QED
    BY <1>3, <2>3 DEF Numbered
<1>7. IsFiniteSet(DOMAIN dirs[r] \ Temporary(r))
  BY <1>3, FS_Subset DEF FiniteDirs
<1>8. IsFiniteSet(DOMAIN dirs'[r])
  BY <1>5, <1>6, <1>7, FS_Union
<1>9. DirsType' /\ FiniteDirs'
  BY <1>3, <1>4, <1>5, <1>6, <1>8 DEF DirsType, FiniteDirs
<1> QED
  BY <1>1, <1>2, <1>3, <1>4, <1>9, SavingKeepsIInv

-----------------------------------------------------------------------------
(* Collectives: entering counts a call, and leaving needs everyone's.      *)

(* A step of a collective that keeps everything but pc, calls and counted. *)
LEMMA CollectiveKeepsIInv ==
  ASSUME IInv, NEW r \in Ranks, NEW where \in PCs \ {"merge_index", "merge_json", "rename", "count"},
         Goto(r, where),
         UNCHANGED <<saveVars, dirs, mergeVars, configVars>>,
         calls' \in {calls, [calls EXCEPT ![r] = @ + 1]},
         Fits(where, calls'[r], layer[r]), where \notin Ended,
         \A q \in Ranks \ {r} : counted'[q] = counted[q], counted' \in [Ranks -> Nat],
         calls'[r] > Layers => buffer[r] = {},
         calls'[r] > Layers /\ moved = 0 => counted'[r] = FileCount(r),
         where = "merge_files" => r = 0 /\ \A q \in Ranks : calls[q] >= Layers + 2
  PROVE  IInv'
<1> USE DEF IInv, saveVars, mergeVars, configVars
<1>1. /\ pc \in [Ranks -> PCs] /\ calls \in [Ranks -> 0 .. Layers + 2]
      /\ layer \in [Ranks -> 1 .. Layers] /\ Layers \in Nat
  BY ConstantsAssumption DEF TypeOK
<1>2. /\ pc' \in [Ranks -> PCs] /\ pc'[r] = where
      /\ \A q \in Ranks \ {r} : pc'[q] = pc[q] /\ calls'[q] = calls[q]
      /\ \A q \in Ranks : calls'[q] >= calls[q]
  BY <1>1
<1>3. calls'[r] \in 0 .. Layers + 2
  BY <1>1 DEF Fits, PCs, InPostRun, AfterBarrier, Merging, Ended
<1>4. calls' \in [Ranks -> 0 .. Layers + 2]
  BY <1>1, <1>3
<1>5. TypeOK'
  BY <1>2, <1>4 DEF TypeOK
<1>6. FiniteDirs'
  BY DEF FiniteDirs
<1>7. InStep'
  BY <1>2 DEF InStep
<1>8. Closed'
  BY <1>2 DEF Closed, FileCount
<1>9. MergeOrder'
  <2>1. \A q \in Ranks : calls[q] >= Layers + 2 => calls'[q] >= Layers + 2
    BY <1>1, <1>2, <1>4
  <2>2. ASSUME NEW q \in Ranks, pc'[q] \in Merging
        PROVE  q = 0 /\ \A p \in Ranks : calls'[p] >= Layers + 2
    <3>1. CASE q = r
      BY <1>2, <2>1, <2>2, <3>1 DEF Merging
    <3>2. CASE q # r
      BY <1>2, <2>1, <2>2, <3>2 DEF MergeOrder
    <3> QED
      BY <3>1, <3>2
  <2>3. ASSUME NEW q \in Ranks, pc'[q] \in {"merge_index", "merge_json"}
        PROVE  moved' = World
    BY <1>2, <2>3 DEF MergeOrder
  <2> QED
    BY <2>2, <2>3 DEF MergeOrder
<1> QED
  BY <1>5, <1>6, <1>7, <1>8, <1>9

LEMMA PreprocessIInv ==
  ASSUME IInv, NEW r \in Ranks, Preprocess(r) PROVE IInv'
<1>1. UNCHANGED <<saveVars, dirs, counted, mergeVars, configVars>>
  BY DEF Preprocess
<1>2. PICK where \in {"gather", "save"} :
        /\ Goto(r, where)
        /\ where = "gather" => pc[r] = "preprocess" /\ calls' = [calls EXCEPT ![r] = @ + 1]
        /\ where = "save" => pc[r] = "gather" /\ calls' = calls
  BY DEF Preprocess, Enter, Leave
<1>3. calls \in [Ranks -> 0 .. Layers + 2] /\ counted \in [Ranks -> Nat]
  BY DEF IInv, TypeOK
<1>4. Fits(where, calls'[r], layer[r]) /\ calls'[r] <= Layers /\ calls'[r] \in Int
  BY <1>2, <1>3, Where DEF Fits, InPostRun, AfterBarrier, Merging
<1>5. where \in PCs \ {"merge_index", "merge_json", "rename", "count"} /\ where \notin Ended
  BY DEF PCs, Ended
<1>6. ~(calls'[r] > Layers) /\ where # "merge_files"
  BY <1>4, Where
<1>7. calls' \in {calls, [calls EXCEPT ![r] = @ + 1]}
  BY <1>2
<1> QED
  BY <1>1, <1>2, <1>3, <1>4, <1>5, <1>6, <1>7, CollectiveKeepsIInv

LEMMA CountFilesIInv ==
  ASSUME IInv, NEW r \in Ranks, CountFiles(r) PROVE IInv'
<1>1. UNCHANGED <<saveVars, dirs, mergeVars, configVars>>
  BY DEF CountFiles
<1>2. PICK where \in {"counting", "barrier"} :
        /\ Goto(r, where)
        /\ where = "counting" => /\ pc[r] = "count" /\ calls' = [calls EXCEPT ![r] = @ + 1]
                                 /\ counted' = [counted EXCEPT ![r] = FileCount(r)]
        /\ where = "barrier" => pc[r] = "counting" /\ calls' = calls /\ counted' = counted
  BY DEF CountFiles, Enter, Leave
<1>3. calls \in [Ranks -> 0 .. Layers + 2] /\ counted \in [Ranks -> Nat]
  BY DEF IInv, TypeOK
<1>4. FileCount(r) \in Nat
  BY FS_CardinalityType DEF IInv, FiniteDirs, FileCount
<1>5. counted' \in [Ranks -> Nat] /\ \A q \in Ranks \ {r} : counted'[q] = counted[q]
  BY <1>2, <1>3, <1>4
<1>6. Fits(where, calls'[r], layer[r])
  BY <1>2, <1>3, Where DEF Fits, InPostRun, AfterBarrier, Merging
<1>7. where \in PCs \ {"merge_index", "merge_json", "rename", "count"} /\ where \notin Ended
  BY DEF PCs, Ended
<1>8. /\ buffer[r] = {}
      /\ moved = 0 => counted'[r] = FileCount(r)
  <2>1. CASE where = "counting"
    BY <1>2, <1>3, <2>1 DEF IInv, Closed
  <2>2. CASE where = "barrier"
    <3>1. calls[r] > Layers
      BY <1>2, <2>2, Where DEF Fits
    <3> QED
      BY <1>2, <2>2, <3>1 DEF IInv, Closed
  <2> QED
    BY <1>2, <2>1, <2>2
<1>9. calls' \in {calls, [calls EXCEPT ![r] = @ + 1]} /\ where # "merge_files"
  BY <1>2
<1> QED
  BY <1>1, <1>2, <1>5, <1>6, <1>7, <1>8, <1>9, CollectiveKeepsIInv

LEMMA BarrierIInv ==
  ASSUME IInv, NEW r \in Ranks, Barrier(r) PROVE IInv'
<1>1. UNCHANGED <<saveVars, dirs, counted, mergeVars, configVars>>
  BY DEF Barrier
<1>2. PICK where \in {"waiting", "merge_files", "copy"} :
        /\ Goto(r, where)
        /\ where = "waiting" => pc[r] = "barrier" /\ calls' = [calls EXCEPT ![r] = @ + 1]
        /\ where # "waiting" => pc[r] = "waiting" /\ calls' = calls /\ EveryoneEntered(r)
        /\ where = "merge_files" => r = 0
  BY DEF Barrier, Enter, Leave
<1>3. calls \in [Ranks -> 0 .. Layers + 2] /\ counted \in [Ranks -> Nat]
  BY DEF IInv, TypeOK
<1>4. Fits(where, calls'[r], layer[r])
  BY <1>2, <1>3, Where DEF Fits, InPostRun, AfterBarrier, Merging
<1>5. where \in PCs \ {"merge_index", "merge_json", "rename", "count"} /\ where \notin Ended
  BY DEF PCs, Ended, Merging
<1>6. calls[r] > Layers
  BY <1>2, Where DEF Fits, AfterBarrier
<1>7. buffer[r] = {} /\ (moved = 0 => counted[r] = FileCount(r))
  BY <1>6 DEF IInv, Closed
<1>8. ASSUME where = "merge_files" PROVE \A q \in Ranks : calls[q] >= Layers + 2
  BY <1>2, <1>8, Where DEF Fits, AfterBarrier, EveryoneEntered
<1>9. calls' \in {calls, [calls EXCEPT ![r] = @ + 1]}
  BY <1>2
<1> QED
  BY <1>1, <1>2, <1>3, <1>4, <1>5, <1>7, <1>8, <1>9, CollectiveKeepsIInv

-----------------------------------------------------------------------------
(* The merge on rank 0.  It may touch the directories of the others, whose *)
(* writers are closed: from the first move on no count is relied on.       *)

(* A step of the merge: nothing of the ranks changes but their directories. *)
LEMMA MergeKeepsIInv ==
  ASSUME IInv, NEW r \in Ranks, pc[r] \in Merging,
         NEW where \in Merging \cup {"copy", "failed"},
         pc' \in {pc, [pc EXCEPT ![r] = where]},
         UNCHANGED <<saveVars, calls, counted, configVars>>,
         DirsType', FiniteDirs', moved' \in 0 .. World, DOMAIN index' \subseteq Tensors,
         dirs' # dirs => moved' # 0,
         pc'[r] \in {"merge_index", "merge_json"} => moved' = World,
         moved' # moved => pc[r] = "merge_files" /\ moved' # 0
  PROVE  IInv'
<1> USE DEF IInv, saveVars, configVars
<1>1. /\ pc \in [Ranks -> PCs] /\ pc' \in [Ranks -> PCs]
      /\ \A q \in Ranks \ {r} : pc'[q] = pc[q]
      /\ pc'[r] \in Merging \cup {"copy", "failed"}
  <2>1. pc \in [Ranks -> PCs] /\ where \in PCs
    BY DEF TypeOK, PCs, Ended
  <2>2. CASE pc' = pc
    BY <2>1, <2>2
  <2>3. CASE pc' = [pc EXCEPT ![r] = where]
    BY <2>1, <2>3
  <2> QED
    BY <2>2, <2>3
<1>2. TypeOK'
  BY <1>1 DEF TypeOK, DirsType
<1>3. Fits(pc'[r], calls[r], layer[r])
  BY <1>1, Where DEF Fits, InPostRun, AfterBarrier, Merging
<1>4. InStep'
  BY <1>1, <1>3 DEF InStep
<1>5. r = 0 /\ \A q \in Ranks : calls[q] >= Layers + 2
  BY DEF MergeOrder
<1>6. Closed'
  <2> SUFFICES ASSUME NEW q \in Ranks
               PROVE  /\ pc'[q] \in {"rename", "count"} => buffer'[q] = {}
                      /\ calls'[q] > Layers => buffer'[q] = {}
                      /\ calls'[q] > Layers /\ moved' = 0 => counted'[q] = FileCount(q)'
    BY DEF Closed
  <2>1. pc'[q] \in {"rename", "count"} => pc[q] = pc'[q]
    BY <1>1 DEF Merging
  <2>2. moved' = 0 => moved = 0 /\ dirs' = dirs
    OBVIOUS
  <2> QED
    BY <2>1, <2>2 DEF Closed, FileCount
<1>7. MergeOrder'
  <2>1. ASSUME NEW q \in Ranks, pc'[q] \in Merging
        PROVE  q = 0 /\ \A p \in Ranks : calls'[p] >= Layers + 2
    BY <1>1, <1>5, <2>1 DEF MergeOrder
  <2>2. ASSUME NEW q \in Ranks, pc'[q] \in {"merge_index", "merge_json"}
        PROVE  moved' = World
    BY <1>1, <1>5, <2>2 DEF MergeOrder, Merging
  <2> QED
    BY <2>1, <2>2 DEF MergeOrder
<1> QED
  BY <1>2, <1>4, <1>6, <1>7

LEMMA MergeSafetensorFilesIInv ==
  ASSUME IInv, NEW r \in Ranks, MergeSafetensorFiles(r) PROVE IInv'
<1>1. /\ pc[r] = "merge_files" /\ UNCHANGED <<saveVars, calls, counted, index, configVars>>
      /\ pc' \in {pc, [pc EXCEPT ![r] = "failed"], [pc EXCEPT ![r] = "merge_index"]}
      /\ \/ moved < World /\ dirs' = [dirs EXCEPT ![moved] = None] /\ moved' = moved + 1 /\ pc' = pc
         \/ dirs' = dirs /\ moved' = moved /\ (pc'[r] = "merge_index" => moved = World)
  BY Where DEF MergeSafetensorFiles
<1>2. /\ DirsType /\ FiniteDirs /\ moved \in 0 .. World /\ World \in Nat
      /\ DOMAIN index \subseteq Tensors
  BY ConstantsAssumption DEF IInv, TypeOK, DirsType
<1>3. CASE dirs' = dirs /\ moved' = moved /\ (pc'[r] = "merge_index" => moved = World)
  <2>1. DirsType' /\ FiniteDirs' /\ DOMAIN index' \subseteq Tensors /\ pc[r] \in Merging
    BY <1>1, <1>2, <1>3 DEF DirsType, FiniteDirs, Merging
  <2>2. PICK where \in {"merge_files", "failed", "merge_index"} :
          pc' \in {pc, [pc EXCEPT ![r] = where]}
    BY <1>1
  <2>3. pc'[r] # "merge_json"
    BY <1>1, Where
  <2> QED
    BY <1>1, <1>2, <1>3, <2>1, <2>2, <2>3, MergeKeepsIInv DEF Merging
<1>4. CASE moved < World /\ dirs' = [dirs EXCEPT ![moved] = None] /\ moved' = moved + 1 /\ pc' = pc
  <2>1. moved' \in 0 .. World /\ moved' # 0 /\ pc[r] \in Merging
    BY <1>1, <1>2, <1>4 DEF Merging
  <2>2. DOMAIN None = {}
    BY DEF None
  <2>3. DOMAIN dirs' = Ranks /\ \A q \in Ranks : dirs'[q] \in {dirs[q], None}
    BY <1>2, <1>4 DEF DirsType
  <2>4. DirsType' /\ FiniteDirs'
    BY <1>2, <2>2, <2>3, FS_EmptySet DEF DirsType, FiniteDirs
  <2> QED
    BY <1>1, <1>2, <1>4, <2>1, <2>4, MergeKeepsIInv DEF Merging
<1> QED
  BY <1>1, <1>3, <1>4

LEMMA MergeIndexFilesIInv ==
  ASSUME IInv, NEW r \in Ranks, MergeIndexFiles(r) PROVE IInv'
<1>1. /\ pc[r] = "merge_index" /\ pc' = [pc EXCEPT ![r] = "merge_json"]
      /\ UNCHANGED <<saveVars, dirs, calls, counted, moved, configVars>>
  BY DEF MergeIndexFiles
<1>2. /\ DirsType /\ FiniteDirs /\ moved \in 0 .. World /\ moved = World
      /\ shards \in [Ranks -> Seq(SUBSET Tensors)]
  BY <1>1 DEF IInv, TypeOK, DirsType, MergeOrder
<1>3. DOMAIN index' = UNION {Entries(q) : q \in Ranks}
  BY DEF MergeIndexFiles
<1>4. ASSUME NEW q \in Ranks PROVE Entries(q) \subseteq Tensors
  <2>1. ASSUME NEW i \in 1 .. Total(q) PROVE shards[q][i] \subseteq Tensors
    BY <1>2 DEF Total
  <2> QED
    BY <2>1 DEF Entries
<1>5. DOMAIN index' \subseteq Tensors
  BY <1>3, <1>4
<1>6. DirsType' /\ FiniteDirs'
  BY <1>1, <1>2 DEF DirsType, FiniteDirs
<1> QED
  BY <1>1, <1>2, <1>5, <1>6, MergeKeepsIInv DEF Merging

LEMMA MergeJsonFilesIInv ==
  ASSUME IInv, NEW r \in Ranks, MergeJsonFiles(r) PROVE IInv'
<1>1. /\ pc[r] = "merge_json" /\ pc' = [pc EXCEPT ![r] = "copy"]
      /\ dirs' = [q \in Ranks |-> None]
      /\ UNCHANGED <<saveVars, calls, counted, moved, index, configVars>>
  BY DEF MergeJsonFiles
<1>2. /\ moved \in 0 .. World /\ moved = World /\ World # 0
      /\ DOMAIN index \subseteq Tensors /\ pc'[r] = "copy"
  BY <1>1, Where, ConstantsAssumption DEF IInv, TypeOK, MergeOrder
<1>3. DOMAIN None = {}
  BY DEF None
<1>4. DirsType' /\ FiniteDirs'
  BY <1>1, <1>3, FS_EmptySet DEF DirsType, FiniteDirs
<1> QED
  BY <1>1, <1>2, <1>4, MergeKeepsIInv DEF Merging

-----------------------------------------------------------------------------
LEMMA NextIInv ==
  ASSUME IInv, [Next]_vars PROVE IInv'
<1>1. CASE UNCHANGED vars
  BY <1>1 DEF IInv, vars, saveVars, mergeVars, configVars, TypeOK, FiniteDirs, InStep, Closed,
              MergeOrder, FileCount
<1>2. CASE Over
  BY <1>1, <1>2 DEF Over
<1>3. ASSUME NEW r \in Ranks, Step(r) \/ Fail(r) \/ Terminate(r)
      PROVE  IInv'
  <2>1. CASE Saving(r)
    BY <2>1, ConstructIInv, PreprocessIInv, SaveModuleIInv, LayerSavedIInv, SaveRestIInv,
       FlushIInv, RenameIInv DEF Saving
  <2>2. CASE Merge(r)
    BY <2>2, CountFilesIInv, BarrierIInv, MergeSafetensorFilesIInv, MergeIndexFilesIInv,
       MergeJsonFilesIInv DEF Merge
  <2>3. CASE Finishing(r)
    BY <2>3, FinishingIInv
  <2> QED
    BY <1>3, <2>1, <2>2, <2>3, EndIInv DEF Step
<1> QED
  BY <1>1, <1>2, <1>3 DEF Next

LEMMA Invariance == Spec => []IInv
BY InitIInv, NextIInv, PTL DEF Spec

(* Types of the variables, whatever the number of ranks, layers, modules   *)
(* and leftovers.                                                          *)
THEOREM TypeCorrect == Spec => []TypeOK
<1>1. IInv => TypeOK
  BY DEF IInv
<1> QED
  BY <1>1, Invariance, PTL

(* Ranks in a collective with the same number of calls are in the same     *)
(* call of the code, for the same layer.                                   *)
THEOREM CollectivesTheorem == Spec => []CollectivesMatch
<1>1. IInv => CollectivesMatch
  <2> SUFFICES ASSUME IInv, NEW r \in Ranks, NEW q \in Ranks,
                      pc[r] \in Waiting, pc[q] \in Waiting, calls[r] = calls[q]
               PROVE  pc[r] = pc[q] /\ layer[r] = layer[q]
    BY DEF CollectivesMatch
  <2>1. /\ Fits(pc[r], calls[r], layer[r]) /\ layer[r] \in 1 .. Layers
        /\ Fits(pc[q], calls[q], layer[q]) /\ layer[q] \in 1 .. Layers /\ Layers \in Nat
    BY Where
  <2> QED
    BY <2>1 DEF Fits, Waiting, AfterBarrier
<1> QED
  BY <1>1, Invariance, PTL

(* Rank 0 merges only when every rank has written and counted its files.   *)
THEOREM MergeTheorem == Spec => []MergeAfterClose
<1>1. IInv => MergeAfterClose
  <2> SUFFICES ASSUME IInv, pc[0] \in Merging, NEW r \in Ranks
               PROVE  /\ buffer[r] = {}
                      /\ moved = 0 => counted[r] = FileCount(r)
    BY DEF MergeAfterClose
  <2>1. 0 \in Ranks
    BY ConstantsAssumption DEF Ranks
  <2>2. calls[r] >= Layers + 2
    BY <2>1 DEF IInv, MergeOrder
  <2>3. calls[r] > Layers
    BY <2>2, Where
  <2> QED
    BY <2>3 DEF IInv, Closed
<1> QED
  BY <1>1, Invariance, PTL

-----------------------------------------------------------------------------
(* Sums over finite sets.  The model sums with MapThenSumSet, a function   *)
(* that is recursive on subsets; the facts about it are proved from a      *)
(* smallest set for which they fail.                                       *)

LEMMA SmallestSet ==
  ASSUME NEW T, IsFiniteSet(T), NEW Bad, Bad \subseteq SUBSET T, Bad # {}
  PROVE  \E S \in Bad : \A U \in Bad : U \subseteq S => U = S
<1>1. IsWellFoundedOn(StrictSubsetOrdering(T), FiniteSubsetsOf(T))
  BY FS_StrictSubsetOrderingWellFounded
<1>2. Bad \subseteq FiniteSubsetsOf(T)
  BY FS_FiniteSubsetsOfFinite
<1>3. PICK S \in Bad : \A U \in Bad : ~ (<<U, S>> \in StrictSubsetOrdering(T))
  BY <1>1, <1>2, WFMin
<1> QED
  BY <1>3 DEF StrictSubsetOrdering

Some(s) == CHOOSE x \in s : TRUE

(* g sums the weights of every subset of T, one element after the other. *)
Sums(w, g, T) ==
  g = [s \in SUBSET T |-> IF s = {} THEN 0 ELSE w[Some(s)] + g[s \ {Some(s)}]]

SumOf(w, T) == (CHOOSE g : Sums(w, g, T))[T]

LEMMA SizeIsSum ==
  ASSUME NEW S \in SUBSET Tensors
  PROVE  Size(S) = SumOf([t \in Tensors |-> SizeOf(t)], S)
BY DEF Size, SumOf, Sums, Some, MapThenSumSet, MapThenFoldSet

LEMMA OffsetIsSum ==
  ASSUME NEW q \in Nat
  PROVE  Offset(q) = SumOf(counted, 0 .. q - 1)
BY DEF Offset, SumOf, Sums, Some, MapThenSumSet, MapThenFoldSet

LEMMA SomeIn ==
  ASSUME NEW s, s # {}
  PROVE  Some(s) \in s /\ s \ {Some(s)} \subseteq s /\ s \ {Some(s)} # s
BY DEF Some

(* Two such functions agree wherever both are defined. *)
LEMMA SumsAgree ==
  ASSUME NEW w, NEW g, NEW h, NEW T, NEW U, Sums(w, g, T), Sums(w, h, U),
         NEW S, S \subseteq T, S \subseteq U, IsFiniteSet(S)
  PROVE  g[S] = h[S]
<1> DEFINE Bad == {s \in SUBSET S : g[s] # h[s]}
<1>1. SUFFICES ASSUME Bad # {} PROVE FALSE
  OBVIOUS
<1>2. PICK s \in Bad : \A u \in Bad : u \subseteq s => u = s
  <2>1. Bad \subseteq SUBSET S
    OBVIOUS
  <2> HIDE DEF Bad
  <2> QED
    BY <1>1, <2>1, SmallestSet
<1> DEFINE u == s \ {Some(s)}
<1>3. /\ g[s] = IF s = {} THEN 0 ELSE w[Some(s)] + g[u]
      /\ h[s] = IF s = {} THEN 0 ELSE w[Some(s)] + h[u]
  BY DEF Sums
<1>4. s # {} => g[u] = h[u]
  BY <1>2, SomeIn
<1> QED
  BY <1>2, <1>3, <1>4

(* There is one for every finite set. *)
LEMMA SumsExists ==
  ASSUME NEW w, NEW T, IsFiniteSet(T)
  PROVE  \E g : Sums(w, g, T)
<1> DEFINE Bad == {S \in SUBSET T : ~ \E g : Sums(w, g, S)}
<1>1. SUFFICES ASSUME Bad # {} PROVE FALSE
  OBVIOUS
<1>2. PICK S \in Bad : \A u \in Bad : u \subseteq S => u = S
  <2>1. Bad \subseteq SUBSET T
    OBVIOUS
  <2> HIDE DEF Bad
  <2> QED
    BY <1>1, <2>1, SmallestSet
<1> DEFINE G == [u \in SUBSET S |-> CHOOSE g : Sums(w, g, u)]
           val == [u \in SUBSET S |->
                     IF u = {} THEN 0
                     ELSE w[Some(u)] + G[u \ {Some(u)}][u \ {Some(u)}]]
<1>3. ASSUME NEW u \in SUBSET S, u # S
      PROVE  Sums(w, G[u], u)
  <2>1. \E g : Sums(w, g, u)
    BY <1>2, <1>3
  <2> QED
    BY <2>1
<1>4. ASSUME NEW v \in SUBSET S, v # S
      PROVE  val[v] = G[v][v]
  <2> DEFINE y == Some(v)
  <2>1. G[v][v] = IF v = {} THEN 0 ELSE w[y] + G[v][v \ {y}]
    <3>1. Sums(w, G[v], v)
      BY <1>3, <1>4
    <3> HIDE DEF G
    <3> QED
      BY <3>1 DEF Sums
  <2>2. ASSUME v # {} PROVE G[v][v \ {y}] = G[v \ {y}][v \ {y}]
    <3>1. v \ {y} \in SUBSET S /\ v \ {y} \subseteq v /\ v \ {y} # S
      BY <1>4, <2>2
    <3>2. IsFiniteSet(v \ {y})
      BY <3>1, FS_Subset
    <3>3. Sums(w, G[v], v) /\ Sums(w, G[v \ {y}], v \ {y})
      BY <1>3, <1>4, <3>1
    <3> HIDE DEF G
    <3> QED
      BY <3>1, <3>2, <3>3, SumsAgree
  <2> QED
    BY <2>1, <2>2
<1>5. ASSUME NEW u \in SUBSET S
      PROVE  val[u] = IF u = {} THEN 0 ELSE w[Some(u)] + val[u \ {Some(u)}]
  <2>1. u # {} => u \ {Some(u)} \in SUBSET S /\ u \ {Some(u)} # S
    BY SomeIn
  <2>2. u # {} => val[u \ {Some(u)}] = G[u \ {Some(u)}][u \ {Some(u)}]
    BY <1>4, <2>1
  <2> QED
    BY <2>2
<1>6. Sums(w, val, S)
  <2> HIDE DEF G
  <2>1. val = [u \in SUBSET S |-> val[u]]
    OBVIOUS
  <2> QED
    BY <1>5, <2>1 DEF Sums
<1> QED
  BY <1>2, <1>6

(* The sum of nothing, and the sum from one element on. *)
LEMMA SumStep ==
  ASSUME NEW w, NEW T, IsFiniteSet(T)
  PROVE  SumOf(w, T) = IF T = {} THEN 0 ELSE w[Some(T)] + SumOf(w, T \ {Some(T)})
<1> DEFINE g == CHOOSE g : Sums(w, g, T)
           U == T \ {Some(T)}
           h == CHOOSE h : Sums(w, h, U)
<1>1. IsFiniteSet(U)
  BY FS_RemoveElement
<1>2. Sums(w, g, T) /\ Sums(w, h, U)
  BY <1>1, SumsExists
<1>3. SumOf(w, T) = g[T] /\ SumOf(w, U) = h[U]
  BY DEF SumOf
<1> HIDE DEF g, h
<1>4. g[U] = h[U]
  BY <1>1, <1>2, SumsAgree
<1>5. g[T] = IF T = {} THEN 0 ELSE w[Some(T)] + g[U]
  BY <1>2 DEF Sums
<1> QED
  BY <1>3, <1>4, <1>5

LEMMA SumType ==
  ASSUME NEW w, NEW T, IsFiniteSet(T), \A x \in T : w[x] \in Nat
  PROVE  SumOf(w, T) \in Nat
<1> DEFINE Bad == {S \in SUBSET T : SumOf(w, S) \notin Nat}
<1>1. SUFFICES ASSUME Bad # {} PROVE FALSE
  OBVIOUS
<1>2. PICK S \in Bad : \A U \in Bad : U \subseteq S => U = S
  <2>1. Bad \subseteq SUBSET T
    OBVIOUS
  <2> HIDE DEF Bad
  <2> QED
    BY <1>1, <2>1, SmallestSet
<1>3. IsFiniteSet(S)
  BY FS_Subset
<1>4. SumOf(w, S) = IF S = {} THEN 0 ELSE w[Some(S)] + SumOf(w, S \ {Some(S)})
  BY <1>3, SumStep
<1>5. S # {} => SumOf(w, S \ {Some(S)}) \in Nat /\ w[Some(S)] \in Nat
  BY <1>2, SomeIn
<1> QED
  BY <1>2, <1>4, <1>5

(* Any element may be taken out. *)
LEMMA SumRemove ==
  ASSUME NEW w, NEW T, IsFiniteSet(T), \A x \in T : w[x] \in Nat, NEW e \in T
  PROVE  SumOf(w, T) = w[e] + SumOf(w, T \ {e})
<1> DEFINE Removes(S) == \A x \in S : SumOf(w, S) = w[x] + SumOf(w, S \ {x})
           Bad == {S \in SUBSET T : ~ Removes(S)}
<1>1. SUFFICES ASSUME Bad # {} PROVE FALSE
  OBVIOUS
<1>2. PICK S \in Bad : \A U \in Bad : U \subseteq S => U = S
  <2>1. Bad \subseteq SUBSET T
    OBVIOUS
  <2> HIDE DEF Bad
  <2> QED
    BY <1>1, <2>1, SmallestSet
<1>3. PICK x \in S : SumOf(w, S) # w[x] + SumOf(w, S \ {x})
  OBVIOUS
<1> DEFINE y == Some(S)
<1> HIDE DEF y
<1>4. y \in S /\ SumOf(w, S) = w[y] + SumOf(w, S \ {y})
  BY FS_Subset, SumStep, SomeIn DEF y
<1>5. x # y
  BY <1>3, <1>4
<1>6. SumOf(w, S \ {y}) = w[x] + SumOf(w, (S \ {y}) \ {x})
  BY <1>2, <1>4, <1>5
<1>7. SumOf(w, S \ {x}) = w[y] + SumOf(w, (S \ {x}) \ {y})
  BY <1>2, <1>4, <1>5
<1>8. (S \ {y}) \ {x} = (S \ {x}) \ {y}
  OBVIOUS
<1>9. SumOf(w, (S \ {x}) \ {y}) \in Nat /\ w[x] \in Nat /\ w[y] \in Nat
  BY <1>4, FS_Subset, SumType
<1> HIDE DEF Bad
<1>10. SumOf(w, S) = w[x] + SumOf(w, S \ {x})
  BY <1>4, <1>6, <1>7, <1>8, <1>9
<1> QED
  BY <1>3, <1>10

LEMMA SumAdd ==
  ASSUME NEW w, NEW T, IsFiniteSet(T), NEW e, e \notin T, \A x \in T \cup {e} : w[x] \in Nat
  PROVE  SumOf(w, T \cup {e}) = w[e] + SumOf(w, T)
<1>1. IsFiniteSet(T \cup {e}) /\ (T \cup {e}) \ {e} = T
  BY FS_AddElement
<1> QED
  BY <1>1, SumRemove

-----------------------------------------------------------------------------
(* Tensors are finitely many, so that their sizes can be added up. *)
LEMMA TensorsFinite ==
  ASSUME NEW S \in SUBSET Tensors
  PROVE  IsFiniteSet(S)
<1>1. Layers \in Nat /\ Modules \in Nat
  BY ConstantsAssumption
<1>2. IsFiniteSet(1 .. Layers) /\ IsFiniteSet(1 .. Modules)
  BY <1>1, FS_Interval
<1>3. IsFiniteSet((1 .. Layers) \X (1 .. Modules))
  BY <1>2, FS_Product
<1>4. IsFiniteSet(Tensors)
  BY <1>3, FS_AddElement DEF Tensors
<1> QED
  BY <1>4, FS_Subset

(* Adding a tensor to a set adds its size. *)
LEMMA SizeAdd ==
  ASSUME NEW S \in SUBSET Tensors, NEW t \in Tensors, t \notin S
  PROVE  Size(S) \in Nat /\ SizeOf(t) \in Nat /\ Size(S \cup {t}) = Size(S) + SizeOf(t)
<1> DEFINE w == [u \in Tensors |-> SizeOf(u)]
<1>1. w[t] = SizeOf(t) /\ \A u \in Tensors : w[u] \in Nat
  BY SizesAssumption
<1>2. Size(S) = SumOf(w, S) /\ Size(S \cup {t}) = SumOf(w, S \cup {t})
  BY SizeIsSum
<1> HIDE DEF w
<1>3. SumOf(w, S) \in Nat /\ SumOf(w, S \cup {t}) = w[t] + SumOf(w, S)
  BY <1>1, TensorsFinite, SumType, SumAdd
<1> QED
  BY <1>1, <1>2, <1>3

(* What a shard may be, while it waits and when it is written. *)
Limited(S) == Cardinality(S) > 1 => Size(S) < PartFileSize

BuffersLimited == \A r \in Ranks : Limited(buffer[r])

LimitedInv == BuffersLimited /\ WithinLimit

LEMMA LimitedSingle == \A t : Limited({t})
BY FS_Singleton DEF Limited

LEMMA LimitedEmpty == Limited({})
BY FS_EmptySet DEF Limited

(* What a step does to the buffers and the shards. *)
LEMMA StepSaves ==
  ASSUME IInv, NEW r \in Ranks, Step(r) \/ Fail(r) \/ Terminate(r)
  PROVE  \/ UNCHANGED <<buffer, shards>>
         \/ \E t \in Tensors : Write(r, t)
         \/ SaveOneFile(r) /\ buffer' = [buffer EXCEPT ![r] = {}]
<1> USE DEF saveVars
<1>1. CASE SaveModule(r)
  <2>1. next[r] \in 1 .. Modules + 1 /\ layer[r] \in 1 .. Layers
    BY DEF IInv, TypeOK
  <2>2. next[r] <= Modules => <<layer[r], next[r]>> \in Tensors
    BY <2>1, ConstantsAssumption DEF Tensors
  <2> QED
    BY <1>1, <2>2 DEF SaveModule, Refused
<1>2. CASE SaveRest(r)
  BY <1>2 DEF SaveRest, Refused, Tensors
<1>3. CASE Flush(r)
  BY <1>3 DEF Flush, Refused
<1>4. CASE Construct(r) \/ Preprocess(r) \/ LayerSaved(r) \/ Rename(r)
  BY <1>4 DEF Construct, Preprocess, LayerSaved, Rename
<1>5. CASE Merge(r)
  BY <1>5 DEF Merge, CountFiles, Barrier, MergeSafetensorFiles, MergeIndexFiles, MergeJsonFiles
<1>6. CASE Finishing(r)
  BY <1>6 DEF Finishing, OpenConfig, WriteConfig, RemoveQuantizationConfig, SavePostprocess
<1>7. CASE Fail(r) \/ Terminate(r)
  BY <1>7 DEF Fail, Terminate
<1> QED
  BY <1>1, <1>2, <1>3, <1>4, <1>5, <1>6, <1>7 DEF Step, Saving

(* A buffer and shards within the limit stay so. *)
LEMMA KeepsLimited ==
  ASSUME IInv, LimitedInv, NEW r \in Ranks, NEW S, Limited(S),
         buffer' = [buffer EXCEPT ![r] = S],
         shards' = shards \/ shards' = [shards EXCEPT ![r] = Append(@, buffer[r])]
  PROVE  LimitedInv'
<1>1. buffer \in [Ranks -> SUBSET Tensors] /\ shards \in [Ranks -> Seq(SUBSET Tensors)]
  BY DEF IInv, TypeOK
<1>2. BuffersLimited'
  BY <1>1 DEF LimitedInv, BuffersLimited, Limited
<1>3. \A q \in Ranks : \A i \in DOMAIN shards[q] : Limited(shards[q][i])
  BY DEF LimitedInv, WithinLimit, Limited
<1>4. Limited(buffer[r])
  BY DEF LimitedInv, BuffersLimited
<1>5. ASSUME NEW q \in Ranks, NEW i \in DOMAIN shards'[q]
      PROVE  Limited(shards'[q][i])
  <2>1. CASE shards'[q] = shards[q]
    BY <1>3, <1>5, <2>1
  <2>2. CASE q = r /\ shards'[r] = Append(shards[r], buffer[r])
    BY <1>1, <1>3, <1>4, <1>5, <2>2
  <2> QED
    BY <1>1, <2>1, <2>2
<1>6. WithinLimit'
  BY <1>5 DEF WithinLimit, Limited
<1> QED
  BY <1>2, <1>6 DEF LimitedInv

LEMMA StepLimited ==
  ASSUME IInv, LimitedInv, NEW r \in Ranks, Step(r) \/ Fail(r) \/ Terminate(r)
  PROVE  LimitedInv'
<1>1. CASE UNCHANGED <<buffer, shards>>
  BY <1>1 DEF LimitedInv, BuffersLimited, WithinLimit, Limited
<1>2. CASE SaveOneFile(r) /\ buffer' = [buffer EXCEPT ![r] = {}]
  BY <1>2, LimitedEmpty, KeepsLimited DEF SaveOneFile
<1>3. ASSUME NEW t \in Tensors, Write(r, t)
      PROVE  LimitedInv'
  <2>1. CASE Spills(r, t)
    BY <1>3, <2>1, LimitedSingle, KeepsLimited DEF Write, SaveOneFile
  <2>2. CASE ~Spills(r, t)
    <3>1. buffer' = [buffer EXCEPT ![r] = buffer[r] \cup {t}] /\ shards' = shards
      BY <1>3, <2>2 DEF Write
    <3>2. buffer[r] \in SUBSET Tensors
      BY DEF IInv, TypeOK
    <3>3. Limited(buffer[r] \cup {t})
      <4>1. CASE buffer[r] = {}
        <5>1. buffer[r] \cup {t} = {t}
          BY <4>1
        <5> QED
          BY <5>1, LimitedSingle
      <4>2. CASE t \in buffer[r]
        <5>1. buffer[r] \cup {t} = buffer[r]
          BY <4>2
        <5> QED
          BY <5>1 DEF LimitedInv, BuffersLimited
      <4>3. CASE buffer[r] # {} /\ t \notin buffer[r]
        <5>1. /\ Size(buffer[r]) \in Nat /\ SizeOf(t) \in Nat
              /\ Size(buffer[r] \cup {t}) = Size(buffer[r]) + SizeOf(t)
          BY <3>2, <4>3, SizeAdd
        <5> QED
          BY <2>2, <4>3, <5>1, ConstantsAssumption DEF Spills, Limited
      <4> QED
        BY <4>1, <4>2, <4>3
    <3> QED
      BY <3>1, <3>3, KeepsLimited
  <2> QED
    BY <2>1, <2>2
<1> QED
  BY <1>1, <1>2, <1>3, StepSaves

(* Shards of several tensors stay below the limit of a file, whatever the  *)
(* sizes of the tensors and in whatever order a rank saves them.           *)
THEOREM LimitTheorem == Spec => []WithinLimit
<1>1. Init => LimitedInv
  BY LimitedEmpty DEF Init, LimitedInv, BuffersLimited, WithinLimit
<1>2. ASSUME IInv, LimitedInv, [Next]_vars
      PROVE  LimitedInv'
  <2>1. CASE UNCHANGED vars
    BY <1>2, <2>1 DEF vars, saveVars, LimitedInv, BuffersLimited, WithinLimit, Limited
  <2> QED
    BY <1>2, <2>1, StepLimited DEF Next, Over
<1>3. LimitedInv => WithinLimit
  BY DEF LimitedInv
<1> QED
  BY <1>1, <1>2, <1>3, Invariance, PTL DEF Spec

-----------------------------------------------------------------------------
(* The run ends: what can be proved of it.  Every step takes one rank on   *)
(* and none back, on a way that has an end; and the ranks never all wait   *)
(* for one another.                                                        *)

Stage(where) ==
  CASE where = "construct" -> 1 [] where = "preprocess" -> 2 [] where = "gather" -> 3
    [] where = "save" -> 4 [] where = "post_run" -> 5 [] where = "close" -> 6
    [] where = "rename" -> 7 [] where = "count" -> 8 [] where = "counting" -> 9
    [] where = "barrier" -> 10 [] where = "waiting" -> 11 [] where = "merge_files" -> 12
    [] where = "merge_index" -> 13 [] where = "merge_json" -> 14 [] where = "copy" -> 15
    [] where = "copying" -> 16 [] where = "remove" -> 17 [] where = "rewrite" -> 18
    [] where = "rewriting" -> 19 [] where = "postprocess" -> 20 [] where = "extend" -> 21
    [] where = "extending" -> 22 [] where = "done" -> 23 [] where = "failed" -> 24
    [] OTHER -> 25

(* A place in the code comes after another. *)
Later(a, b) == Stage(b) < Stage(a)

(* A rank goes on: to the next layer, in its layer, to the next module or, *)
(* merging, to the next directory.                                         *)
Further(r) ==
  \/ layer[r] < layer'[r]
  \/ layer[r] = layer'[r] /\ Later(pc'[r], pc[r])
  \/ layer[r] = layer'[r] /\ pc[r] = pc'[r] /\ next[r] + moved < next'[r] + moved'

Stays(r) ==
  layer[r] = layer'[r] /\ pc[r] = pc'[r] /\ next[r] = next'[r] /\ moved <= moved'

GoesForward ==
  [][\E r \in Ranks : Further(r) /\ \A q \in Ranks \ {r} : Stays(q)]_vars

(* A rank that waits for one that is behind. *)
Waits(r) == pc[r] \in Waiting /\ ~EveryoneEntered(r)

(* Not all that is left of the run waits, unless it is to be terminated. *)
NobodyStuck ==
  AllEnded
    \/ (\E q \in Ranks : pc[q] = "failed")
    \/ \E r \in Ranks : pc[r] \notin Ended /\ ~Waits(r)

(* Nobody is terminated without reason. *)
TerminatedByFailed ==
  (\E r \in Ranks : pc[r] = "terminated") => \E q \in Ranks : pc[q] = "failed"

(* What a step of a rank does to where the ranks are. *)
Moves(r) ==
  /\ pc[r] \notin Ended
  /\ pc'[r] = "terminated" => \E q \in Ranks : pc[q] = "failed"
  /\ Further(r)
  /\ \A q \in Ranks \ {r} : Stays(q)

LEMMA LaterPlaces ==
  /\ Later("preprocess", "construct") /\ Later("gather", "preprocess")
  /\ Later("save", "gather") /\ Later("post_run", "save") /\ Later("close", "post_run")
  /\ Later("rename", "close") /\ Later("count", "rename") /\ Later("counting", "count")
  /\ Later("barrier", "counting") /\ Later("waiting", "barrier")
  /\ Later("merge_files", "waiting") /\ Later("copy", "waiting")
  /\ Later("merge_index", "merge_files") /\ Later("merge_json", "merge_index")
  /\ Later("copy", "merge_json") /\ Later("copying", "copy") /\ Later("remove", "copying")
  /\ Later("rewrite", "remove") /\ Later("postprocess", "remove")
  /\ Later("rewriting", "rewrite") /\ Later("postprocess", "rewriting")
  /\ Later("extend", "postprocess") /\ Later("done", "postprocess")
  /\ Later("extending", "extend") /\ Later("done", "extending")
  /\ \A w \in PCs \ Ended : Later("failed", w) /\ Later("terminated", w)
<1>1. /\ Stage("construct") = 1 /\ Stage("preprocess") = 2 /\ Stage("gather") = 3
      /\ Stage("save") = 4 /\ Stage("post_run") = 5 /\ Stage("close") = 6
      /\ Stage("rename") = 7 /\ Stage("count") = 8 /\ Stage("counting") = 9
      /\ Stage("barrier") = 10 /\ Stage("waiting") = 11 /\ Stage("merge_files") = 12
  BY DEF Stage
<1>2. /\ Stage("merge_index") = 13 /\ Stage("merge_json") = 14 /\ Stage("copy") = 15
      /\ Stage("copying") = 16 /\ Stage("remove") = 17 /\ Stage("rewrite") = 18
      /\ Stage("rewriting") = 19 /\ Stage("postprocess") = 20 /\ Stage("extend") = 21
      /\ Stage("extending") = 22 /\ Stage("done") = 23 /\ Stage("failed") = 24
      /\ Stage("terminated") = 25
  BY DEF Stage
<1>3. \A w \in PCs \ Ended : Stage(w) < 24 /\ Stage(w) \in Int
  BY <1>1, <1>2 DEF PCs, Ended, Merging
<1> QED
  BY <1>1, <1>2, <1>3 DEF Later

(* A rank goes to a later place and nothing else of it changes. *)
LEMMA GotoMoves ==
  ASSUME TypeOK, NEW r \in Ranks, pc[r] \notin Ended, NEW where, Goto(r, where),
         Later(where, pc[r]),
         where = "terminated" => \E q \in Ranks : pc[q] = "failed",
         UNCHANGED <<layer, next, moved>>
  PROVE  Moves(r)
<1>1. pc' = [pc EXCEPT ![r] = where] /\ pc \in [Ranks -> PCs] /\ moved \in Nat
  BY ConstantsAssumption DEF TypeOK
<1>2. pc'[r] = where /\ \A q \in Ranks \ {r} : pc'[q] = pc[q]
  BY <1>1
<1> QED
  BY <1>1, <1>2 DEF Moves, Further, Stays

LEMMA SavingMoves == ASSUME IInv, NEW r \in Ranks, Saving(r) PROVE Moves(r)
<1>1. TypeOK /\ pc \in [Ranks -> PCs] /\ moved \in Nat
  BY ConstantsAssumption DEF IInv, TypeOK
<1>2. /\ layer \in [Ranks -> 1 .. Layers] /\ next \in [Ranks -> 1 .. Modules + 1]
      /\ Layers \in Nat /\ Modules \in Nat
  BY ConstantsAssumption DEF IInv, TypeOK
<1>3. CASE Construct(r)
  BY <1>1, <1>3, GotoMoves, LaterPlaces DEF Construct, Ended, saveVars, mergeVars
<1>4. CASE Preprocess(r)
  <2>1. UNCHANGED <<layer, next, moved>>
    BY <1>4 DEF Preprocess, saveVars, mergeVars
  <2>2. \/ pc[r] = "preprocess" /\ Goto(r, "gather")
        \/ pc[r] = "gather" /\ Goto(r, "save")
    BY <1>4 DEF Preprocess, Enter, Leave
  <2> QED
    BY <1>1, <2>1, <2>2, GotoMoves, LaterPlaces DEF Ended
<1>5. CASE SaveModule(r)
  <2>1. pc[r] = "save" /\ moved' = moved
    BY <1>5 DEF SaveModule, mergeVars
  <2>2. CASE pc' = pc /\ layer' = layer /\ next' = [next EXCEPT ![r] = @ + 1]
    <3>1. next'[r] = next[r] + 1 /\ \A q \in Ranks \ {r} : next'[q] = next[q]
      BY <1>2, <2>2
    <3>2. next[r] \in Nat
      BY <1>2
    <3>3. Further(r) /\ \A q \in Ranks \ {r} : Stays(q)
      BY <1>1, <2>1, <2>2, <3>1, <3>2 DEF Further, Stays
    <3> QED
      BY <2>1, <2>2, <3>3 DEF Moves, Ended
  <2>3. CASE Goto(r, "failed") /\ UNCHANGED saveVars
    <3>1. pc[r] \in PCs \ Ended
      BY <2>1 DEF PCs, Ended
    <3> QED
      BY <1>1, <2>1, <2>3, <3>1, GotoMoves, LaterPlaces DEF saveVars
  <2> QED
    BY <1>5, <2>2, <2>3 DEF SaveModule, Refused
<1>6. CASE LayerSaved(r)
  <2>1. pc[r] = "save" /\ moved' = moved
    BY <1>6 DEF LayerSaved, mergeVars
  <2>2. CASE /\ layer' = [layer EXCEPT ![r] = @ + 1]
             /\ next' = [next EXCEPT ![r] = 1]
             /\ Goto(r, "preprocess")
    <3>1. /\ layer'[r] = layer[r] + 1 /\ layer[r] \in Nat
          /\ \A q \in Ranks \ {r} : layer'[q] = layer[q] /\ next'[q] = next[q] /\ pc'[q] = pc[q]
      BY <1>1, <1>2, <2>2
    <3>2. pc'[r] = "preprocess"
      BY <1>1, <2>2
    <3> QED
      BY <1>1, <2>1, <3>1, <3>2 DEF Moves, Further, Stays, Ended
  <2>3. CASE Goto(r, "post_run") /\ UNCHANGED <<layer, next>>
    BY <1>1, <2>1, <2>3, GotoMoves, LaterPlaces DEF Ended
  <2> QED
    BY <1>6, <2>2, <2>3 DEF LayerSaved
<1>7. CASE SaveRest(r) \/ Flush(r) \/ Rename(r)
  <2>1. UNCHANGED <<layer, next, moved>>
    BY <1>7 DEF SaveRest, Flush, Rename, saveVars, mergeVars
  <2>2. \/ pc[r] = "post_run" /\ (Goto(r, "close") \/ Goto(r, "failed"))
        \/ pc[r] = "close" /\ (Goto(r, "rename") \/ Goto(r, "failed"))
        \/ pc[r] = "rename" /\ Goto(r, "count")
    BY <1>7 DEF SaveRest, Flush, Rename, Refused
  <2>3. pc[r] \in PCs \ Ended
    BY <2>2 DEF PCs, Ended
  <2> QED
    BY <1>1, <2>1, <2>2, <2>3, GotoMoves, LaterPlaces
<1> QED
  BY <1>3, <1>4, <1>5, <1>6, <1>7 DEF Saving

LEMMA MergeMoves == ASSUME IInv, NEW r \in Ranks, Merge(r) PROVE Moves(r)
<1>1. TypeOK /\ pc \in [Ranks -> PCs] /\ moved \in Nat
  BY ConstantsAssumption DEF IInv, TypeOK
<1>2. CASE CountFiles(r) \/ Barrier(r) \/ MergeIndexFiles(r) \/ MergeJsonFiles(r)
  <2>1. UNCHANGED <<layer, next, moved>>
    BY <1>2 DEF CountFiles, Barrier, MergeIndexFiles, MergeJsonFiles, saveVars, mergeVars
  <2>2. \/ pc[r] = "count" /\ Goto(r, "counting")
        \/ pc[r] = "counting" /\ Goto(r, "barrier")
        \/ pc[r] = "barrier" /\ Goto(r, "waiting")
        \/ pc[r] = "waiting" /\ (Goto(r, "merge_files") \/ Goto(r, "copy"))
        \/ pc[r] = "merge_index" /\ Goto(r, "merge_json")
        \/ pc[r] = "merge_json" /\ Goto(r, "copy")
    BY <1>2 DEF CountFiles, Barrier, MergeIndexFiles, MergeJsonFiles, Enter, Leave
  <2> QED
    BY <1>1, <2>1, <2>2, GotoMoves, LaterPlaces DEF Ended
<1>3. CASE MergeSafetensorFiles(r)
  <2>1. pc[r] = "merge_files" /\ UNCHANGED <<layer, next>>
    BY <1>3 DEF MergeSafetensorFiles, saveVars
  <2>2. CASE moved' = moved + 1 /\ pc' = pc
    <3>1. next[r] \in Int
      BY ConstantsAssumption DEF IInv, TypeOK
    <3>2. Further(r) /\ \A q \in Ranks \ {r} : Stays(q)
      BY <1>1, <2>1, <2>2, <3>1 DEF Further, Stays
    <3> QED
      BY <2>1, <2>2, <3>2 DEF Moves, Ended
  <2>3. CASE moved' = moved /\ Goto(r, "merge_index")
    BY <1>1, <2>1, <2>3, GotoMoves, LaterPlaces DEF Ended
  <2> QED
    BY <1>3, <2>2, <2>3 DEF MergeSafetensorFiles
<1> QED
  BY <1>2, <1>3 DEF Merge

LEMMA FinishingMoves == ASSUME IInv, NEW r \in Ranks, Finishing(r) PROVE Moves(r)
<1>1. TypeOK
  BY DEF IInv
<1>2. UNCHANGED <<layer, next, moved>>
  BY DEF Finishing, OpenConfig, WriteConfig, RemoveQuantizationConfig, SavePostprocess,
     saveVars, mergeVars
<1>3. \/ pc[r] = "copy" /\ Goto(r, "copying")
      \/ pc[r] = "copying" /\ Goto(r, "remove")
      \/ pc[r] = "remove" /\ (Goto(r, "rewrite") \/ Goto(r, "postprocess"))
      \/ pc[r] = "rewrite" /\ Goto(r, "rewriting")
      \/ pc[r] = "rewriting" /\ Goto(r, "postprocess")
      \/ pc[r] = "postprocess" /\ (Goto(r, "extend") \/ Goto(r, "done") \/ Goto(r, "failed"))
      \/ pc[r] = "extend" /\ Goto(r, "extending")
      \/ pc[r] = "extending" /\ Goto(r, "done")
  BY DEF Finishing, OpenConfig, WriteConfig, RemoveQuantizationConfig, SavePostprocess
<1>4. pc[r] \in PCs \ Ended
  BY <1>3 DEF PCs, Ended
<1> QED
  BY <1>1, <1>2, <1>3, <1>4, GotoMoves, LaterPlaces

LEMMA EndMoves == ASSUME IInv, NEW r \in Ranks, Fail(r) \/ Terminate(r) PROVE Moves(r)
<1>1. TypeOK /\ UNCHANGED <<layer, next, moved>> /\ pc[r] \in PCs \ Ended
  BY DEF IInv, TypeOK, Fail, Terminate, saveVars, mergeVars
<1>2. \/ Goto(r, "failed")
      \/ Goto(r, "terminated") /\ \E q \in Ranks : pc[q] = "failed"
  BY DEF Fail, Terminate
<1> QED
  BY <1>1, <1>2, GotoMoves, LaterPlaces

LEMMA NextMoves ==
  ASSUME IInv, Next
  PROVE  (\E r \in Ranks : Moves(r)) \/ UNCHANGED vars
  BY SavingMoves, MergeMoves, FinishingMoves, EndMoves DEF Next, Step, Over

(* Every step takes one rank further, the others not back.  Layers,        *)
(* places, modules and directories are bounded, by TypeOK: for every       *)
(* number of ranks a run has finitely many steps.                          *)
THEOREM ForwardTheorem == Spec => GoesForward
<1>1. IInv /\ [Next]_vars => [\E r \in Ranks : Further(r) /\ \A q \in Ranks \ {r} : Stays(q)]_vars
  <2> SUFFICES ASSUME IInv, Next, ~UNCHANGED vars
               PROVE  \E r \in Ranks : Further(r) /\ \A q \in Ranks \ {r} : Stays(q)
    OBVIOUS
  <2>1. PICK r \in Ranks : Moves(r)
    BY NextMoves
  <2> QED
    BY <2>1 DEF Moves
<1> QED
  BY <1>1, Invariance, PTL DEF Spec, GoesForward

LEMMA ReasonKept == ASSUME IInv, TerminatedByFailed, [Next]_vars PROVE TerminatedByFailed'
<1>1. CASE UNCHANGED vars
  BY <1>1 DEF TerminatedByFailed, vars
<1>2. CASE \E r \in Ranks : Moves(r)
  <2>1. PICK r \in Ranks : Moves(r)
    BY <1>2
  <2>2. \A q \in Ranks : pc[q] = "failed" => pc'[q] = "failed"
    BY <2>1 DEF Moves, Stays, Ended
  <2>3. \A q \in Ranks : pc'[q] = "terminated" => \E p \in Ranks : pc[p] = "failed"
    BY <2>1 DEF Moves, Stays, TerminatedByFailed
  <2> QED
    BY <2>2, <2>3 DEF TerminatedByFailed
<1> QED
  BY <1>1, <1>2, NextMoves

(* Of some bounded numbers one is the least. *)
LEMMA Least ==
  ASSUME NEW n \in Nat, NEW S, S \subseteq 0 .. n, S # {}
  PROVE  \E c \in S : \A d \in S : c <= d
<1> DEFINE T == 0 .. n
           Bad == {V \in SUBSET T : \E c \in S : V = 0 .. c}
<1>1. \A c \in S : c \in Nat /\ 0 .. c \in Bad
  OBVIOUS
<1>2. IsFiniteSet(T)
  BY FS_Interval
<1>3. PICK U \in Bad : \A V \in Bad : V \subseteq U => V = U
  <2>1. Bad \subseteq SUBSET T
    OBVIOUS
  <2>2. Bad # {}
    BY <1>1
  <2> HIDE DEF Bad, T
  <2> QED
    BY ONLY <1>2, <2>1, <2>2, SmallestSet
<1>4. PICK c \in S : U = 0 .. c
  BY <1>3
<1>5. ASSUME NEW d \in S PROVE c <= d
  <2>1. c \in Nat /\ d \in Nat
    BY <1>1
  <2>2. ASSUME d < c PROVE FALSE
    <3>1. 0 .. d \in Bad /\ 0 .. d \subseteq U
      BY <1>1, <1>4, <2>1, <2>2
    <3>2. 0 .. d = U
      BY <1>3, <3>1
    <3>3. c \in 0 .. d
      BY <1>4, <2>1, <3>2
    <3> QED
      BY <2>1, <2>2, <3>3
  <2> QED
    BY <2>1, <2>2
<1> QED
  BY <1>5

(* Of the ranks that wait, one that has entered the fewest collectives may *)
(* leave: one that is done has entered them all.                           *)
LEMMA FewestLeaves == ASSUME IInv, TerminatedByFailed PROVE NobodyStuck
<1> SUFFICES ASSUME ~AllEnded, \A q \in Ranks : pc[q] # "failed"
             PROVE  \E r \in Ranks : pc[r] \notin Ended /\ ~Waits(r)
  BY DEF NobodyStuck
<1> DEFINE Counts == {calls[r] : r \in {q \in Ranks : pc[q] \notin Ended}}
<1>1. calls \in [Ranks -> 0 .. Layers + 2] /\ Layers \in Nat
  BY ConstantsAssumption DEF IInv, TypeOK
<1>2. Counts # {} /\ Counts \subseteq 0 .. Layers + 2
  BY <1>1 DEF AllEnded
<1>3. PICK c \in Counts : \A d \in Counts : c <= d
  <2> DEFINE top == Layers + 2
  <2>1. top \in Nat
    BY <1>1
  <2>2. Counts \subseteq 0 .. top /\ Counts # {}
    BY <1>2
  <2> HIDE DEF Counts, top
  <2> QED
    BY ONLY <2>1, <2>2, Least
<1>4. PICK r \in Ranks : pc[r] \notin Ended /\ calls[r] = c
  OBVIOUS
<1>5. ASSUME NEW q \in Ranks PROVE calls[r] <= calls[q]
  <2>1. CASE pc[q] \notin Ended
    BY <1>3, <1>4, <2>1
  <2>2. CASE pc[q] = "done"
    <3>1. calls[q] = Layers + 2
      BY <2>2 DEF IInv, InStep, Fits, AfterBarrier
    <3> QED
      BY <1>1, <3>1
  <2>3. pc[q] # "terminated" /\ pc[q] # "failed"
    BY DEF TerminatedByFailed
  <2> QED
    BY <2>1, <2>2, <2>3 DEF Ended
<1>6. EveryoneEntered(r)
  BY <1>1, <1>5 DEF EveryoneEntered
<1> QED
  BY <1>4, <1>6 DEF Waits

(* No deadlock, for any number of ranks: while the run goes on some rank   *)
(* does not wait for another in a collective, or one has failed and all    *)
(* will be terminated.                                                     *)
THEOREM NoDeadlock == Spec => []NobodyStuck
<1>1. Init => TerminatedByFailed
  BY DEF Init, TerminatedByFailed
<1>2. IInv /\ TerminatedByFailed => NobodyStuck
  BY FewestLeaves
<1> QED
  BY <1>1, <1>2, ReasonKept, Invariance, PTL DEF Spec

-------------------------------------------------------------------------------
(* What is saved: ranks save every tensor between them, the index is       *)
(* published when they have, and, if modules are on all ranks or on one,   *)
(* no tensor is saved twice.  At the end, that the merge gives no file the *)
(* name of another and that the index is right.  For any number of ranks,  *)
(* layers and modules, any placement, any leftovers, and failures          *)
(* anywhere.                                                               *)

InLayers == (1 .. Layers) \X (1 .. Modules)

(* What a rank has gone by, and what it is to save.                        *)
Past(r) == {t \in InLayers : t[1] < layer[r] \/ (t[1] = layer[r] /\ t[2] < next[r])}
Own(r) == {t \in InLayers : SaveOnThisRank(r, t[2])}

BeforeRest == {"construct", "preprocess", "gather", "save", "post_run"}
BeforeRename == BeforeRest \cup {"close", "rename"}
BeforeIndex == BeforeRest \cup {"close", "rename", "count", "counting", "barrier", "waiting",
                                "merge_files", "merge_index"}

(* A rank is through with its layers, and with what is in no layer.        *)
LayersDone(r) == pc[r] \in InPostRun \/ calls[r] > Layers
RestDone(r) == pc[r] \in {"close", "rename", "count"} \/ calls[r] > Layers

Saved ==
  \A r \in Ranks :
    /\ SavedBy(r) \ {Rest} = Past(r) \cap Own(r)
    /\ LayersDone(r) => layer[r] = Layers /\ next[r] > Modules
    /\ Rest \in SavedBy(r) => r = 0 /\ pc[r] \notin BeforeRest
    /\ r = 0 /\ RestDone(r) => Rest \in SavedBy(r)

(* The files of a rank, from the renaming to the merge and after it.       *)
HasFiles ==
  \A r \in Ranks : pc[r] = "count" \/ calls[r] > Layers =>
    Numbered(r) \subseteq (IF r < moved THEN DOMAIN mapped[r] ELSE DOMAIN dirs[r])

(* Nothing is merged before all are through, no index made before rank 0   *)
(* makes it.                                                               *)
MergeLate ==
  /\ DOMAIN mapped = Ranks
  /\ moved > 0 \/ DOMAIN index # {} => \A r \in Ranks : calls[r] > Layers
  /\ pc[0] \in BeforeIndex => DOMAIN index = {}

SInv == Saved /\ HasFiles /\ MergeLate

InShards(r) == UNION {shards[r][i] : i \in DOMAIN shards[r]}

USE DEF Goto

-----------------------------------------------------------------------------
(* What is saved grows by the tensor that is written, and by that only.    *)

LEMMA Stored ==
  ASSUME NEW s \in Seq(SUBSET Tensors), NEW b \in SUBSET Tensors
  PROVE  UNION {Append(s, b)[i] : i \in DOMAIN Append(s, b)} = (UNION {s[i] : i \in DOMAIN s}) \cup b
<1> DEFINE a == Append(s, b)
<1>1. /\ Len(s) \in Nat /\ DOMAIN s = 1 .. Len(s) /\ DOMAIN a = 1 .. Len(s) + 1
      /\ a[Len(s) + 1] = b /\ \A i \in 1 .. Len(s) : a[i] = s[i]
  OBVIOUS
<1> HIDE DEF a
<1>2. ASSUME NEW x \in UNION {a[i] : i \in DOMAIN a}
      PROVE  x \in (UNION {s[i] : i \in DOMAIN s}) \cup b
  <2>1. PICK i \in DOMAIN a : x \in a[i]
    BY <1>2
  <2>2. i = Len(s) + 1 \/ i \in 1 .. Len(s)
    BY <1>1
  <2> QED
    BY <1>1, <2>1, <2>2
<1>3. ASSUME NEW x \in (UNION {s[i] : i \in DOMAIN s}) \cup b
      PROVE  x \in UNION {a[i] : i \in DOMAIN a}
  <2>1. CASE x \in b
    <3>1. Len(s) + 1 \in DOMAIN a
      BY <1>1
    <3> QED
      BY <1>1, <2>1, <3>1
  <2>2. CASE x \in UNION {s[i] : i \in DOMAIN s}
    <3>1. PICK i \in DOMAIN s : x \in s[i]
      BY <2>2
    <3>2. i \in DOMAIN a /\ a[i] = s[i]
      BY <1>1, <3>1
    <3> QED
      BY <3>1, <3>2
  <2> QED
    BY <1>3, <2>1, <2>2
<1> QED
  BY <1>2, <1>3 DEF a

LEMMA SaveTypes ==
  ASSUME IInv
  PROVE  /\ buffer \in [Ranks -> SUBSET Tensors] /\ shards \in [Ranks -> Seq(SUBSET Tensors)]
         /\ layer \in [Ranks -> 1 .. Layers] /\ next \in [Ranks -> 1 .. Modules + 1]
         /\ pc \in [Ranks -> PCs] /\ calls \in [Ranks -> 0 .. Layers + 2]
         /\ Layers \in Nat \ {0} /\ Modules \in Nat \ {0}
BY ConstantsAssumption DEF IInv, TypeOK

LEMMA FileSaves ==
  ASSUME IInv, NEW r \in Ranks, SaveOneFile(r)
  PROVE  /\ InShards(r)' = InShards(r) \cup buffer[r]
         /\ \A q \in Ranks \ {r} : shards'[q] = shards[q]
<1>1. shards' = [shards EXCEPT ![r] = Append(shards[r], buffer[r])]
  BY DEF SaveOneFile
<1>2. shards'[r] = Append(shards[r], buffer[r]) /\ \A q \in Ranks \ {r} : shards'[q] = shards[q]
  BY <1>1, SaveTypes
<1>3. shards[r] \in Seq(SUBSET Tensors) /\ buffer[r] \in SUBSET Tensors
  BY SaveTypes
<1> QED
  BY <1>2, <1>3, Stored DEF InShards

LEMMA WriteSaves ==
  ASSUME IInv, NEW r \in Ranks, NEW t \in Tensors, Write(r, t)
  PROVE  /\ SavedBy(r)' = SavedBy(r) \cup {t}
         /\ \A q \in Ranks \ {r} : SavedBy(q)' = SavedBy(q)
<1>1. CASE ~Spills(r, t)
  <2>1. UNCHANGED shards /\ buffer'[r] = buffer[r] \cup {t} /\ \A q \in Ranks \ {r} : buffer'[q] = buffer[q]
    BY <1>1, SaveTypes DEF Write
  <2> QED
    BY <2>1 DEF SavedBy
<1>2. CASE Spills(r, t)
  <2>1. SaveOneFile(r) /\ buffer'[r] = {t} /\ \A q \in Ranks \ {r} : buffer'[q] = buffer[q]
    BY <1>2, SaveTypes DEF Write
  <2> QED
    BY <2>1, FileSaves DEF SavedBy, InShards
<1> QED
  BY <1>1, <1>2

LEMMA FlushSaves ==
  ASSUME IInv, NEW r \in Ranks, Flush(r)
  PROVE  \A q \in Ranks : SavedBy(q)' = SavedBy(q)
<1>1. CASE UNCHANGED <<buffer, shards>>
  BY <1>1 DEF SavedBy
<1>2. CASE SaveOneFile(r) /\ buffer' = [buffer EXCEPT ![r] = {}]
  <2>1. buffer'[r] = {} /\ \A q \in Ranks \ {r} : buffer'[q] = buffer[q]
    BY <1>2, SaveTypes
  <2> QED
    BY <1>2, <2>1, FileSaves DEF SavedBy, InShards
<1> QED
  BY <1>1, <1>2 DEF Flush, Refused, saveVars

-----------------------------------------------------------------------------
(* Saved: a rank has saved what it is to save of what it has gone by.      *)

LEMMA InitSaved == Init => Saved
<1> SUFFICES ASSUME Init, NEW r \in Ranks
             PROVE  /\ SavedBy(r) \ {Rest} = Past(r) \cap Own(r)
                    /\ ~LayersDone(r) /\ ~RestDone(r) /\ Rest \notin SavedBy(r)
  BY DEF Saved
<1>1. buffer[r] = {} /\ shards[r] = <<>> /\ layer[r] = 1 /\ next[r] = 1
  BY DEF Init
<1>2. SavedBy(r) = {}
  BY <1>1 DEF SavedBy
<1>3. Past(r) = {}
  BY <1>1 DEF Past, InLayers
<1>4. pc[r] = "construct" /\ calls[r] = 0
  BY DEF Init
<1>5. ~LayersDone(r) /\ ~RestDone(r)
  BY <1>4, ConstantsAssumption DEF LayersDone, RestDone, InPostRun
<1> QED
  BY <1>2, <1>3, <1>5

(* Steps that save nothing and do not go back.                             *)
OnlyOn ==
  \A q \in Ranks :
    /\ LayersDone(q)' => LayersDone(q)
    /\ RestDone(q)' => RestDone(q)
    /\ pc'[q] \in BeforeRest => pc[q] \in BeforeRest

LEMMA KeepsSaved ==
  ASSUME Saved, UNCHANGED saveVars, OnlyOn
  PROVE  Saved'
<1> SUFFICES ASSUME NEW r \in Ranks
             PROVE  /\ SavedBy(r)' \ {Rest} = (Past(r) \cap Own(r))'
                    /\ LayersDone(r)' => layer'[r] = Layers /\ next'[r] > Modules
                    /\ Rest \in SavedBy(r)' => r = 0 /\ pc'[r] \notin BeforeRest
                    /\ r = 0 /\ RestDone(r)' => Rest \in SavedBy(r)'
  BY DEF Saved
<1>1. SavedBy(r)' = SavedBy(r) /\ Past(r)' = Past(r) /\ Own(r)' = Own(r)
  BY DEF saveVars, SavedBy, Past, Own, SaveOnThisRank, LocalOnly, Shared, SharedSlice
<1>2. layer' = layer /\ next' = next
  BY DEF saveVars
<1> QED
  BY <1>1, <1>2 DEF Saved, OnlyOn

LEMMA MovesOn ==
  ASSUME IInv, NEW r \in Ranks, NEW where, pc' = [pc EXCEPT ![r] = where], calls' = calls,
         where \in BeforeRest => pc[r] \in BeforeRest,
         where \in InPostRun => pc[r] \in InPostRun,
         where \in {"close", "rename", "count"} => pc[r] \in {"close", "rename", "count"}
  PROVE  OnlyOn
<1>1. pc'[r] = where /\ \A q \in Ranks \ {r} : pc'[q] = pc[q]
  BY SaveTypes
<1>2. ASSUME NEW q \in Ranks
      PROVE  /\ LayersDone(q)' => LayersDone(q)
             /\ RestDone(q)' => RestDone(q)
             /\ pc'[q] \in BeforeRest => pc[q] \in BeforeRest
  <2>1. CASE q = r
    BY <1>1, <2>1 DEF LayersDone, RestDone
  <2>2. CASE q # r
    BY <1>1, <2>2 DEF LayersDone, RestDone
  <2> QED
    BY <2>1, <2>2
<1> QED
  BY <1>2 DEF OnlyOn

(* Places a rank goes to when it has nothing more to save.                 *)
AfterSaving == AfterBarrier \cup {"failed", "terminated"}

LEMMA MovesAway ==
  ASSUME IInv, NEW r \in Ranks, NEW where \in AfterSaving,
         pc' \in {pc, [pc EXCEPT ![r] = where]}, calls' = calls
  PROVE  OnlyOn
<1>1. CASE pc' = pc
  BY <1>1 DEF OnlyOn, LayersDone, RestDone
<1>2. CASE pc' = [pc EXCEPT ![r] = where]
  <2>1. where \notin BeforeRest /\ where \notin InPostRun
    BY DEF AfterSaving, AfterBarrier, Merging, BeforeRest, InPostRun
  <2>2. where \notin {"close", "rename", "count"}
    BY <2>1 DEF InPostRun
  <2> QED
    BY <1>2, <2>1, <2>2, MovesOn
<1> QED
  BY <1>1, <1>2

(* Entering a collective, from where the rank had saved what it has to.    *)
LEMMA EntersOn ==
  ASSUME IInv, NEW r \in Ranks, NEW where, pc' = [pc EXCEPT ![r] = where],
         calls' \in {calls, [calls EXCEPT ![r] = @ + 1]},
         where \in BeforeRest => pc[r] \in BeforeRest,
         where \notin InPostRun,
         calls'[r] <= Layers \/ calls[r] > Layers \/ pc[r] = "count"
  PROVE  OnlyOn
<1>1. pc'[r] = where /\ \A q \in Ranks \ {r} : pc'[q] = pc[q] /\ calls'[q] = calls[q]
  BY SaveTypes
<1>2. calls[r] \in Int /\ calls'[r] \in Int /\ Layers \in Int
  BY SaveTypes
<1>3. ASSUME NEW q \in Ranks
      PROVE  /\ LayersDone(q)' => LayersDone(q)
             /\ RestDone(q)' => RestDone(q)
             /\ pc'[q] \in BeforeRest => pc[q] \in BeforeRest
  <2>1. CASE q = r
    BY <1>1, <1>2, <2>1 DEF LayersDone, RestDone, InPostRun
  <2>2. CASE q # r
    BY <1>1, <2>2 DEF LayersDone, RestDone
  <2> QED
    BY <2>1, <2>2
<1> QED
  BY <1>3 DEF OnlyOn

LEMMA QuietSteps ==
  ASSUME IInv, NEW r \in Ranks,
         \/ Construct(r) \/ Preprocess(r) \/ Rename(r) \/ Merge(r)
         \/ Finishing(r) \/ Fail(r) \/ Terminate(r)
  PROVE  UNCHANGED saveVars /\ OnlyOn
<1>1. CASE Construct(r)
  <2>1. pc' = [pc EXCEPT ![r] = "preprocess"] /\ calls' = calls /\ pc[r] = "construct"
    BY <1>1 DEF Construct
  <2>2. "preprocess" \notin InPostRun /\ pc[r] \in BeforeRest
    BY <2>1 DEF InPostRun, BeforeRest
  <2>3. OnlyOn
    BY <2>1, <2>2, MovesOn
  <2> QED
    BY <1>1, <2>3 DEF Construct
<1>2. CASE Preprocess(r)
  <2>1. PICK where \in {"gather", "save"} :
          /\ pc' = [pc EXCEPT ![r] = where] /\ pc[r] \in {"preprocess", "gather"}
          /\ calls' = calls \/ (pc[r] = "preprocess" /\ calls' = [calls EXCEPT ![r] = @ + 1])
    BY <1>2 DEF Preprocess, Enter, Leave
  <2>2. calls'[r] <= Layers
    BY <2>1, SaveTypes, Where DEF Fits
  <2>3. where \notin InPostRun /\ pc[r] \in BeforeRest
    BY <2>1 DEF InPostRun, BeforeRest
  <2>4. OnlyOn
    BY <2>1, <2>2, <2>3, EntersOn
  <2> QED
    BY <1>2, <2>4 DEF Preprocess
<1>3. CASE Rename(r)
  <2>1. pc' = [pc EXCEPT ![r] = "count"] /\ calls' = calls /\ pc[r] = "rename"
    BY <1>3 DEF Rename
  <2>2. "count" \notin BeforeRest /\ pc[r] \in InPostRun
    BY <2>1 DEF InPostRun, BeforeRest
  <2>3. OnlyOn
    BY <2>1, <2>2, MovesOn
  <2> QED
    BY <1>3, <2>3 DEF Rename
<1>4. CASE CountFiles(r) \/ Barrier(r)
  <2>1. PICK where \in {"counting", "barrier", "waiting", "merge_files", "copy"} :
          /\ pc' = [pc EXCEPT ![r] = where]
          /\ pc[r] \in {"count", "counting", "barrier", "waiting"}
          /\ calls' \in {calls, [calls EXCEPT ![r] = @ + 1]}
    BY <1>4 DEF CountFiles, Barrier, Enter, Leave
  <2>2. pc[r] = "count" \/ calls[r] > Layers
    BY <2>1, Where DEF Fits, AfterBarrier
  <2>3. where \notin BeforeRest /\ where \notin InPostRun
    BY DEF BeforeRest, InPostRun
  <2>4. OnlyOn
    BY <2>1, <2>2, <2>3, EntersOn
  <2>5. UNCHANGED saveVars
    BY <1>4 DEF CountFiles, Barrier
  <2> QED
    BY <2>4, <2>5
<1>5. CASE MergeSafetensorFiles(r) \/ MergeIndexFiles(r) \/ MergeJsonFiles(r)
  <2>1. PICK where \in {"merge_files", "merge_index", "merge_json", "copy"} :
          pc' \in {pc, [pc EXCEPT ![r] = where]}
    BY <1>5 DEF MergeSafetensorFiles, MergeIndexFiles, MergeJsonFiles
  <2>2. UNCHANGED saveVars /\ UNCHANGED calls
    BY <1>5 DEF MergeSafetensorFiles, MergeIndexFiles, MergeJsonFiles
  <2>3. where \in AfterSaving
    BY DEF AfterSaving, AfterBarrier, Merging
  <2> QED
    BY <2>1, <2>2, <2>3, MovesAway
<1>6. CASE Finishing(r)
  <2>1. PICK where \in {"copying", "rewriting", "extending", "remove", "postprocess", "done",
                        "rewrite", "extend", "failed"} : pc' = [pc EXCEPT ![r] = where]
    BY <1>6 DEF Finishing, OpenConfig, WriteConfig, RemoveQuantizationConfig, SavePostprocess
  <2>2. UNCHANGED saveVars /\ UNCHANGED calls
    BY <1>6 DEF Finishing, OpenConfig, WriteConfig, RemoveQuantizationConfig, SavePostprocess
  <2>3. where \in AfterSaving
    BY DEF AfterSaving, AfterBarrier
  <2> QED
    BY <2>1, <2>2, <2>3, MovesAway
<1>7. CASE Fail(r) \/ Terminate(r)
  <2>1. PICK where \in {"failed", "terminated"} : pc' = [pc EXCEPT ![r] = where]
    BY <1>7 DEF Fail, Terminate
  <2>2. UNCHANGED saveVars /\ UNCHANGED calls
    BY <1>7 DEF Fail, Terminate
  <2>3. where \in AfterSaving
    BY DEF AfterSaving
  <2> QED
    BY <2>1, <2>2, <2>3, MovesAway
<1> QED
  BY <1>1, <1>2, <1>3, <1>4, <1>5, <1>6, <1>7 DEF Merge

(* Steps of a rank that leave the others alone.                            *)
SavedOf(r) ==
  /\ SavedBy(r) \ {Rest} = Past(r) \cap Own(r)
  /\ LayersDone(r) => layer[r] = Layers /\ next[r] > Modules
  /\ Rest \in SavedBy(r) => r = 0 /\ pc[r] \notin BeforeRest
  /\ r = 0 /\ RestDone(r) => Rest \in SavedBy(r)

LEMMA OwnStays == ASSUME NEW r PROVE Own(r)' = Own(r)
BY DEF Own, InLayers, SaveOnThisRank, LocalOnly, Shared, SharedSlice

LEMMA SavedFrom ==
  ASSUME Saved, NEW r \in Ranks, SavedOf(r)', calls' = calls,
         \A q \in Ranks \ {r} : /\ SavedBy(q)' = SavedBy(q) /\ pc'[q] = pc[q]
                                /\ layer'[q] = layer[q] /\ next'[q] = next[q]
  PROVE  Saved'
<1>1. ASSUME NEW q \in Ranks PROVE SavedOf(q)'
  <2>1. CASE q = r
    BY <2>1
  <2>2. CASE q # r
    <3>1. SavedOf(q) /\ q \in Ranks \ {r}
      BY <2>2 DEF Saved, SavedOf
    <3>2. Past(q)' = Past(q) /\ Own(q)' = Own(q)
      BY <3>1, OwnStays DEF Past, InLayers
    <3>3. LayersDone(q)' = LayersDone(q) /\ RestDone(q)' = RestDone(q)
      BY <3>1 DEF LayersDone, RestDone
    <3> QED
      BY <3>1, <3>2, <3>3 DEF SavedOf
  <2> QED
    BY <2>1, <2>2
<1> QED
  BY <1>1 DEF Saved, SavedOf

(* The tensor a rank looks at is the only one it goes by.                  *)
LEMMA LooksAt ==
  ASSUME IInv, NEW r \in Ranks, pc[r] = "save", next[r] <= Modules, layer'[r] = layer[r],
         next'[r] = next[r] + 1
  PROVE  /\ <<layer[r], next[r]>> \in InLayers
         /\ Past(r)' = Past(r) \cup {<<layer[r], next[r]>>}
<1>1. /\ layer[r] \in 1 .. Layers /\ next[r] \in 1 .. Modules /\ Layers \in Nat /\ Modules \in Nat
  BY SaveTypes
<1>2. <<layer[r], next[r]>> \in InLayers
  BY <1>1 DEF InLayers
<1>3. ASSUME NEW t \in InLayers
      PROVE  t \in Past(r)' <=> t \in Past(r) \/ t = <<layer[r], next[r]>>
  <2>1. t[1] \in Int /\ t[2] \in Int /\ t = <<t[1], t[2]>>
    BY DEF InLayers
  <2>2. t \in Past(r) <=> t[1] < layer[r] \/ (t[1] = layer[r] /\ t[2] < next[r])
    BY DEF Past
  <2>3. t \in Past(r)' <=> t[1] < layer[r] \/ (t[1] = layer[r] /\ t[2] < next[r] + 1)
    BY DEF Past, InLayers
  <2>4. t[2] < next[r] + 1 <=> t[2] < next[r] \/ t[2] = next[r]
    BY <1>1, <2>1
  <2>5. t = <<layer[r], next[r]>> <=> t[1] = layer[r] /\ t[2] = next[r]
    BY <2>1
  <2> QED
    BY <1>1, <2>1, <2>2, <2>3, <2>4, <2>5
<1>4. Past(r) \subseteq InLayers /\ Past(r)' \subseteq InLayers
  BY DEF Past, InLayers
<1> QED
  BY <1>2, <1>3, <1>4

LEMMA RestApart == Rest \notin InLayers /\ InLayers \subseteq Tensors /\ Rest \in Tensors
BY DEF Rest, InLayers, Tensors

LEMMA SaveModuleSaved ==
  ASSUME IInv, Saved, NEW r \in Ranks, SaveModule(r) PROVE Saved'
<1> DEFINE t == <<layer[r], next[r]>>
<1>1. /\ pc[r] = "save" /\ next[r] <= Modules /\ calls' = calls /\ SavedOf(r)
      /\ calls[r] <= Layers /\ calls[r] \in Int /\ Layers \in Int
  BY Where DEF SaveModule, Saved, SavedOf, Fits
<1>2. ~LayersDone(r) /\ ~RestDone(r) /\ Rest \notin SavedBy(r)
  BY <1>1 DEF LayersDone, RestDone, InPostRun, SavedOf, BeforeRest
<1>3. CASE UNCHANGED saveVars /\ pc' = [pc EXCEPT ![r] = "failed"]
  <2>1. "failed" \in AfterSaving /\ pc' \in {pc, [pc EXCEPT ![r] = "failed"]}
    BY <1>3 DEF AfterSaving
  <2> QED
    BY <1>1, <1>3, <2>1, MovesAway, KeepsSaved
<1>4. CASE /\ pc' = pc /\ layer' = layer /\ next' = [next EXCEPT ![r] = @ + 1]
           /\ \/ ~SaveOnThisRank(r, next[r]) /\ UNCHANGED <<buffer, shards>>
              \/ SaveOnThisRank(r, next[r]) /\ Write(r, t)
  <2>1. next'[r] = next[r] + 1 /\ \A q \in Ranks \ {r} : next'[q] = next[q]
    BY <1>4, SaveTypes
  <2>2. t \in InLayers /\ Past(r)' = Past(r) \cup {t} /\ t \in Tensors
    BY <1>1, <1>4, <2>1, LooksAt, RestApart
  <2>3. t \in Own(r) <=> SaveOnThisRank(r, next[r])
    BY <2>2 DEF Own
  <2>4. /\ SavedBy(r)' = SavedBy(r) \cup ({t} \cap Own(r))
        /\ \A q \in Ranks \ {r} : SavedBy(q)' = SavedBy(q)
    <3>1. CASE ~SaveOnThisRank(r, next[r]) /\ UNCHANGED <<buffer, shards>>
      <4>1. \A q \in Ranks : SavedBy(q)' = SavedBy(q)
        BY <3>1 DEF SavedBy
      <4> QED
        BY <2>3, <3>1, <4>1
    <3>2. CASE SaveOnThisRank(r, next[r]) /\ Write(r, t)
      BY <2>2, <2>3, <3>2, WriteSaves
    <3> QED
      BY <1>4, <3>1, <3>2
  <2>5. ~LayersDone(r)' /\ ~RestDone(r)' /\ Own(r)' = Own(r)
    BY <1>1, <1>2, <1>4, OwnStays DEF LayersDone, RestDone
  <2>6. Rest \notin SavedBy(r)' /\ SavedBy(r)' \ {Rest} = Past(r)' \cap Own(r)
    BY <1>1, <1>2, <2>2, <2>4, RestApart DEF SavedOf
  <2>7. SavedOf(r)'
    BY <2>5, <2>6 DEF SavedOf
  <2> QED
    BY <1>1, <1>4, <2>1, <2>4, <2>7, SavedFrom
<1> QED
  BY <1>1, <1>3, <1>4 DEF SaveModule, Refused

(* The end of a layer is the beginning of the next one.                    *)
LEMMA LayerSavedSaved ==
  ASSUME IInv, Saved, NEW r \in Ranks, LayerSaved(r) PROVE Saved'
<1>1. /\ pc[r] = "save" /\ next[r] > Modules /\ calls' = calls /\ SavedOf(r)
      /\ UNCHANGED <<buffer, shards>>
      /\ calls[r] <= Layers /\ calls[r] \in Int /\ Layers \in Nat /\ Modules \in Nat
      /\ next[r] = Modules + 1 /\ layer[r] \in 1 .. Layers
  BY Where, SaveTypes DEF LayerSaved, Saved, SavedOf, Fits
<1>2. ~RestDone(r) /\ Rest \notin SavedBy(r)
  BY <1>1 DEF RestDone, SavedOf, BeforeRest
<1>3. \A q \in Ranks : SavedBy(q)' = SavedBy(q)
  BY <1>1 DEF SavedBy
<1>4. CASE /\ layer' = [layer EXCEPT ![r] = @ + 1] /\ next' = [next EXCEPT ![r] = 1]
           /\ pc' = [pc EXCEPT ![r] = "preprocess"]
  <2>1. /\ layer'[r] = layer[r] + 1 /\ next'[r] = 1 /\ pc'[r] = "preprocess"
        /\ \A q \in Ranks \ {r} : layer'[q] = layer[q] /\ next'[q] = next[q] /\ pc'[q] = pc[q]
    BY <1>4, SaveTypes
  <2>2. Past(r)' = Past(r)
    <3>1. ASSUME NEW t \in InLayers
          PROVE  t \in Past(r)' <=> t \in Past(r)
      <4>1. t[1] \in Int /\ t[2] \in 1 .. Modules
        BY DEF InLayers
      <4>2. t \in Past(r) <=> t[1] < layer[r] \/ (t[1] = layer[r] /\ t[2] < next[r])
        BY DEF Past
      <4>3. t \in Past(r)' <=> t[1] < layer[r] + 1 \/ (t[1] = layer[r] + 1 /\ t[2] < 1)
        BY <2>1 DEF Past, InLayers
      <4> QED
        BY <1>1, <4>1, <4>2, <4>3
    <3>2. Past(r) \subseteq InLayers /\ Past(r)' \subseteq InLayers
      BY DEF Past, InLayers
    <3> QED
      BY <3>1, <3>2
  <2>3. ~LayersDone(r)' /\ ~RestDone(r)'
    BY <1>1, <2>1 DEF LayersDone, RestDone, InPostRun
  <2>4. SavedOf(r)'
    BY <1>1, <1>2, <1>3, <2>2, <2>3, OwnStays DEF SavedOf
  <2> QED
    BY <1>1, <1>3, <2>1, <2>4, SavedFrom
<1>5. CASE layer[r] = Layers /\ layer' = layer /\ next' = next /\ pc' = [pc EXCEPT ![r] = "post_run"]
  <2>1. pc'[r] = "post_run" /\ \A q \in Ranks \ {r} : pc'[q] = pc[q]
    BY <1>5, SaveTypes
  <2>2. Past(r)' = Past(r)
    BY <1>5 DEF Past, InLayers
  <2>3. ~RestDone(r)'
    BY <1>1, <2>1 DEF RestDone
  <2>4. SavedOf(r)'
    BY <1>1, <1>2, <1>3, <1>5, <2>2, <2>3, OwnStays DEF SavedOf
  <2> QED
    BY <1>1, <1>3, <1>5, <2>1, <2>4, SavedFrom
<1> QED
  BY <1>4, <1>5 DEF LayerSaved

(* What is in no layer is saved by rank 0, last.                           *)
LEMMA SaveRestSaved ==
  ASSUME IInv, Saved, NEW r \in Ranks, SaveRest(r) PROVE Saved'
<1>1. /\ pc[r] = "post_run" /\ calls' = calls /\ layer' = layer /\ next' = next /\ SavedOf(r)
      /\ LayersDone(r)
  BY DEF SaveRest, Saved, SavedOf, LayersDone, InPostRun
<1>2. Past(r)' = Past(r) /\ Own(r)' = Own(r)
  BY <1>1, OwnStays DEF Past, InLayers
<1>3. CASE UNCHANGED saveVars /\ pc' = [pc EXCEPT ![r] = "failed"]
  <2>1. "failed" \in AfterSaving /\ pc' \in {pc, [pc EXCEPT ![r] = "failed"]}
    BY <1>3 DEF AfterSaving
  <2> QED
    BY <1>1, <1>3, <2>1, MovesAway, KeepsSaved
<1>4. CASE /\ pc' = [pc EXCEPT ![r] = "close"]
           /\ \/ r # 0 /\ UNCHANGED <<buffer, shards>>
              \/ r = 0 /\ Write(r, Rest)
  <2>1. pc'[r] = "close" /\ \A q \in Ranks \ {r} : pc'[q] = pc[q]
    BY <1>4, SaveTypes
  <2>2. /\ SavedBy(r)' = SavedBy(r) \cup (IF r = 0 THEN {Rest} ELSE {})
        /\ \A q \in Ranks \ {r} : SavedBy(q)' = SavedBy(q)
    <3>1. CASE r # 0 /\ UNCHANGED <<buffer, shards>>
      <4>1. \A q \in Ranks : SavedBy(q)' = SavedBy(q)
        BY <3>1 DEF SavedBy
      <4> QED
        BY <3>1, <4>1
    <3>2. CASE r = 0 /\ Write(r, Rest)
      BY <3>2, WriteSaves, RestApart
    <3> QED
      BY <1>4, <3>1, <3>2
  <2>3. "close" \notin BeforeRest
    BY DEF BeforeRest
  <2>4. SavedOf(r)'
    BY <1>1, <1>2, <2>1, <2>2, <2>3 DEF SavedOf
  <2> QED
    BY <1>1, <2>1, <2>2, <2>4, SavedFrom
<1> QED
  BY <1>1, <1>3, <1>4 DEF SaveRest, Refused

LEMMA FlushSaved ==
  ASSUME IInv, Saved, NEW r \in Ranks, Flush(r) PROVE Saved'
<1>1. /\ pc[r] = "close" /\ calls' = calls /\ layer' = layer /\ next' = next /\ SavedOf(r)
      /\ LayersDone(r) /\ RestDone(r)
  BY DEF Flush, Saved, SavedOf, LayersDone, RestDone, InPostRun
<1>2. Past(r)' = Past(r) /\ Own(r)' = Own(r)
  BY <1>1, OwnStays DEF Past, InLayers
<1>3. PICK where \in {"rename", "failed"} : pc' = [pc EXCEPT ![r] = where]
  BY DEF Flush, Refused
<1>4. pc'[r] = where /\ \A q \in Ranks \ {r} : pc'[q] = pc[q]
  BY <1>3, SaveTypes
<1>5. where \notin BeforeRest
  BY DEF BeforeRest
<1>6. SavedOf(r)'
  BY <1>1, <1>2, <1>4, <1>5, FlushSaves DEF SavedOf
<1> QED
  BY <1>1, <1>4, <1>6, FlushSaves, SavedFrom

LEMMA StepSaved ==
  ASSUME IInv, Saved, NEW r \in Ranks, Step(r) \/ Fail(r) \/ Terminate(r)
  PROVE  Saved'
BY QuietSteps, KeepsSaved, SaveModuleSaved, LayerSavedSaved, SaveRestSaved, FlushSaved
   DEF Step, Saving

-----------------------------------------------------------------------------
(* HasFiles and MergeLate: what rank 0 merges is there.                    *)

FilesDue(r) == pc[r] = "count" \/ calls[r] > Layers

LEMMA InitFiles == Init => HasFiles /\ MergeLate
<1> SUFFICES ASSUME Init PROVE HasFiles /\ MergeLate
  OBVIOUS
<1>1. \A r \in Ranks : pc[r] = "construct" /\ calls[r] = 0
  BY DEF Init
<1>2. HasFiles
  BY <1>1, ConstantsAssumption DEF HasFiles
<1>3. DOMAIN mapped = Ranks /\ moved = 0 /\ DOMAIN index = {}
  BY DEF Init, None
<1> QED
  BY <1>2, <1>3 DEF MergeLate

(* A rank that still saves touches nothing of the others, and is not due.  *)
LEMMA SavingElsewhere ==
  ASSUME IInv, NEW r \in Ranks, SaveModule(r) \/ LayerSaved(r) \/ SaveRest(r) \/ Flush(r)
  PROVE  /\ UNCHANGED mergeVars /\ calls' = calls /\ pc[r] \in BeforeIndex /\ ~FilesDue(r)'
         /\ \A q \in Ranks \ {r} : shards'[q] = shards[q] /\ dirs'[q] = dirs[q] /\ pc'[q] = pc[q]
<1>1. PICK where \in {"save", "failed", "preprocess", "post_run", "close", "rename"} :
        pc' = [pc EXCEPT ![r] = where]
  <2>1. CASE SaveModule(r)
    <3>1. pc[r] = "save" /\ (pc' = pc \/ pc' = [pc EXCEPT ![r] = "failed"])
      BY <2>1 DEF SaveModule, Refused
    <3> QED
      BY <3>1, SaveTypes
  <2>2. CASE LayerSaved(r) \/ SaveRest(r) \/ Flush(r)
    BY <2>2 DEF LayerSaved, SaveRest, Flush, Refused
  <2> QED
    BY <2>1, <2>2
<1>2. pc'[r] = where /\ \A q \in Ranks \ {r} : pc'[q] = pc[q]
  BY <1>1, SaveTypes
<1>3. /\ UNCHANGED mergeVars /\ calls' = calls /\ pc[r] \in {"save", "post_run", "close"}
      /\ Untouched(r) \/ SaveOneFile(r)
  BY DEF SaveModule, LayerSaved, SaveRest, Flush, Write, Refused, saveVars, Untouched
<1>4. \A q \in Ranks \ {r} : dirs'[q] = dirs[q] /\ shards'[q] = shards[q]
  BY <1>3, SavingDirs, FileSaves DEF Untouched
<1>5. calls[r] <= Layers /\ calls[r] \in Int /\ Layers \in Int
  BY <1>3, Where DEF Fits, InPostRun
<1>6. ~FilesDue(r)' /\ pc[r] \in BeforeIndex
  BY <1>2, <1>3, <1>5 DEF FilesDue, BeforeIndex, BeforeRest
<1> QED
  BY <1>2, <1>3, <1>4, <1>6

(* A step that changes no file and, the renaming apart, makes none due.    *)
LEMMA StillElsewhere ==
  ASSUME IInv, NEW r \in Ranks,
         \/ Construct(r) \/ Preprocess(r) \/ CountFiles(r) \/ Barrier(r)
         \/ Finishing(r) \/ Fail(r) \/ Terminate(r)
  PROVE  /\ UNCHANGED <<saveVars, dirs, mergeVars>>
         /\ \A q \in Ranks : calls'[q] >= calls[q] /\ (FilesDue(q)' => FilesDue(q))
         /\ \A q \in Ranks : /\ pc'[q] \in BeforeIndex => pc[q] \in BeforeIndex
                             /\ pc'[q] \in BeforeRename => pc[q] \in BeforeRename
<1> DEFINE Early == {"construct", "preprocess", "gather", "count", "counting", "barrier", "waiting"}
           Late == {"copying", "rewriting", "extending", "remove", "postprocess", "done",
                     "rewrite", "extend", "failed", "terminated"}
<1> USE DEF BeforeRename, BeforeRest
<1>1. UNCHANGED <<saveVars, dirs, mergeVars>>
  BY DEF Construct, Preprocess, CountFiles, Barrier, Finishing, OpenConfig, WriteConfig,
         RemoveQuantizationConfig, SavePostprocess, Fail, Terminate
<1>2. /\ calls' \in {calls, [calls EXCEPT ![r] = @ + 1]}
      /\ \E where : /\ pc' = [pc EXCEPT ![r] = where]
                    /\ pc[r] \in Early \/ where \in Late
                    /\ pc[r] \in BeforeRename \/ where \notin BeforeRename
                    /\ where # "count"
                    /\ calls' # calls => pc[r] \in {"preprocess", "count", "barrier"}
  <2>1. CASE Construct(r) \/ Preprocess(r)
    BY <2>1 DEF Construct, Preprocess, Enter, Leave
  <2>2. CASE CountFiles(r) \/ Barrier(r)
    <3>1. PICK where \in {"counting", "barrier", "waiting", "merge_files", "copy"} :
            /\ pc' = [pc EXCEPT ![r] = where]
            /\ pc[r] \in {"count", "counting", "barrier", "waiting"}
            /\ calls' \in {calls, [calls EXCEPT ![r] = @ + 1]}
            /\ calls' # calls => pc[r] \in {"count", "barrier"}
      BY <2>2 DEF CountFiles, Barrier, Enter, Leave
    <3> QED
      BY <3>1
  <2>3. CASE Finishing(r)
    <3>1. PICK where \in Late : pc' = [pc EXCEPT ![r] = where]
      BY <2>3 DEF Finishing, OpenConfig, WriteConfig, RemoveQuantizationConfig, SavePostprocess
    <3>2. calls' = calls
      BY <2>3 DEF Finishing, OpenConfig, WriteConfig, RemoveQuantizationConfig, SavePostprocess
    <3> QED
      BY <3>1, <3>2
  <2>4. CASE Fail(r) \/ Terminate(r)
    <3>1. PICK where \in {"failed", "terminated"} : pc' = [pc EXCEPT ![r] = where]
      BY <2>4 DEF Fail, Terminate
    <3>2. calls' = calls
      BY <2>4 DEF Fail, Terminate
    <3> QED
      BY <3>1, <3>2
  <2> QED
    BY <2>1, <2>2, <2>3, <2>4
<1>3. PICK where : /\ pc' = [pc EXCEPT ![r] = where]
                   /\ pc[r] \in Early \/ where \in Late
                   /\ pc[r] \in BeforeRename \/ where \notin BeforeRename
                   /\ where # "count"
                   /\ calls' # calls => pc[r] \in {"preprocess", "count", "barrier"}
  BY <1>2
<1>4. /\ pc'[r] = where /\ \A q \in Ranks \ {r} : pc'[q] = pc[q] /\ calls'[q] = calls[q]
      /\ calls'[r] \in {calls[r], calls[r] + 1}
  BY <1>2, <1>3, SaveTypes
<1>5. \A q \in Ranks : calls[q] \in Int /\ calls'[q] >= calls[q]
  BY <1>2, <1>4, SaveTypes
<1>6. \A q \in Ranks : pc'[q] \in BeforeIndex => pc[q] \in BeforeIndex
  BY <1>3, <1>4 DEF BeforeIndex
<1>7. pc[r] = "preprocess" => calls[r] + 1 <= Layers
  BY Where DEF Fits
<1>8. pc[r] = "barrier" => calls[r] > Layers
  BY Where DEF Fits
<1>9. FilesDue(r)' => FilesDue(r)
  <2>1. CASE calls' = calls
    BY <1>3, <1>4, <2>1 DEF FilesDue
  <2>2. CASE calls' # calls
    <3>1. ~(calls[r] + 1 <= Layers) \/ ~(calls'[r] > Layers)
      BY <1>4, <1>5, SaveTypes
    <3> QED
      BY <1>3, <1>4, <1>7, <1>8, <2>2, <3>1 DEF FilesDue
  <2> QED
    BY <2>1, <2>2
<1>10. \A q \in Ranks : FilesDue(q)' => FilesDue(q)
  BY <1>4, <1>9 DEF FilesDue
<1>11. \A q \in Ranks : pc'[q] \in BeforeRename => pc[q] \in BeforeRename
  <2>1. pc[r] \in BeforeRename \/ where \notin BeforeRename
    BY <1>3
  <2> HIDE DEF BeforeRename
  <2> QED
    BY <1>4, <2>1
<1> QED
  BY <1>1, <1>5, <1>6, <1>10, <1>11

LEMMA TotalStays == ASSUME NEW r, shards'[r] = shards[r] PROVE Numbered(r)' = Numbered(r)
BY DEF Numbered, Total

LEMMA FilesFrom ==
  ASSUME HasFiles, NEW r \in Ranks, UNCHANGED mapped, UNCHANGED moved,
         \A q \in Ranks \ {r} : /\ FilesDue(q)' => FilesDue(q)
                                /\ shards'[q] = shards[q] /\ dirs'[q] = dirs[q],
         FilesDue(r)' => ~(r < moved) /\ Numbered(r)' \subseteq DOMAIN dirs'[r]
  PROVE  HasFiles'
<1>1. ASSUME NEW q \in Ranks, FilesDue(q)'
      PROVE  Numbered(q)' \subseteq (IF q < moved THEN DOMAIN mapped[q] ELSE DOMAIN dirs'[q])
  <2>1. CASE q = r
    BY <1>1, <2>1
  <2>2. CASE q # r
    <3>1. FilesDue(q) /\ Numbered(q)' = Numbered(q) /\ dirs'[q] = dirs[q]
      BY <1>1, <2>2, TotalStays
    <3> QED
      BY <3>1 DEF HasFiles, FilesDue
  <2> QED
    BY <2>1, <2>2
<1> QED
  BY <1>1 DEF HasFiles, FilesDue

LEMMA LateFrom ==
  ASSUME MergeLate, IInv, IInv', UNCHANGED mergeVars,
         \A q \in Ranks : /\ calls'[q] >= calls[q]
                          /\ pc'[q] \in BeforeIndex => pc[q] \in BeforeIndex
  PROVE  MergeLate'
<1>1. ASSUME NEW q \in Ranks, calls[q] > Layers PROVE calls'[q] > Layers
  <2>1. calls[q] \in Int /\ Layers \in Int
    BY SaveTypes
  <2>2. calls' \in [Ranks -> 0 .. Layers + 2]
    BY DEF IInv, TypeOK
  <2>3. calls'[q] \in Int /\ calls'[q] >= calls[q]
    BY <2>1, <2>2
  <2> QED
    BY <1>1, <2>1, <2>3
<1>2. 0 \in Ranks
  BY ConstantsAssumption DEF Ranks
<1> QED
  BY <1>1, <1>2 DEF MergeLate, mergeVars

LEMMA SavingFiles ==
  ASSUME IInv, IInv', SInv, NEW r \in Ranks,
         SaveModule(r) \/ LayerSaved(r) \/ SaveRest(r) \/ Flush(r)
  PROVE  HasFiles' /\ MergeLate'
<1>1. /\ UNCHANGED mergeVars /\ calls' = calls /\ pc[r] \in BeforeIndex /\ ~FilesDue(r)'
      /\ \A q \in Ranks \ {r} : shards'[q] = shards[q] /\ dirs'[q] = dirs[q] /\ pc'[q] = pc[q]
  BY SavingElsewhere
<1>2. \A q \in Ranks \ {r} : FilesDue(q)' => FilesDue(q)
  BY <1>1 DEF FilesDue
<1>3. HasFiles'
  BY <1>1, <1>2, FilesFrom DEF SInv, mergeVars
<1>4. \A q \in Ranks : calls[q] \in Int
  BY SaveTypes
<1>5. \A q \in Ranks : calls'[q] >= calls[q] /\ (pc'[q] \in BeforeIndex => pc[q] \in BeforeIndex)
  BY <1>1, <1>4
<1> QED
  BY <1>1, <1>3, <1>5, LateFrom DEF SInv

LEMMA StillFiles ==
  ASSUME IInv, IInv', SInv, NEW r \in Ranks,
         \/ Construct(r) \/ Preprocess(r) \/ CountFiles(r) \/ Barrier(r)
         \/ Finishing(r) \/ Fail(r) \/ Terminate(r)
  PROVE  HasFiles' /\ MergeLate'
<1>1. /\ UNCHANGED <<saveVars, dirs, mergeVars>>
      /\ \A q \in Ranks : calls'[q] >= calls[q] /\ (FilesDue(q)' => FilesDue(q))
      /\ \A q \in Ranks : pc'[q] \in BeforeIndex => pc[q] \in BeforeIndex
  BY StillElsewhere
<1>2. ASSUME NEW q \in Ranks, FilesDue(q)'
      PROVE  Numbered(q)' \subseteq (IF q < moved THEN DOMAIN mapped[q] ELSE DOMAIN dirs[q])
  <2>1. Numbered(q)' = Numbered(q)
    BY <1>1, TotalStays DEF saveVars
  <2>2. FilesDue(q)
    BY <1>1, <1>2
  <2> QED
    BY <2>1, <2>2 DEF SInv, HasFiles, FilesDue
<1>3. HasFiles'
  BY <1>1, <1>2 DEF HasFiles, FilesDue, mergeVars
<1>4. UNCHANGED mergeVars
  BY <1>1
<1> QED
  BY <1>1, <1>3, <1>4, LateFrom DEF SInv

(* A rank renames before it is counted, so before anything is merged.      *)
LEMMA RenameFiles ==
  ASSUME IInv, IInv', SInv, NEW r \in Ranks, Rename(r)
  PROVE  HasFiles' /\ MergeLate'
<1>1. /\ pc[r] = "rename" /\ pc' = [pc EXCEPT ![r] = "count"] /\ calls' = calls
      /\ UNCHANGED saveVars /\ UNCHANGED mergeVars
  BY DEF Rename
<1>2. calls[r] <= Layers /\ calls[r] \in Int /\ Layers \in Int
  BY <1>1, Where DEF Fits, InPostRun
<1>3. moved = 0 /\ DOMAIN dirs = Ranks /\ r \in Nat
  <2>1. moved \in 0 .. World /\ World \in Nat /\ DOMAIN dirs = Ranks
    BY ConstantsAssumption DEF IInv, TypeOK
  <2>2. ~(moved > 0)
    BY <1>2 DEF SInv, MergeLate
  <2> QED
    BY <2>1, <2>2 DEF Ranks
<1>4. pc'[r] = "count" /\ \A q \in Ranks \ {r} : pc'[q] = pc[q]
  BY <1>1, SaveTypes
<1>5. /\ DOMAIN dirs'[r] = (DOMAIN dirs[r] \ Temporary(r)) \cup Numbered(r)
      /\ \A q \in Ranks \ {r} : dirs'[q] = dirs[q]
  BY <1>3 DEF Rename
<1>6. \A q \in Ranks : shards'[q] = shards[q] /\ Numbered(q)' = Numbered(q)
  BY <1>1, TotalStays DEF saveVars
<1>7. \A q \in Ranks \ {r} : FilesDue(q)' => FilesDue(q)
  BY <1>1, <1>4 DEF FilesDue
<1>8. Numbered(r)' \subseteq DOMAIN dirs'[r] /\ ~(r < moved)
  BY <1>3, <1>5, <1>6
<1>9. UNCHANGED mapped /\ UNCHANGED moved /\ HasFiles
  BY <1>1 DEF mergeVars, SInv
<1>10. HasFiles'
  BY <1>5, <1>6, <1>7, <1>8, <1>9, FilesFrom
<1>11. \A q \in Ranks : calls'[q] >= calls[q] /\ (pc'[q] \in BeforeIndex => pc[q] \in BeforeIndex)
  BY <1>1, <1>4, SaveTypes DEF BeforeIndex, BeforeRest
<1> QED
  BY <1>1, <1>10, <1>11, LateFrom DEF SInv

(* When rank 0 merges, every rank is through.                              *)
LEMMA MergesLate ==
  ASSUME IInv, NEW r \in Ranks, pc[r] \in Merging
  PROVE  r = 0 /\ \A q \in Ranks : calls[q] > Layers
<1>1. r = 0 /\ \A q \in Ranks : calls[q] >= Layers + 2
  BY DEF IInv, MergeOrder
<1>2. ASSUME NEW q \in Ranks PROVE calls[q] > Layers
  BY <1>1, SaveTypes
<1> QED
  BY <1>1, <1>2

(* The file numbers of a directory are taken as it is emptied.             *)
LEMMA MergeSafetensorFilesFiles ==
  ASSUME IInv, SInv, NEW r \in Ranks, MergeSafetensorFiles(r)
  PROVE  HasFiles' /\ MergeLate'
<1>1. /\ pc[r] = "merge_files" /\ calls' = calls /\ index' = index /\ UNCHANGED saveVars
      /\ r = 0 /\ \A q \in Ranks : calls[q] > Layers
  BY MergesLate DEF MergeSafetensorFiles, Merging
<1>2. HasFiles /\ DOMAIN mapped = Ranks /\ DOMAIN dirs = Ranks /\ moved \in 0 .. World /\ World \in Nat
  BY ConstantsAssumption DEF SInv, MergeLate, IInv, TypeOK
<1>3. \A q \in Ranks : Numbered(q)' = Numbered(q)
  BY <1>1, TotalStays DEF saveVars
<1>4. \A q \in Ranks : Numbered(q) \subseteq (IF q < moved THEN DOMAIN mapped[q] ELSE DOMAIN dirs[q])
  BY <1>1, <1>2 DEF HasFiles
<1>5. pc[0] \in BeforeIndex
  BY <1>1 DEF BeforeIndex
<1>6. DOMAIN index = {}
  BY <1>5 DEF SInv, MergeLate
<1>7. CASE moved = World /\ UNCHANGED <<dirs, moved, mapped, final>>
  BY <1>1, <1>2, <1>3, <1>4, <1>6, <1>7 DEF HasFiles, MergeLate
<1>8. CASE moved < World
  <2> DEFINE number == [n \in DOMAIN dirs[moved] |-> Offset(moved) + Place(DOMAIN dirs[moved], n) + 1]
  <2>1. /\ mapped' = [mapped EXCEPT ![moved] = number] /\ DOMAIN number = DOMAIN dirs[moved]
        /\ dirs' = [dirs EXCEPT ![moved] = None] /\ moved' = moved + 1
    BY <1>2, <1>8 DEF MergeSafetensorFiles
  <2> HIDE DEF number
  <2>2. moved \in Ranks
    BY <1>2, <1>8 DEF Ranks
  <2>3. /\ DOMAIN mapped' = Ranks /\ DOMAIN mapped'[moved] = DOMAIN dirs[moved]
        /\ \A q \in Ranks \ {moved} : mapped'[q] = mapped[q] /\ dirs'[q] = dirs[q]
    BY <1>2, <2>1, <2>2
  <2>4. ASSUME NEW q \in Ranks
        PROVE  Numbered(q) \subseteq (IF q < moved' THEN DOMAIN mapped'[q] ELSE DOMAIN dirs'[q])
    <3>1. CASE q = moved
      <4>1. q < moved' /\ ~(q < moved)
        BY <1>2, <2>1, <3>1
      <4> QED
        BY <1>4, <2>3, <3>1, <4>1
    <3>2. CASE q # moved
      <4>1. q < moved' <=> q < moved
        BY <1>2, <2>1, <3>2 DEF Ranks
      <4> QED
        BY <1>4, <2>3, <3>2, <4>1
    <3> QED
      BY <3>1, <3>2
  <2>5. HasFiles'
    BY <1>3, <2>4 DEF HasFiles
  <2> QED
    BY <1>1, <1>6, <2>3, <2>5 DEF MergeLate
<1> QED
  BY <1>7, <1>8 DEF MergeSafetensorFiles

LEMMA MergeJsonFilesFiles ==
  ASSUME IInv, SInv, NEW r \in Ranks, MergeIndexFiles(r) \/ MergeJsonFiles(r)
  PROVE  HasFiles' /\ MergeLate'
<1>1. /\ pc[r] \in {"merge_index", "merge_json"} /\ calls' = calls /\ UNCHANGED saveVars
      /\ UNCHANGED <<moved, mapped>> /\ pc' = [pc EXCEPT ![r] = pc'[r]]
      /\ pc'[r] \in {"merge_json", "copy"}
  BY SaveTypes DEF MergeIndexFiles, MergeJsonFiles
<1>2. /\ r = 0 /\ (\A q \in Ranks : calls[q] > Layers) /\ moved = World
      /\ World \in Nat /\ DOMAIN mapped = Ranks /\ HasFiles
  BY <1>1, MergesLate, ConstantsAssumption DEF Merging, IInv, MergeOrder, SInv, MergeLate
<1>3. \A q \in Ranks : Numbered(q)' = Numbered(q) /\ q < moved
  BY <1>1, <1>2, TotalStays DEF saveVars, Ranks
<1>4. HasFiles'
  BY <1>1, <1>2, <1>3 DEF HasFiles
<1>5. pc'[0] \notin BeforeIndex
  BY <1>1, <1>2 DEF BeforeIndex, BeforeRest
<1> QED
  BY <1>1, <1>2, <1>4, <1>5 DEF MergeLate

-----------------------------------------------------------------------------
(* SInv is an invariant.                                                   *)

LEMMA NextSInv ==
  ASSUME IInv, SInv, [Next]_vars PROVE SInv'
<1>1. IInv'
  BY NextIInv
<1>2. CASE UNCHANGED vars
  <2>1. UNCHANGED <<pc, layer, next, buffer, shards, dirs, calls, moved, mapped, index>>
    BY <1>2 DEF vars, saveVars, mergeVars
  <2>2. \A r \in Ranks : /\ SavedBy(r)' = SavedBy(r) /\ Past(r)' = Past(r) /\ Own(r)' = Own(r)
                         /\ LayersDone(r)' = LayersDone(r) /\ RestDone(r)' = RestDone(r)
                         /\ Numbered(r)' = Numbered(r)
    BY <2>1, OwnStays DEF SavedBy, Past, InLayers, LayersDone, RestDone, Numbered, Total
  <2> QED
    BY <2>1, <2>2 DEF SInv, Saved, HasFiles, MergeLate
<1>3. ASSUME NEW r \in Ranks, Step(r) \/ Fail(r) \/ Terminate(r)
      PROVE  SInv'
  <2>1. Saved'
    BY <1>3, StepSaved DEF SInv
  <2>2. HasFiles' /\ MergeLate'
    BY <1>1, <1>3, SavingFiles, StillFiles, RenameFiles, MergeSafetensorFilesFiles,
       MergeJsonFilesFiles DEF Step, Saving, Merge
  <2> QED
    BY <2>1, <2>2 DEF SInv
<1> QED
  BY <1>2, <1>3 DEF Next, Over

LEMMA SInvariance == Spec => [](IInv /\ SInv)
<1>1. Init => IInv /\ SInv
  BY InitIInv, InitSaved, InitFiles DEF SInv
<1>2. (IInv /\ SInv) /\ [Next]_vars => (IInv /\ SInv)'
  BY NextIInv, NextSInv
<1> QED
  BY <1>1, <1>2, PTL DEF Spec

-----------------------------------------------------------------------------
(* Together the ranks save the model.                                      *)

AllSaved == UNION {SavedBy(r) : r \in Ranks}

(* Every module is saved by a rank.                                        *)
LEMMA SomebodySaves ==
  ASSUME NEW m \in 1 .. Modules
  PROVE  \E r \in Ranks : SaveOnThisRank(r, m)
<1>1. CASE m \in Shared
  <2> DEFINE below == {s \in Shared : s < m}
  <2>1. IsFiniteSet(1 .. Modules)
    BY ConstantsAssumption, FS_Interval
  <2>2. IsFiniteSet(below)
    BY <2>1, FS_Subset DEF Shared
  <2>3. Cardinality(below) \in Nat
    BY <2>2, FS_CardinalityType
  <2>4. World \in Nat \ {0}
    BY ConstantsAssumption
  <2>5. Cardinality(below) % World \in Ranks
    <3> HIDE DEF below
    <3> QED
      BY <2>3, <2>4 DEF Ranks
  <2>6. m \in SharedSlice(Cardinality(below) % World)
    BY <1>1 DEF SharedSlice
  <2> QED
    BY <2>5, <2>6 DEF SaveOnThisRank
<1>2. CASE m \notin Shared
  <2>1. PICK r \in Ranks : m \in Holds(r)
    BY ConstantsAssumption
  <2> QED
    BY <1>2, <2>1 DEF SaveOnThisRank, LocalOnly
<1> QED
  BY <1>1, <1>2

LEMMA SavedTensors ==
  ASSUME IInv PROVE AllSaved \subseteq Tensors
<1>1. ASSUME NEW r \in Ranks PROVE SavedBy(r) \subseteq Tensors
  <2>1. buffer[r] \in SUBSET Tensors /\ shards[r] \in Seq(SUBSET Tensors)
    BY SaveTypes
  <2>2. \A i \in DOMAIN shards[r] : shards[r][i] \in SUBSET Tensors
    BY <2>1
  <2> QED
    BY <2>1, <2>2 DEF SavedBy
<1> QED
  BY <1>1 DEF AllSaved

(* When all are through their layers, and rank 0 with the rest, all of the *)
(* model is saved.                                                         *)
LEMMA Covers ==
  ASSUME IInv, SInv, \A q \in Ranks : calls[q] > Layers
  PROVE  AllSaved = Tensors
<1>1. \A r \in Ranks : SavedOf(r) /\ LayersDone(r) /\ RestDone(r)
  BY DEF SInv, Saved, SavedOf, LayersDone, RestDone
<1>2. ASSUME NEW t \in InLayers PROVE t \in AllSaved
  <2>1. /\ t[1] \in 1 .. Layers /\ t[2] \in 1 .. Modules /\ Layers \in Nat /\ Modules \in Nat
    BY ConstantsAssumption DEF InLayers
  <2>2. PICK r \in Ranks : SaveOnThisRank(r, t[2])
    BY <2>1, SomebodySaves
  <2>3. layer[r] = Layers /\ next[r] > Modules
    BY <1>1 DEF SavedOf
  <2>4. next[r] \in 1 .. Modules + 1
    BY <1>1, ConstantsAssumption DEF IInv, TypeOK
  <2>5. t \in Past(r) /\ t \in Own(r)
    BY <2>1, <2>2, <2>3, <2>4 DEF Past, Own
  <2>6. t \in SavedBy(r)
    BY <1>1, <2>5 DEF SavedOf
  <2> QED
    BY <2>6 DEF AllSaved
<1>3. Rest \in AllSaved
  <2>1. 0 \in Ranks
    BY ConstantsAssumption DEF Ranks
  <2>2. Rest \in SavedBy(0)
    BY <1>1, <2>1 DEF SavedOf
  <2> QED
    BY <2>1, <2>2 DEF AllSaved
<1>4. Tensors = InLayers \cup {Rest}
  BY DEF Tensors, InLayers
<1> QED
  BY <1>2, <1>3, <1>4, SavedTensors

-----------------------------------------------------------------------------
(* Steps of the ranks are steps of the one writer.                         *)

LEMMA SavesNothing ==
  ASSUME UNCHANGED saveVars, UNCHANGED index
  PROVE  UNCHANGED <<AllSaved, DOMAIN index>>
<1>1. \A r \in Ranks : SavedBy(r)' = SavedBy(r)
  BY DEF saveVars, SavedBy
<1> QED
  BY <1>1 DEF AllSaved

LEMMA SavesOne ==
  ASSUME IInv, NEW r \in Ranks, NEW t \in Tensors, Write(r, t), UNCHANGED index,
         DOMAIN index = {}
  PROVE  Abstract!Save
<1>1. AllSaved' = AllSaved \cup {t}
  BY WriteSaves DEF AllSaved
<1>2. {t} \ AllSaved \in SUBSET (Tensors \ AllSaved) /\ AllSaved' = AllSaved \cup ({t} \ AllSaved)
  BY <1>1
<1>3. \E S \in SUBSET (Tensors \ AllSaved) : AllSaved' = AllSaved \cup S
  BY <1>2
<1> QED
  BY <1>3 DEF Abstract!Save, AllSaved

(* A rank that still saves does so before there is an index.               *)
LEMMA SavingMaps ==
  ASSUME IInv, SInv, NEW r \in Ranks, SaveModule(r) \/ LayerSaved(r) \/ SaveRest(r) \/ Flush(r)
  PROVE  Abstract!Save \/ UNCHANGED <<AllSaved, DOMAIN index>>
<1>1. calls[r] <= Layers /\ calls[r] \in Int /\ Layers \in Int /\ UNCHANGED index
  <2>1. pc[r] \in {"save", "post_run", "close"} /\ UNCHANGED index
    BY DEF SaveModule, LayerSaved, SaveRest, Flush, mergeVars
  <2> QED
    BY <2>1, Where DEF Fits, InPostRun
<1>2. DOMAIN index = {}
  <2>1. ~(calls[r] > Layers)
    BY <1>1
  <2> QED
    BY <2>1 DEF SInv, MergeLate
<1>3. CASE UNCHANGED <<buffer, shards>> \/ Flush(r)
  <2>1. \A q \in Ranks : SavedBy(q)' = SavedBy(q)
    BY <1>3, FlushSaves DEF SavedBy
  <2> QED
    BY <1>1, <2>1 DEF AllSaved
<1>4. CASE SaveModule(r) /\ Write(r, <<layer[r], next[r]>>)
  <2>1. <<layer[r], next[r]>> \in Tensors
    BY <1>4, SaveTypes DEF SaveModule, Tensors
  <2> QED
    BY <1>1, <1>2, <1>4, <2>1, SavesOne
<1>5. CASE SaveRest(r) /\ Write(r, Rest)
  BY <1>1, <1>2, <1>5, RestApart, SavesOne
<1> QED
  BY <1>3, <1>4, <1>5 DEF SaveModule, LayerSaved, SaveRest, Refused, saveVars

(* The index names what every rank has saved: all of the model.            *)
LEMMA IndexMaps ==
  ASSUME IInv, SInv, NEW r \in Ranks, MergeIndexFiles(r)
  PROVE  Abstract!Publish
<1>1. /\ pc[r] = "merge_index" /\ UNCHANGED saveVars
      /\ DOMAIN index' = UNION {Entries(q) : q \in Ranks}
  BY DEF MergeIndexFiles
<1>2. r = 0 /\ (\A q \in Ranks : calls[q] > Layers) /\ moved = World /\ World \in Nat
  BY <1>1, MergesLate, ConstantsAssumption DEF Merging, IInv, MergeOrder
<1>3. DOMAIN index = {} /\ AllSaved = Tensors
  BY <1>1, <1>2, Covers DEF SInv, MergeLate, BeforeIndex
<1>4. ASSUME NEW q \in Ranks PROVE Entries(q) = SavedBy(q)
  <2>1. Numbered(q) \subseteq DOMAIN mapped[q] /\ buffer[q] = {}
    <3>1. q < moved
      BY <1>2 DEF Ranks
    <3> QED
      BY <1>2, <3>1 DEF SInv, HasFiles, IInv, Closed
  <2>2. shards[q] \in Seq(SUBSET Tensors)
    BY SaveTypes
  <2>3. DOMAIN shards[q] = 1 .. Total(q)
    BY <2>2 DEF Total
  <2>4. SavedBy(q) = UNION {shards[q][i] : i \in 1 .. Total(q)}
    BY <2>1, <2>3 DEF SavedBy
  <2>5. ASSUME NEW t \in SavedBy(q) PROVE FileOf(q, t) \in DOMAIN mapped[q]
    <3>1. \E i \in 1 .. Total(q) : t \in shards[q][i]
      BY <2>4
    <3>2. (CHOOSE i \in 1 .. Total(q) : t \in shards[q][i]) \in 1 .. Total(q)
      BY <3>1
    <3> QED
      BY <2>1, <3>2 DEF FileOf, Numbered
  <2> QED
    BY <2>4, <2>5 DEF Entries
<1>5. DOMAIN index' = Tensors
  BY <1>1, <1>3, <1>4 DEF AllSaved
<1>6. AllSaved' = AllSaved
  <2>1. \A q \in Ranks : SavedBy(q)' = SavedBy(q)
    BY <1>1 DEF saveVars, SavedBy
  <2> QED
    BY <2>1 DEF AllSaved
<1> QED
  BY <1>3, <1>5, <1>6 DEF Abstract!Publish, AllSaved

LEMMA StepMaps ==
  ASSUME IInv, SInv, [Next]_vars
  PROVE  [Abstract!Next]_(Abstract!vars)
<1>1. CASE UNCHANGED vars
  <2>1. UNCHANGED saveVars /\ UNCHANGED index
    BY <1>1 DEF vars, mergeVars
  <2> QED
    BY <2>1, SavesNothing DEF Abstract!vars, AllSaved
<1>2. ASSUME NEW r \in Ranks, Step(r) \/ Fail(r) \/ Terminate(r)
      PROVE  Abstract!Next \/ UNCHANGED <<AllSaved, DOMAIN index>>
  <2>1. CASE SaveModule(r) \/ LayerSaved(r) \/ SaveRest(r) \/ Flush(r)
    BY <2>1, SavingMaps DEF Abstract!Next
  <2>2. CASE MergeIndexFiles(r)
    BY <2>2, IndexMaps DEF Abstract!Next
  <2>3. CASE \/ Construct(r) \/ Preprocess(r) \/ CountFiles(r) \/ Barrier(r)
             \/ Finishing(r) \/ Fail(r) \/ Terminate(r)
    <3>1. UNCHANGED saveVars /\ UNCHANGED index
      BY <2>3, StillElsewhere DEF mergeVars
    <3> QED
      BY <3>1, SavesNothing
  <2>4. CASE Rename(r) \/ MergeSafetensorFiles(r) \/ MergeJsonFiles(r)
    <3>1. UNCHANGED saveVars /\ UNCHANGED index
      BY <2>4 DEF Rename, MergeSafetensorFiles, MergeJsonFiles, mergeVars
    <3> QED
      BY <3>1, SavesNothing
  <2> QED
    BY <1>2, <2>1, <2>2, <2>3, <2>4 DEF Step, Saving, Merge
<1> QED
  BY <1>1, <1>2 DEF Next, Over, Abstract!vars, AllSaved

(* However many ranks save the model, and wherever they fail, what they    *)
(* save and publish together is what one writer would: the index comes     *)
(* last, once, and names every tensor.                                     *)
THEOREM Implementation == Spec => ImplementsShardedModel
<1>1. Init => Abstract!Init
  <2> SUFFICES ASSUME Init PROVE AllSaved = {} /\ DOMAIN index = {}
    BY DEF Abstract!Init, AllSaved
  <2>1. ASSUME NEW r \in Ranks PROVE SavedBy(r) = {}
    <3>1. buffer[r] = {} /\ shards[r] = <<>>
      BY DEF Init
    <3> QED
      BY <3>1 DEF SavedBy
  <2> QED
    BY <2>1 DEF Init, None, AllSaved
<1> QED
  BY <1>1, SInvariance, StepMaps, PTL DEF Spec, ImplementsShardedModel, Abstract!Spec

-----------------------------------------------------------------------------
(* No tensor is in two files: by FilesApart, if ranks do not share what    *)
(* they save.                                                              *)

(* A module is on every rank or on one. *)
AllOrOne ==
  \A m \in 1 .. Modules :
    \/ \A r \in Ranks : m \in Holds(r)
    \/ \A r, q \in Ranks : m \in Holds(r) /\ m \in Holds(q) => r = q

DirApart(r) ==
  /\ \A n \in DOMAIN dirs[r] : dirs[r][n] \subseteq InShards(r)
  /\ \A n, k \in DOMAIN dirs[r] : n # k => dirs[r][n] \cap dirs[r][k] = {}

(* What waits is in no shard yet, and shards that wait to be renamed are   *)
(* there under their temporary names.                                      *)
OwnFiles(r) ==
  /\ buffer[r] \cap InShards(r) = {}
  /\ DirApart(r)
  /\ pc[r] \in BeforeRename => Temporary(r) \subseteq DOMAIN dirs[r]

FinalApart ==
  /\ moved = 0 => DOMAIN final = {}
  /\ \A i, j \in DOMAIN final : i # j => final[i] \cap final[j] = {}
  /\ \A i \in DOMAIN final, r \in Ranks : \A n \in DOMAIN dirs[r] : final[i] \cap dirs[r][n] = {}

FilesApart == (\A r \in Ranks : OwnFiles(r)) /\ FinalApart

LEMMA InitFilesApart == Init => FilesApart
<1> SUFFICES ASSUME Init PROVE FilesApart
  OBVIOUS
<1>1. \A r \in Ranks : buffer[r] = {} /\ shards[r] = <<>> /\ Total(r) = 0
  BY DEF Init, Total
<1>2. PICK left \in [Ranks -> Leftovers] : dirs = [r \in Ranks |-> [n \in left[r] |-> {}]]
  BY DEF Init
<1>3. ASSUME NEW r \in Ranks PROVE OwnFiles(r)
  <2>1. \A n \in DOMAIN dirs[r] : dirs[r][n] = {}
    BY <1>2
  <2>2. Temporary(r) = {}
    BY <1>1 DEF Temporary
  <2> QED
    BY <1>1, <2>1, <2>2 DEF OwnFiles, DirApart
<1>4. DOMAIN final = {}
  BY DEF Init, None
<1> QED
  BY <1>3, <1>4 DEF FilesApart, FinalApart

(* Two ranks never save the same tensor.                                   *)
LEMMA RanksApart ==
  ASSUME AllOrOne, Saved, NEW r \in Ranks, NEW q \in Ranks, r # q
  PROVE  SavedBy(r) \cap SavedBy(q) = {}
<1> SUFFICES ASSUME NEW t \in SavedBy(r), t \in SavedBy(q) PROVE FALSE
  OBVIOUS
<1>1. SavedOf(r) /\ SavedOf(q)
  BY DEF Saved, SavedOf
<1>2. t # Rest
  BY <1>1 DEF SavedOf
<1>3. t \in InLayers /\ SaveOnThisRank(r, t[2]) /\ SaveOnThisRank(q, t[2])
  BY <1>1, <1>2 DEF SavedOf, Own
<1>4. t[2] \in 1 .. Modules
  BY <1>3 DEF InLayers
<1>5. CASE t[2] \in Shared
  BY <1>3, <1>5 DEF SaveOnThisRank, LocalOnly, SharedSlice
<1>6. CASE t[2] \notin Shared
  <2>1. t[2] \in Holds(r) /\ t[2] \in Holds(q)
    BY <1>3, <1>6 DEF SaveOnThisRank, LocalOnly, SharedSlice
  <2> QED
    BY <1>4, <1>6, <2>1 DEF AllOrOne, Shared
<1> QED
  BY <1>5, <1>6

(* Writing a shard.                                                        *)
LEMMA FileApart ==
  ASSUME IInv, NEW r \in Ranks, OwnFiles(r), pc[r] \in BeforeRename, SaveOneFile(r)
  PROVE  DirApart(r)' /\ Temporary(r)' \subseteq DOMAIN dirs'[r]
<1> DEFINE name == NewShard(r)
<1>1. InShards(r)' = InShards(r) \cup buffer[r]
  BY FileSaves
<1>2. DOMAIN dirs = Ranks
  BY DEF IInv, TypeOK
<1>3. dirs'[r] = [n \in DOMAIN dirs[r] \cup {name} |-> IF n = name THEN buffer[r] ELSE dirs[r][n]]
  BY <1>2 DEF SaveOneFile, PutFile
<1> HIDE DEF name
<1>4. /\ DOMAIN dirs'[r] = DOMAIN dirs[r] \cup {name} /\ dirs'[r][name] = buffer[r]
      /\ \A n \in DOMAIN dirs'[r] : n # name => n \in DOMAIN dirs[r] /\ dirs'[r][n] = dirs[r][n]
  BY <1>3
<1>5. \A n \in DOMAIN dirs'[r] : dirs'[r][n] \subseteq InShards(r)'
  BY <1>1, <1>4 DEF OwnFiles, DirApart
<1>6. \A n \in DOMAIN dirs[r] : dirs[r][n] \cap buffer[r] = {}
  BY DEF OwnFiles, DirApart
<1>7. ASSUME NEW n \in DOMAIN dirs'[r], NEW k \in DOMAIN dirs'[r], n # k
      PROVE  dirs'[r][n] \cap dirs'[r][k] = {}
  <2>1. CASE n = name
    BY <1>4, <1>6, <1>7, <2>1
  <2>2. CASE k = name
    BY <1>4, <1>6, <1>7, <2>2
  <2>3. CASE n # name /\ k # name
    BY <1>4, <1>7, <2>3 DEF OwnFiles, DirApart
  <2> QED
    BY <2>1, <2>2, <2>3
<1>8. Temporary(r)' \subseteq Temporary(r) \cup {name}
  <2>1. shards'[r] = Append(shards[r], buffer[r]) /\ shards[r] \in Seq(SUBSET Tensors)
    BY SaveTypes DEF SaveOneFile
  <2>2. Total(r)' = Total(r) + 1 /\ Total(r) \in Nat /\ name = <<Total(r) + 1, 0>>
    BY <2>1 DEF Total, name, NewShard
  <2>3. Temporary(r)' = (1 .. Total(r) + 1) \X {0}
    BY <2>2 DEF Temporary
  <2> QED
    BY <2>2, <2>3 DEF Temporary
<1> QED
  BY <1>4, <1>5, <1>7, <1>8 DEF DirApart, OwnFiles

(* The files of a rank depend on nothing else.                             *)
LEMMA SameFiles ==
  ASSUME NEW r \in Ranks, shards'[r] = shards[r], dirs'[r] = dirs[r]
  PROVE  DirApart(r)' = DirApart(r) /\ InShards(r)' = InShards(r) /\ Temporary(r)' = Temporary(r)
BY DEF DirApart, InShards, Temporary, Total

LEMMA WriteApart ==
  ASSUME IInv, NEW r \in Ranks, NEW t \in Tensors, OwnFiles(r), pc[r] \in BeforeRename,
         Write(r, t), t \notin SavedBy(r)
  PROVE  OwnFiles(r)'
<1>1. t \notin buffer[r] /\ t \notin InShards(r)
  BY DEF SavedBy, InShards
<1>2. CASE ~Spills(r, t)
  <2>1. UNCHANGED shards /\ UNCHANGED dirs /\ buffer'[r] = buffer[r] \cup {t}
    BY <1>2, SaveTypes DEF Write
  <2>2. DirApart(r)' = DirApart(r) /\ InShards(r)' = InShards(r) /\ Temporary(r)' = Temporary(r)
    BY <2>1, SameFiles
  <2> QED
    BY <1>1, <2>1, <2>2 DEF OwnFiles
<1>3. CASE Spills(r, t)
  <2>1. SaveOneFile(r) /\ buffer'[r] = {t}
    BY <1>3, SaveTypes DEF Write
  <2>2. DirApart(r)' /\ Temporary(r)' \subseteq DOMAIN dirs'[r]
    BY <2>1, FileApart
  <2>3. InShards(r)' = InShards(r) \cup buffer[r]
    BY <2>1, FileSaves
  <2> QED
    BY <1>1, <2>1, <2>2, <2>3 DEF OwnFiles
<1> QED
  BY <1>2, <1>3

(* What a rank writes next it has not saved before.                        *)
LEMMA SavingApart ==
  ASSUME IInv, Saved, NEW r \in Ranks, OwnFiles(r),
         SaveModule(r) \/ LayerSaved(r) \/ SaveRest(r) \/ Flush(r)
  PROVE  OwnFiles(r)'
<1>1. pc[r] \in {"save", "post_run", "close"}
  BY DEF SaveModule, LayerSaved, SaveRest, Flush
<1>2. pc[r] \in BeforeRename /\ SavedOf(r)
  BY <1>1 DEF BeforeRename, BeforeRest, Saved, SavedOf
<1>3. CASE UNCHANGED <<buffer, shards, dirs>>
  <2>1. DirApart(r)' = DirApart(r) /\ InShards(r)' = InShards(r) /\ Temporary(r)' = Temporary(r)
    BY <1>3, SameFiles
  <2> QED
    BY <1>2, <1>3, <2>1 DEF OwnFiles
<1>4. CASE SaveModule(r) /\ Write(r, <<layer[r], next[r]>>)
  <2> DEFINE t == <<layer[r], next[r]>>
  <2>1. t \in InLayers
    BY <1>4, SaveTypes DEF SaveModule, InLayers
  <2>2. t \notin Past(r)
    BY SaveTypes DEF Past
  <2>3. t \notin SavedBy(r) /\ t \in Tensors
    BY <1>2, <2>1, <2>2, RestApart DEF SavedOf
  <2> QED
    BY <1>2, <1>4, <2>3, WriteApart
<1>5. CASE SaveRest(r) /\ Write(r, Rest)
  <2>1. pc[r] \in BeforeRest
    BY <1>5 DEF SaveRest, BeforeRest
  <2>2. Rest \notin SavedBy(r)
    BY <1>2, <2>1 DEF SavedOf
  <2> QED
    BY <1>2, <1>5, <2>2, WriteApart, RestApart
<1>6. CASE Flush(r) /\ SaveOneFile(r) /\ buffer' = [buffer EXCEPT ![r] = {}]
  <2>1. buffer'[r] = {}
    BY <1>6, SaveTypes
  <2>2. DirApart(r)' /\ Temporary(r)' \subseteq DOMAIN dirs'[r]
    BY <1>2, <1>6, FileApart
  <2> QED
    BY <2>1, <2>2 DEF OwnFiles
<1> QED
  BY <1>3, <1>4, <1>5, <1>6 DEF SaveModule, LayerSaved, SaveRest, Flush, Refused, saveVars

(* A numbered file is the temporary one it was, any other is itself.       *)
LEMMA RenameApart ==
  ASSUME IInv, NEW r \in Ranks, OwnFiles(r), Rename(r)
  PROVE  OwnFiles(r)'
<1> DEFINE was(n) == IF n \in Numbered(r) THEN <<n[1], 0>> ELSE n
           names == (DOMAIN dirs[r] \ Temporary(r)) \cup Numbered(r)
<1>1. /\ pc[r] = "rename" /\ pc' = [pc EXCEPT ![r] = "count"] /\ UNCHANGED saveVars
      /\ DOMAIN dirs = Ranks
  BY DEF Rename, IInv, TypeOK
<1>2. pc'[r] \notin BeforeRename /\ Temporary(r) \subseteq DOMAIN dirs[r]
  BY <1>1, SaveTypes DEF BeforeRename, BeforeRest, OwnFiles
<1>3. dirs'[r] = [n \in names |-> IF n \in Numbered(r) THEN dirs[r][<<n[1], 0>>] ELSE dirs[r][n]]
  BY <1>1 DEF Rename
<1>4. \A n \in Numbered(r) : n[1] \in 1 .. Total(r) /\ n[2] = Total(r) /\ n = <<n[1], n[2]>>
  BY DEF Numbered
<1>5. \A n \in Numbered(r) : <<n[1], 0>> \in Temporary(r)
  BY <1>4 DEF Temporary
<1>6. ASSUME NEW n \in DOMAIN dirs'[r]
      PROVE  was(n) \in DOMAIN dirs[r] /\ dirs'[r][n] = dirs[r][was(n)]
  BY <1>2, <1>3, <1>5
<1>7. ASSUME NEW n \in DOMAIN dirs'[r], NEW k \in DOMAIN dirs'[r], n # k
      PROVE  was(n) # was(k)
  <2>1. n \in names /\ k \in names
    BY <1>3
  <2>2. CASE n \in Numbered(r) /\ k \in Numbered(r)
    BY <1>4, <1>7, <2>2
  <2>3. CASE n \notin Numbered(r) \/ k \notin Numbered(r)
    BY <1>5, <1>7, <2>1, <2>3
  <2> QED
    BY <2>2, <2>3
<1> HIDE DEF was
<1>8. InShards(r)' = InShards(r) /\ buffer' = buffer
  BY <1>1 DEF saveVars, InShards
<1>9. \A n \in DOMAIN dirs'[r] : dirs'[r][n] \subseteq InShards(r)
  BY <1>6 DEF OwnFiles, DirApart
<1>10. \A n, k \in DOMAIN dirs'[r] : n # k => dirs'[r][n] \cap dirs'[r][k] = {}
  BY <1>6, <1>7 DEF OwnFiles, DirApart
<1> QED
  BY <1>2, <1>8, <1>9, <1>10 DEF OwnFiles, DirApart

(* All that comes before the merge leaves the save directory empty.        *)
LEMMA BeforeMergeApart ==
  ASSUME IInv, SInv, FilesApart, NEW r \in Ranks,
         SaveModule(r) \/ LayerSaved(r) \/ SaveRest(r) \/ Flush(r) \/ Rename(r)
  PROVE  FilesApart'
<1>1. /\ pc[r] \in {"save", "post_run", "close", "rename"} /\ UNCHANGED <<moved, final>>
  BY DEF SaveModule, LayerSaved, SaveRest, Flush, Rename, mergeVars
<1>2. ~(calls[r] > Layers)
  <2>1. calls[r] <= Layers /\ calls[r] \in Int /\ Layers \in Int
    BY <1>1, Where DEF Fits, InPostRun
  <2> QED
    BY <2>1
<1>3. moved = 0
  <2>1. moved \in 0 .. World /\ World \in Nat
    BY ConstantsAssumption DEF IInv, TypeOK
  <2>2. ~(moved > 0)
    BY <1>2 DEF SInv, MergeLate
  <2> QED
    BY <2>1, <2>2
<1>4. DOMAIN final = {}
  BY <1>3 DEF FilesApart, FinalApart
<1>5. FinalApart'
  BY <1>1, <1>4 DEF FinalApart
<1>6. OwnFiles(r)'
  BY SavingApart, RenameApart DEF FilesApart, SInv
<1>7. ASSUME NEW q \in Ranks \ {r} PROVE OwnFiles(q)'
  <2>1. shards'[q] = shards[q] /\ dirs'[q] = dirs[q] /\ pc'[q] = pc[q]
    <3>1. CASE Rename(r)
      <4>1. DOMAIN dirs = Ranks /\ UNCHANGED saveVars
        BY <3>1 DEF Rename, IInv, TypeOK
      <4> QED
        BY <3>1, <4>1, SaveTypes DEF Rename, saveVars
    <3> QED
      BY <3>1, SavingElsewhere
  <2>2. buffer'[q] = buffer[q]
    <3>1. \/ buffer' = buffer \/ buffer' = [buffer EXCEPT ![r] = buffer'[r]]
      BY SaveTypes DEF SaveModule, LayerSaved, SaveRest, Flush, Rename, Write, Refused, saveVars
    <3> QED
      BY <3>1, SaveTypes
  <2>3. DirApart(q)' = DirApart(q) /\ InShards(q)' = InShards(q) /\ Temporary(q)' = Temporary(q)
    BY <2>1, SameFiles
  <2> QED
    BY <2>1, <2>2, <2>3 DEF FilesApart, OwnFiles
<1> QED
  BY <1>5, <1>6, <1>7 DEF FilesApart

LEMMA StillApart ==
  ASSUME IInv, FilesApart, NEW r \in Ranks,
         \/ Construct(r) \/ Preprocess(r) \/ CountFiles(r) \/ Barrier(r)
         \/ Finishing(r) \/ Fail(r) \/ Terminate(r)
  PROVE  FilesApart'
<1>1. /\ UNCHANGED <<saveVars, dirs, mergeVars>>
      /\ \A q \in Ranks : pc'[q] \in BeforeRename => pc[q] \in BeforeRename
  BY StillElsewhere
<1>2. ASSUME NEW q \in Ranks PROVE OwnFiles(q)'
  <2>1. shards'[q] = shards[q] /\ dirs'[q] = dirs[q] /\ buffer'[q] = buffer[q]
    BY <1>1 DEF saveVars
  <2>2. DirApart(q)' = DirApart(q) /\ InShards(q)' = InShards(q) /\ Temporary(q)' = Temporary(q)
    BY <2>1, SameFiles
  <2> QED
    BY <1>1, <2>1, <2>2 DEF FilesApart, OwnFiles
<1>3. FinalApart'
  BY <1>1 DEF FilesApart, FinalApart, mergeVars
<1> QED
  BY <1>2, <1>3 DEF FilesApart

(* In the merge nothing waits to be renamed.                               *)
LEMMA MergingBeyond ==
  ASSUME IInv, IInv', NEW r \in Ranks, pc[r] \in Merging, calls' = calls, NEW q \in Ranks
  PROVE  pc'[q] \notin BeforeRename
<1>1. calls[q] > Layers
  BY MergesLate
<1>2. Fits(pc'[q], calls[q], layer'[q]) /\ layer'[q] \in 1 .. Layers
  BY DEF IInv, InStep, TypeOK
<1>3. calls[q] \in Int /\ Layers \in Int
  BY SaveTypes
<1> QED
  BY <1>1, <1>2, <1>3 DEF Fits, InPostRun, BeforeRename, BeforeRest

(* A step of the merge leaves files, or takes away all of a directory.     *)
LEMMA MergingOwn ==
  ASSUME IInv, IInv', FilesApart, NEW r \in Ranks, pc[r] \in Merging, calls' = calls,
         UNCHANGED saveVars, \A q \in Ranks : dirs'[q] \in {dirs[q], None}
  PROVE  \A q \in Ranks : OwnFiles(q)'
<1> SUFFICES ASSUME NEW q \in Ranks PROVE OwnFiles(q)'
  OBVIOUS
<1>1. pc'[q] \notin BeforeRename
  BY MergingBeyond
<1>2. InShards(q)' = InShards(q) /\ buffer' = buffer
  BY DEF saveVars, InShards
<1>3. DirApart(q)'
  <2>1. CASE dirs'[q] = dirs[q]
    BY <1>2, <2>1 DEF FilesApart, OwnFiles, DirApart
  <2>2. CASE dirs'[q] = None
    <3>1. DOMAIN dirs'[q] = {}
      BY <2>2 DEF None
    <3> QED
      BY <3>1 DEF DirApart
  <2> QED
    BY <2>1, <2>2
<1> QED
  BY <1>1, <1>2, <1>3 DEF FilesApart, OwnFiles

(* The files that are numbered were apart from each other and from those   *)
(* numbered before.                                                        *)
LEMMA MergeSafetensorFilesApart ==
  ASSUME AllOrOne, IInv, IInv', SInv, FilesApart, NEW r \in Ranks, MergeSafetensorFiles(r)
  PROVE  FilesApart'
<1>1. /\ pc[r] \in Merging /\ calls' = calls /\ UNCHANGED saveVars
      /\ DOMAIN dirs = Ranks /\ moved \in 0 .. World /\ World \in Nat
  BY ConstantsAssumption DEF MergeSafetensorFiles, Merging, IInv, TypeOK
<1>2. CASE moved = World /\ UNCHANGED <<dirs, moved, mapped, final>>
  <2>1. \A q \in Ranks : OwnFiles(q)'
    BY <1>1, <1>2, MergingOwn
  <2> QED
    BY <1>2, <2>1 DEF FilesApart, FinalApart
<1>3. CASE moved < World
  <2> DEFINE files == DOMAIN dirs[moved]
             number == [n \in files |-> Offset(moved) + Place(files, n) + 1]
             numbers == {number[n] : n \in files}
             file(k) == CHOOSE n \in files : number[n] = k
  <2>1. /\ final' = [k \in DOMAIN final \cup numbers |->
                       IF k \in numbers THEN dirs[moved][file(k)] ELSE final[k]]
        /\ dirs' = [dirs EXCEPT ![moved] = None] /\ moved' = moved + 1
    <3>1. moved # World
      BY <1>1, <1>3
    <3> QED
      BY <3>1, Zenon DEF MergeSafetensorFiles
  <2>2. moved \in Ranks
    BY <1>1, <1>3 DEF Ranks
  <2>3. \A k \in numbers : file(k) \in files /\ number[file(k)] = k
    OBVIOUS
  <2> HIDE DEF files, number, numbers, file
  <2>4. /\ dirs'[moved] = None /\ \A q \in Ranks \ {moved} : dirs'[q] = dirs[q]
    BY <1>1, <2>1, <2>2
  <2>5. \A q \in Ranks : OwnFiles(q)'
    <3>1. \A q \in Ranks : dirs'[q] \in {dirs[q], None}
      BY <2>4
    <3> QED
      BY <1>1, <3>1, MergingOwn
  <2>6. /\ DOMAIN final' = DOMAIN final \cup numbers
        /\ \A k \in numbers : final'[k] = dirs[moved][file(k)]
        /\ \A k \in DOMAIN final' \ numbers : k \in DOMAIN final /\ final'[k] = final[k]
    BY <2>1
  <2>7. ASSUME NEW i \in DOMAIN final', NEW j \in DOMAIN final', i # j
        PROVE  final'[i] \cap final'[j] = {}
    <3>1. CASE i \in numbers /\ j \in numbers
      <4>1. file(i) \in files /\ file(j) \in files /\ file(i) # file(j)
        BY <2>3, <2>7, <3>1
      <4> QED
        BY <2>2, <2>6, <3>1, <4>1 DEF FilesApart, OwnFiles, DirApart, files
    <3>2. CASE i \in numbers /\ j \notin numbers
      BY <2>2, <2>3, <2>6, <2>7, <3>2 DEF FilesApart, FinalApart, files
    <3>3. CASE i \notin numbers /\ j \in numbers
      BY <2>2, <2>3, <2>6, <2>7, <3>3 DEF FilesApart, FinalApart, files
    <3>4. CASE i \notin numbers /\ j \notin numbers
      BY <2>6, <2>7, <3>4 DEF FilesApart, FinalApart
    <3> QED
      BY <3>1, <3>2, <3>3, <3>4
  <2>8. ASSUME NEW i \in DOMAIN final', NEW q \in Ranks, NEW n \in DOMAIN dirs'[q]
        PROVE  final'[i] \cap dirs'[q][n] = {}
    <3>1. q # moved /\ dirs'[q] = dirs[q]
      <4>1. DOMAIN None = {}
        BY DEF None
      <4> QED
        BY <2>4, <2>8, <4>1
    <3>2. CASE i \in numbers
      <4>1. dirs[moved][file(i)] \subseteq SavedBy(moved)
        BY <2>2, <2>3, <3>2 DEF FilesApart, OwnFiles, DirApart, InShards, SavedBy, files
      <4>2. dirs[q][n] \subseteq SavedBy(q)
        BY <2>8, <3>1 DEF FilesApart, OwnFiles, DirApart, InShards, SavedBy
      <4>3. SavedBy(moved) \cap SavedBy(q) = {}
        BY <2>2, <3>1, RanksApart DEF SInv
      <4> QED
        BY <2>6, <3>1, <3>2, <4>1, <4>2, <4>3
    <3>3. CASE i \notin numbers
      BY <2>6, <2>8, <3>1, <3>3 DEF FilesApart, FinalApart
    <3> QED
      BY <3>2, <3>3
  <2>9. moved' # 0
    BY <1>1, <2>1
  <2> QED
    BY <2>5, <2>7, <2>8, <2>9 DEF FilesApart, FinalApart
<1> QED
  BY <1>2, <1>3 DEF MergeSafetensorFiles

LEMMA MergeJsonFilesApart ==
  ASSUME IInv, IInv', FilesApart, NEW r \in Ranks, MergeIndexFiles(r) \/ MergeJsonFiles(r)
  PROVE  FilesApart'
<1>1. /\ pc[r] \in Merging /\ calls' = calls /\ UNCHANGED saveVars /\ UNCHANGED <<moved, final>>
      /\ \A q \in Ranks : dirs'[q] \in {dirs[q], None}
  BY DEF MergeIndexFiles, MergeJsonFiles, Merging
<1>2. \A q \in Ranks : OwnFiles(q)'
  BY <1>1, MergingOwn
<1>3. \A q \in Ranks : DOMAIN dirs'[q] = {} \/ dirs'[q] = dirs[q]
  BY <1>1 DEF None
<1>4. FinalApart'
  BY <1>1, <1>3 DEF FilesApart, FinalApart
<1> QED
  BY <1>2, <1>4 DEF FilesApart

LEMMA NextFilesApart ==
  ASSUME AllOrOne, IInv, SInv, FilesApart, [Next]_vars PROVE FilesApart'
<1>1. IInv'
  BY NextIInv
<1>2. CASE UNCHANGED vars
  <2>1. UNCHANGED <<pc, buffer, shards, dirs, moved, final>>
    BY <1>2 DEF vars, saveVars, mergeVars
  <2>2. \A r \in Ranks : /\ DirApart(r)' = DirApart(r) /\ InShards(r)' = InShards(r)
                         /\ Temporary(r)' = Temporary(r)
    BY <2>1, SameFiles
  <2> QED
    BY <2>1, <2>2 DEF FilesApart, OwnFiles, FinalApart
<1>3. ASSUME NEW r \in Ranks, Step(r) \/ Fail(r) \/ Terminate(r)
      PROVE  FilesApart'
  BY <1>1, <1>3, BeforeMergeApart, StillApart, MergeSafetensorFilesApart, MergeJsonFilesApart
     DEF Step, Saving, Merge
<1> QED
  BY <1>2, <1>3 DEF Next, Over

(* If a module is on every rank or on one, no tensor is saved twice, nor   *)
(* is it in two files of the merged model.                                 *)
THEOREM SavedOnceTheorem == ASSUME AllOrOne PROVE Spec => []SavedOnce
<1>1. Init => IInv /\ SInv /\ FilesApart
  BY InitIInv, InitSaved, InitFiles, InitFilesApart DEF SInv
<1>2. (IInv /\ SInv /\ FilesApart) /\ [Next]_vars => (IInv /\ SInv /\ FilesApart)'
  BY NextIInv, NextSInv, NextFilesApart
<1>3. IInv /\ SInv /\ FilesApart => SavedOnce
  BY RanksApart DEF SInv, FilesApart, FinalApart, SavedOnce
<1> QED
  BY <1>1, <1>2, <1>3, PTL DEF Spec

-----------------------------------------------------------------------------
(* The merge numbers the files of the ranks without gaps or overlaps, and  *)
(* every shard is under the number the index gets for it.                  *)

(* Files sorted by name have places of their own, from 0 on.               *)
LEMMA PlaceGrows ==
  ASSUME NEW files, files \subseteq Nat \X Nat, IsFiniteSet(files),
         NEW a \in files, NEW b \in files, Before(a, b)
  PROVE  Place(files, a) < Place(files, b)
<1> DEFINE A == {k \in files : Before(k, a)}
           B == {k \in files : Before(k, b)}
<1>1. ASSUME NEW k \in A PROVE k \in B
  <2>1. /\ k[1] \in Int /\ k[2] \in Int /\ a[1] \in Int /\ a[2] \in Int
        /\ b[1] \in Int /\ b[2] \in Int
    BY <1>1
  <2>2. Before(k, b)
    BY <1>1, <2>1 DEF Before
  <2> QED
    BY <1>1, <2>2
<1>2. a \in B /\ a \notin A
  <2>1. a[1] \in Int /\ a[2] \in Int
    OBVIOUS
  <2> QED
    BY <2>1 DEF Before
<1>3. IsFiniteSet(B) /\ A \subseteq B /\ A # B
  BY <1>1, <1>2, FS_Subset
<1> HIDE DEF A, B
<1>4. /\ IsFiniteSet(A) /\ Cardinality(A) <= Cardinality(B)
      /\ Cardinality(A) # Cardinality(B)
  BY <1>3, FS_Subset
<1>5. Cardinality(A) \in Nat /\ Cardinality(B) \in Nat
  BY <1>3, <1>4, FS_CardinalityType
<1> QED
  BY <1>4, <1>5 DEF Place, A, B

LEMMA PlaceApart ==
  ASSUME NEW files, files \subseteq Nat \X Nat, IsFiniteSet(files),
         NEW a \in files, NEW b \in files, a # b
  PROVE  Place(files, a) # Place(files, b)
<1>1. a = <<a[1], a[2]>> /\ b = <<b[1], b[2]>> /\ a[1] \in Int /\ a[2] \in Int
      /\ b[1] \in Int /\ b[2] \in Int
  OBVIOUS
<1>2. Before(a, b) \/ Before(b, a)
  BY <1>1 DEF Before
<1>3. Place(files, a) \in Int /\ Place(files, b) \in Int
  BY FS_Subset, FS_CardinalityType DEF Place
<1> QED
  BY <1>2, <1>3, PlaceGrows

LEMMA PlaceBound ==
  ASSUME NEW files, files \subseteq Nat \X Nat, IsFiniteSet(files), NEW n \in files
  PROVE  Place(files, n) \in Nat /\ Place(files, n) < Cardinality(files)
<1> DEFINE A == {k \in files : Before(k, n)}
<1>1. A \subseteq files /\ n \notin A
  BY DEF Before
<1> HIDE DEF A
<1>2. IsFiniteSet(A) /\ Cardinality(A) <= Cardinality(files) /\ Cardinality(A) # Cardinality(files)
  BY <1>1, FS_Subset
<1>3. Cardinality(A) \in Nat /\ Cardinality(files) \in Nat
  BY <1>2, FS_CardinalityType
<1> QED
  BY <1>2, <1>3 DEF Place, A

(* The files of a rank follow those of the ranks before it.                *)
LEMMA OffsetNext ==
  ASSUME counted \in [Ranks -> Nat], NEW q \in Ranks
  PROVE  Offset(q) \in Nat /\ Offset(q + 1) = Offset(q) + counted[q]
<1>1. q \in Nat /\ World \in Nat /\ q < World
  BY ConstantsAssumption DEF Ranks
<1>2. 0 .. (q + 1) - 1 = (0 .. q - 1) \cup {q} /\ q \notin 0 .. q - 1
  BY <1>1
<1>3. IsFiniteSet(0 .. q - 1)
  BY <1>1, FS_Interval
<1>4. \A p \in (0 .. q - 1) \cup {q} : counted[p] \in Nat
  BY <1>1 DEF Ranks
<1>5. Offset(q) = SumOf(counted, 0 .. q - 1) /\ Offset(q + 1) = SumOf(counted, (0 .. q - 1) \cup {q})
  <2>1. q + 1 \in Nat
    BY <1>1
  <2>2. Offset(q + 1) = SumOf(counted, 0 .. (q + 1) - 1)
    BY <2>1, OffsetIsSum
  <2>3. Offset(q) = SumOf(counted, 0 .. q - 1)
    BY <1>1, OffsetIsSum
  <2> QED
    BY <1>2, <2>2, <2>3
<1>6. SumOf(counted, 0 .. q - 1) \in Nat
  BY <1>3, <1>4, SumType
<1>7. SumOf(counted, (0 .. q - 1) \cup {q}) = counted[q] + SumOf(counted, 0 .. q - 1)
  BY <1>2, <1>3, <1>4, SumAdd
<1> QED
  BY <1>1, <1>5, <1>6, <1>7

(* A shard is in the file of its temporary name until the renaming, then   *)
(* in that of its number, and after the merge in the one the number maps   *)
(* to.                                                                     *)
ContentsOf(r) ==
  /\ pc[r] \in BeforeRename =>
       \A i \in 1 .. Total(r) : <<i, 0>> \in DOMAIN dirs[r] /\ dirs[r][<<i, 0>>] = shards[r][i]
  /\ FilesDue(r) =>
       \A i \in 1 .. Total(r) :
         LET n == <<i, Total(r)>>
         IN IF r < moved
            THEN mapped[r][n] \in DOMAIN final /\ final[mapped[r][n]] = shards[r][i]
            ELSE dirs[r][n] = shards[r][i]

(* The files of a directory that is not emptied yet are counted right.     *)
CountedOf(r) == calls[r] > Layers /\ r >= moved => counted[r] = FileCount(r)

Numbering == DOMAIN final \subseteq 1 .. Offset(moved)

IndexLast == (desc # {} => pc[0] \notin BeforeIndex) /\ IndexComplete

MInv == (\A r \in Ranks : ContentsOf(r) /\ CountedOf(r)) /\ Numbering /\ IndexLast

LEMMA NumberingSum ==
  /\ Numbering <=> DOMAIN final \subseteq 1 .. SumOf(counted, 0 .. moved - 1)
  /\ Numbering' <=> DOMAIN final' \subseteq 1 .. SumOf(counted', 0 .. moved' - 1)
BY DEF Numbering, Offset, SumOf, Sums, Some, MapThenSumSet, MapThenFoldSet

LEMMA InitMInv == Init => MInv
<1> SUFFICES ASSUME Init PROVE MInv
  OBVIOUS
<1>1. \A r \in Ranks : Total(r) = 0 /\ calls[r] = 0 /\ pc[r] = "construct"
  BY DEF Init, Total
<1>2. \A r \in Ranks : ContentsOf(r) /\ CountedOf(r)
  BY <1>1, ConstantsAssumption DEF ContentsOf, CountedOf
<1>3. Numbering
  <2>1. moved = 0 /\ DOMAIN final = {}
    BY DEF Init, None
  <2> QED
    BY <2>1 DEF Numbering
<1>4. IndexLast
  <2>1. desc = {} /\ pc[0] = "construct"
    BY <1>1, ConstantsAssumption DEF Init, Ranks
  <2> QED
    BY <2>1 DEF IndexLast, IndexComplete
<1> QED
  BY <1>2, <1>3, <1>4 DEF MInv

(* Until rank 0 makes the index, and after it, its parts depend on little. *)
LEMMA IndexKept ==
  ASSUME IndexLast, UNCHANGED <<index, final, desc>>,
         pc'[0] = "merge_json" => pc[0] = "merge_json",
         pc'[0] \in BeforeIndex => pc[0] \in BeforeIndex
  PROVE  IndexLast'
BY DEF IndexLast, IndexComplete

LEMMA NumberingKept ==
  ASSUME Numbering, UNCHANGED <<final, moved, counted>>
  PROVE  Numbering'
<1>1. 0 .. moved' - 1 = 0 .. moved - 1 /\ DOMAIN final' = DOMAIN final
  OBVIOUS
<1> QED
  BY <1>1, NumberingSum

(* What a rank has in files depends on its own directory only, and on what *)
(* was made of it.                                                         *)
LEMMA ContentsKept ==
  ASSUME NEW r \in Ranks, ContentsOf(r),
         shards'[r] = shards[r], dirs'[r] = dirs[r], UNCHANGED <<moved, mapped, final>>,
         pc'[r] \in BeforeRename => pc[r] \in BeforeRename,
         FilesDue(r)' => FilesDue(r)
  PROVE  ContentsOf(r)'
<1>1. Total(r)' = Total(r)
  BY DEF Total
<1> QED
  BY <1>1 DEF ContentsOf

LEMMA CountedKept ==
  ASSUME NEW r \in Ranks, CountedOf(r), dirs'[r] = dirs[r], UNCHANGED moved,
         calls'[r] > Layers => calls[r] > Layers, counted'[r] = counted[r]
  PROVE  CountedOf(r)'
BY DEF CountedOf, FileCount

(* A rank that saves adds at most a shard, in a file of the next number.   *)
LEMMA FileContents ==
  ASSUME IInv, NEW r \in Ranks, ContentsOf(r), pc[r] \in BeforeRename, SaveOneFile(r)
  PROVE  \A i \in 1 .. Total(r)' : <<i, 0>> \in DOMAIN dirs'[r] /\ dirs'[r][<<i, 0>>] = shards'[r][i]
<1> DEFINE name == NewShard(r)
<1>1. DOMAIN dirs = Ranks
  BY DEF IInv, TypeOK
<1>2. dirs'[r] = [n \in DOMAIN dirs[r] \cup {name} |-> IF n = name THEN buffer[r] ELSE dirs[r][n]]
  BY <1>1 DEF SaveOneFile, PutFile
<1>3. shards'[r] = Append(shards[r], buffer[r]) /\ shards[r] \in Seq(SUBSET Tensors)
  BY SaveTypes DEF SaveOneFile
<1>4. Total(r) \in Nat /\ Total(r)' = Total(r) + 1 /\ name = <<Total(r) + 1, 0>>
  BY <1>3 DEF Total, NewShard
<1> HIDE DEF name
<1> SUFFICES ASSUME NEW i \in 1 .. Total(r)'
             PROVE  <<i, 0>> \in DOMAIN dirs'[r] /\ dirs'[r][<<i, 0>>] = shards'[r][i]
  OBVIOUS
<1>5. CASE i = Total(r) + 1
  <2>1. shards'[r][i] = buffer[r]
    BY <1>3, <1>5 DEF Total
  <2> QED
    BY <1>2, <1>4, <1>5, <2>1
<1>6. CASE i # Total(r) + 1
  <2>1. i \in 1 .. Total(r) /\ <<i, 0>> # name
    BY <1>4, <1>6
  <2>2. shards'[r][i] = shards[r][i]
    BY <1>3, <2>1 DEF Total
  <2>3. <<i, 0>> \in DOMAIN dirs[r] /\ dirs[r][<<i, 0>>] = shards[r][i]
    BY <2>1 DEF ContentsOf
  <2> QED
    BY <1>2, <2>1, <2>2, <2>3
<1> QED
  BY <1>5, <1>6

LEMMA RankZero == 0 \in Ranks
BY ConstantsAssumption DEF Ranks

LEMMA SavingMInv ==
  ASSUME IInv, IInv', MInv, NEW r \in Ranks,
         SaveModule(r) \/ LayerSaved(r) \/ SaveRest(r) \/ Flush(r)
  PROVE  MInv'
<1>1. /\ UNCHANGED mergeVars /\ calls' = calls /\ pc[r] \in BeforeIndex /\ ~FilesDue(r)'
      /\ \A q \in Ranks \ {r} : shards'[q] = shards[q] /\ dirs'[q] = dirs[q] /\ pc'[q] = pc[q]
  BY SavingElsewhere
<1>2. UNCHANGED <<moved, mapped, final, index, desc>> /\ UNCHANGED counted
  BY <1>1 DEF mergeVars, SaveModule, LayerSaved, SaveRest, Flush
<1>3. pc[r] \in {"save", "post_run", "close"}
  BY DEF SaveModule, LayerSaved, SaveRest, Flush
<1>4. pc[r] \in BeforeRename
  BY <1>3 DEF BeforeRename, BeforeRest
<1>5. ContentsOf(r)'
  <2>1. CASE UNCHANGED <<shards, dirs>>
    BY <1>1, <1>2, <1>4, <2>1, ContentsKept DEF MInv
  <2>2. CASE SaveOneFile(r)
    BY <1>1, <1>4, <2>2, FileContents DEF MInv, ContentsOf
  <2> QED
    BY <2>1, <2>2 DEF SaveModule, LayerSaved, SaveRest, Flush, Write, Refused, saveVars
<1>6. \A q \in Ranks \ {r} : ContentsOf(q)'
  <2> SUFFICES ASSUME NEW q \in Ranks \ {r} PROVE ContentsOf(q)'
    OBVIOUS
  <2>1. FilesDue(q)' => FilesDue(q)
    BY <1>1 DEF FilesDue
  <2> QED
    BY <1>1, <1>2, <2>1, ContentsKept DEF MInv
<1>7. CountedOf(r)'
  BY <1>1 DEF FilesDue, CountedOf
<1>8. \A q \in Ranks \ {r} : CountedOf(q)'
  BY <1>1, <1>2, CountedKept DEF MInv
<1>9. Numbering'
  BY <1>2, NumberingKept DEF MInv
<1>10. IndexLast'
  <2>1. pc'[0] = "merge_json" => pc[0] = "merge_json"
    <3>1. CASE r = 0
      <4>1. Fits(pc'[0], calls'[0], layer'[0]) /\ calls'[0] \in Int /\ Layers \in Int
        <5>1. Fits(pc'[0], calls'[0], layer'[0])
          BY RankZero DEF IInv, InStep
        <5>2. calls'[0] \in Int /\ Layers \in Int
          BY <1>1, RankZero, SaveTypes
        <5> QED
          BY <5>1, <5>2
      <4>2. pc'[0] = "merge_json" => FilesDue(0)'
        BY <4>1 DEF Fits, AfterBarrier, Merging, FilesDue
      <4> QED
        BY <1>1, <3>1, <4>2
    <3>2. CASE r # 0
      BY <1>1, <3>2, RankZero
    <3> QED
      BY <3>1, <3>2
  <2>2. pc'[0] \in BeforeIndex => pc[0] \in BeforeIndex
    BY <1>1, RankZero
  <2> QED
    BY <1>2, <2>1, <2>2, IndexKept DEF MInv
<1> QED
  BY <1>5, <1>6, <1>7, <1>8, <1>9, <1>10 DEF MInv

(* Counting the files is the one step that changes a count. *)
LEMMA CountsBefore ==
  ASSUME IInv, NEW r \in Ranks,
         \/ Construct(r) \/ Preprocess(r) \/ CountFiles(r) \/ Barrier(r)
         \/ Finishing(r) \/ Fail(r) \/ Terminate(r)
  PROVE  \/ /\ counted' = counted
            /\ \A q \in Ranks : calls'[q] > Layers => calls[q] > Layers
         \/ /\ pc[r] = "count" /\ counted' = [counted EXCEPT ![r] = FileCount(r)]
            /\ \A q \in Ranks \ {r} : calls'[q] = calls[q]
<1>1. CASE calls' = calls /\ counted' = counted
  BY <1>1
<1>2. CASE /\ pc[r] \in {"preprocess", "barrier"} /\ calls' = [calls EXCEPT ![r] = @ + 1]
           /\ counted' = counted
  <2>1. calls'[r] = calls[r] + 1 /\ \A q \in Ranks \ {r} : calls'[q] = calls[q]
    BY <1>2, SaveTypes
  <2>2. pc[r] = "preprocess" => calls[r] + 1 <= Layers
    BY Where DEF Fits
  <2>3. pc[r] = "barrier" => calls[r] > Layers
    BY Where DEF Fits
  <2>4. calls[r] \in Int /\ Layers \in Int
    BY SaveTypes
  <2>5. calls'[r] > Layers => calls[r] > Layers
    BY <1>2, <2>1, <2>2, <2>3, <2>4
  <2> QED
    BY <1>2, <2>1, <2>5
<1>3. CASE /\ pc[r] = "count" /\ counted' = [counted EXCEPT ![r] = FileCount(r)]
           /\ calls' = [calls EXCEPT ![r] = @ + 1]
  BY <1>3, SaveTypes
<1>4. CASE Preprocess(r) \/ Barrier(r)
  BY <1>1, <1>2, <1>4 DEF Preprocess, Barrier, Enter, Leave
<1>5. CASE CountFiles(r)
  BY <1>1, <1>3, <1>5 DEF CountFiles, Enter, Leave
<1>6. CASE Construct(r) \/ Finishing(r) \/ Fail(r) \/ Terminate(r)
  BY <1>1, <1>6 DEF Construct, Finishing, OpenConfig, WriteConfig, RemoveQuantizationConfig,
                    SavePostprocess, Fail, Terminate
<1> QED
  BY <1>4, <1>5, <1>6

(* None of these steps takes a rank to the last file of the merge. *)
LEMMA NotToMergeJson ==
  ASSUME IInv, NEW r \in Ranks,
         \/ Construct(r) \/ Preprocess(r) \/ CountFiles(r) \/ Barrier(r)
         \/ Finishing(r) \/ Fail(r) \/ Terminate(r) \/ Rename(r)
  PROVE  pc'[0] = "merge_json" => pc[0] = "merge_json"
<1>1. PICK where : pc' = [pc EXCEPT ![r] = where] /\ where # "merge_json"
  BY DEF Construct, Preprocess, CountFiles, Barrier, Enter, Leave, Finishing, OpenConfig,
         WriteConfig, RemoveQuantizationConfig, SavePostprocess, Fail, Terminate, Rename
<1> QED
  BY <1>1, SaveTypes, RankZero

LEMMA StillMInv ==
  ASSUME IInv, SInv, MInv, NEW r \in Ranks,
         \/ Construct(r) \/ Preprocess(r) \/ CountFiles(r) \/ Barrier(r)
         \/ Finishing(r) \/ Fail(r) \/ Terminate(r)
  PROVE  MInv'
<1>1. /\ UNCHANGED <<saveVars, dirs, mergeVars>>
      /\ \A q \in Ranks : FilesDue(q)' => FilesDue(q)
      /\ \A q \in Ranks : /\ pc'[q] \in BeforeIndex => pc[q] \in BeforeIndex
                          /\ pc'[q] \in BeforeRename => pc[q] \in BeforeRename
  BY StillElsewhere
<1>2. UNCHANGED <<shards, dirs, moved, mapped, final, index, desc>>
  BY <1>1 DEF saveVars, mergeVars
<1>3. \A q \in Ranks : ContentsOf(q)'
  BY <1>1, <1>2, ContentsKept DEF MInv
<1>4. IndexLast'
  BY <1>1, <1>2, RankZero, NotToMergeJson, IndexKept DEF MInv
<1>5. CASE counted' = counted /\ \A q \in Ranks : calls'[q] > Layers => calls[q] > Layers
  <2>1. \A q \in Ranks : CountedOf(q)'
    BY <1>2, <1>5, CountedKept DEF MInv
  <2>2. Numbering'
    BY <1>2, <1>5, NumberingKept DEF MInv
  <2> QED
    BY <1>3, <1>4, <2>1, <2>2 DEF MInv
<1>6. CASE /\ pc[r] = "count" /\ counted' = [counted EXCEPT ![r] = FileCount(r)]
           /\ \A q \in Ranks \ {r} : calls'[q] = calls[q]
  <2>1. counted \in [Ranks -> Nat] /\ moved \in 0 .. World /\ World \in Nat
    BY ConstantsAssumption DEF IInv, TypeOK
  <2>2. \A q \in Ranks : FileCount(q)' = FileCount(q)
    BY <1>2 DEF FileCount
  <2>3. \A q \in Ranks : CountedOf(q)'
    BY <1>2, <1>6, <2>1, <2>2 DEF MInv, CountedOf
  <2>4. moved = 0
    <3>1. ~(calls[r] > Layers)
      BY <1>6, Where DEF Fits, InPostRun
    <3> QED
      BY <2>1, <3>1 DEF SInv, MergeLate
  <2>5. Numbering'
    <3>1. 0 .. moved - 1 = {} /\ 0 .. moved' - 1 = {}
      BY <1>2, <2>4
    <3>2. SumOf(counted, {}) = 0 /\ SumOf(counted', {}) = 0
      BY FS_EmptySet, SumStep
    <3> QED
      BY <1>2, <3>1, <3>2, NumberingSum DEF MInv
  <2> QED
    BY <1>3, <1>4, <2>3, <2>5 DEF MInv
<1> QED
  BY <1>5, <1>6, CountsBefore

(* The renaming keeps what is in the files of the rank. *)
LEMMA RenameMInv ==
  ASSUME IInv, SInv, MInv, NEW r \in Ranks, Rename(r)
  PROVE  MInv'
<1>1. /\ pc[r] = "rename" /\ pc' = [pc EXCEPT ![r] = "count"] /\ calls' = calls
      /\ UNCHANGED <<shards, moved, mapped, final, index, desc>> /\ UNCHANGED counted
      /\ DOMAIN dirs = Ranks
  BY DEF Rename, saveVars, mergeVars, IInv, TypeOK
<1>2. ~(calls[r] > Layers)
  BY <1>1, Where DEF Fits, InPostRun
<1>3. moved = 0 /\ ~(r < moved)
  <2>1. moved \in 0 .. World /\ World \in Nat /\ r \in Nat
    BY ConstantsAssumption DEF IInv, TypeOK, Ranks
  <2> QED
    BY <1>2, <2>1 DEF SInv, MergeLate
<1>4. pc'[r] = "count" /\ \A q \in Ranks \ {r} : pc'[q] = pc[q]
  BY <1>1, SaveTypes
<1>5. dirs'[r] = [n \in (DOMAIN dirs[r] \ Temporary(r)) \cup Numbered(r) |->
                    IF n \in Numbered(r) THEN dirs[r][<<n[1], 0>>] ELSE dirs[r][n]]
  BY <1>1 DEF Rename
<1>6. \A q \in Ranks \ {r} : dirs'[q] = dirs[q]
  BY <1>1 DEF Rename
<1>7. Total(r)' = Total(r)
  BY <1>1 DEF Total
<1>8. pc[r] \in BeforeRename /\ pc'[r] \notin BeforeRename
  BY <1>1, <1>4 DEF BeforeRename, BeforeRest
<1>9. ContentsOf(r)'
  <2>1. ASSUME NEW i \in 1 .. Total(r)
        PROVE  dirs'[r][<<i, Total(r)>>] = shards'[r][i]
    <3>1. <<i, Total(r)>> \in Numbered(r) /\ <<i, Total(r)>>[1] = i
      BY DEF Numbered
    <3>2. dirs'[r][<<i, Total(r)>>] = dirs[r][<<i, 0>>]
      BY <1>5, <3>1
    <3> QED
      BY <1>1, <1>8, <3>2 DEF MInv, ContentsOf
  <2> QED
    BY <1>1, <1>3, <1>7, <1>8, <2>1 DEF ContentsOf
<1>10. \A q \in Ranks \ {r} : ContentsOf(q)'
  <2> SUFFICES ASSUME NEW q \in Ranks \ {r} PROVE ContentsOf(q)'
    OBVIOUS
  <2>1. FilesDue(q)' => FilesDue(q)
    BY <1>1, <1>4 DEF FilesDue
  <2> QED
    BY <1>1, <1>4, <1>6, <2>1, ContentsKept DEF MInv
<1>11. CountedOf(r)'
  BY <1>1, <1>2 DEF CountedOf
<1>12. \A q \in Ranks \ {r} : CountedOf(q)'
  BY <1>1, <1>6, CountedKept DEF MInv
<1>13. Numbering'
  BY <1>1, NumberingKept DEF MInv
<1>14. IndexLast'
  <2>1. pc'[0] \in BeforeIndex => pc[0] \in BeforeIndex
    BY <1>1, <1>4, RankZero DEF BeforeIndex
  <2> QED
    BY <1>1, <2>1, NotToMergeJson, IndexKept DEF MInv
<1> QED
  BY <1>9, <1>10, <1>11, <1>12, <1>13, <1>14 DEF MInv

(* Emptying a directory adds its files to the save directory, each under   *)
(* the number it is mapped to, and leaves those that are there.            *)
LEMMA OneDirectory ==
  ASSUME IInv, MInv, NEW r \in Ranks, MergeSafetensorFiles(r), moved < World
  PROVE  /\ moved \in Ranks /\ moved' = moved + 1 /\ pc' = pc
         /\ \A q \in Ranks \ {moved} : dirs'[q] = dirs[q]
         /\ DOMAIN mapped = Ranks => \A q \in Ranks \ {moved} : mapped'[q] = mapped[q]
         /\ \A k \in DOMAIN final : k \in DOMAIN final' /\ final'[k] = final[k]
         /\ DOMAIN mapped = Ranks =>
              \A n \in DOMAIN dirs[moved] : /\ mapped'[moved][n] \in DOMAIN final'
                                            /\ final'[mapped'[moved][n]] = dirs[moved][n]
         /\ DOMAIN final' \subseteq 1 .. Offset(moved + 1)
<1> DEFINE files == DOMAIN dirs[moved]
           number == [n \in files |-> Offset(moved) + Place(files, n) + 1]
           numbers == {number[n] : n \in files}
           file(k) == CHOOSE n \in files : number[n] = k
<1>1. /\ moved \in 0 .. World /\ World \in Nat /\ counted \in [Ranks -> Nat]
      /\ DOMAIN dirs = Ranks /\ \A q \in Ranks : DOMAIN dirs[q] \subseteq Nat \X Nat
      /\ \A q \in Ranks : IsFiniteSet(DOMAIN dirs[q])
  BY ConstantsAssumption DEF IInv, TypeOK, FiniteDirs
<1>2. moved \in Ranks /\ moved # World
  BY <1>1 DEF Ranks
<1>3. /\ final' = [k \in DOMAIN final \cup numbers |->
                     IF k \in numbers THEN dirs[moved][file(k)] ELSE final[k]]
      /\ mapped' = [mapped EXCEPT ![moved] = number]
      /\ dirs' = [dirs EXCEPT ![moved] = None] /\ moved' = moved + 1 /\ pc' = pc
  BY <1>2, Zenon DEF MergeSafetensorFiles
<1>4. files \subseteq Nat \X Nat /\ IsFiniteSet(files)
  BY <1>1, <1>2
<1>5. counted[moved] = Cardinality(files)
  <2>1. pc[r] \in Merging
    BY DEF MergeSafetensorFiles, Merging
  <2>2. calls[moved] > Layers
    BY <1>2, <2>1, MergesLate
  <2>3. moved >= moved
    BY <1>1
  <2>4. CountedOf(moved)
    BY <1>2 DEF MInv
  <2> QED
    BY <2>2, <2>3, <2>4 DEF CountedOf, FileCount
<1>6. /\ Offset(moved) \in Nat /\ counted[moved] \in Nat
      /\ Offset(moved + 1) = Offset(moved) + counted[moved]
  BY <1>1, <1>2, OffsetNext
<1>7. \A n \in files : number[n] = Offset(moved) + Place(files, n) + 1
  OBVIOUS
<1> HIDE DEF files
<1>8. \A n \in files : Place(files, n) \in Nat /\ Place(files, n) < counted[moved]
  BY <1>4, <1>5, PlaceBound
<1>9. \A a, b \in files : a # b => Place(files, a) # Place(files, b)
  BY <1>4, PlaceApart
<1> HIDE DEF number
<1>10. \A n \in files : number[n] > Offset(moved) /\ number[n] \in 1 .. Offset(moved + 1)
  BY <1>6, <1>7, <1>8
<1>11. \A a, b \in files : number[a] = number[b] => a = b
  BY <1>6, <1>7, <1>8, <1>9
<1>12. \A n \in files : file(number[n]) = n
  <2> SUFFICES ASSUME NEW n \in files PROVE file(number[n]) = n
    OBVIOUS
  <2>1. file(number[n]) \in files /\ number[file(number[n])] = number[n]
    OBVIOUS
  <2> HIDE DEF file
  <2> QED
    BY <1>11, <2>1
<1>13. \A n \in files : number[n] \in numbers
  OBVIOUS
<1>14. \A k \in numbers : k > Offset(moved) /\ k \in 1 .. Offset(moved + 1)
  BY <1>10
<1> HIDE DEF numbers, file
<1>15. \A k \in DOMAIN final : k \in 1 .. Offset(moved)
  BY DEF MInv, Numbering
<1>16. \A k \in DOMAIN final : k \notin numbers
  BY <1>6, <1>14, <1>15
<1>17. \A k \in DOMAIN final : k \in DOMAIN final' /\ final'[k] = final[k]
  BY <1>3, <1>16
<1>18. \A n \in files : number[n] \in DOMAIN final' /\ final'[number[n]] = dirs[moved][n]
  BY <1>3, <1>12, <1>13
<1>19. DOMAIN final' \subseteq 1 .. Offset(moved + 1)
  <2>1. 1 .. Offset(moved) \subseteq 1 .. Offset(moved + 1)
    BY <1>6
  <2> QED
    BY <1>3, <1>14, <1>15, <2>1
<1>20. DOMAIN mapped = Ranks =>
         mapped'[moved] = number /\ \A q \in Ranks \ {moved} : mapped'[q] = mapped[q]
  BY <1>2, <1>3
<1>21. \A q \in Ranks \ {moved} : dirs'[q] = dirs[q]
  BY <1>1, <1>3
<1> QED
  BY <1>2, <1>3, <1>17, <1>18, <1>19, <1>20, <1>21 DEF files

LEMMA MergeSafetensorFilesMInv ==
  ASSUME IInv, IInv', SInv, MInv, NEW r \in Ranks, MergeSafetensorFiles(r)
  PROVE  MInv'
<1>1. /\ pc[r] = "merge_files" /\ pc[r] \in Merging /\ calls' = calls
      /\ UNCHANGED <<shards, index, desc>> /\ UNCHANGED counted
      /\ moved \in 0 .. World /\ World \in Nat /\ counted \in [Ranks -> Nat]
  BY ConstantsAssumption DEF MergeSafetensorFiles, Merging, saveVars, IInv, TypeOK
<1>2. r = 0 /\ \A q \in Ranks : calls[q] > Layers
  BY <1>1, MergesLate
<1>3. \A q \in Ranks : pc'[q] \notin BeforeRename
  BY <1>1, MergingBeyond
<1>4. \A q \in Ranks : FilesDue(q) /\ Total(q)' = Total(q)
  BY <1>1, <1>2 DEF FilesDue, Total
<1>5. pc[0] \in BeforeIndex
  BY <1>1, <1>2 DEF BeforeIndex
<1>6. CASE /\ moved = World /\ UNCHANGED <<dirs, moved, mapped, final>>
           /\ pc' = [pc EXCEPT ![r] = "merge_index"]
  <2>1. \A q \in Ranks : ContentsOf(q)'
    BY <1>1, <1>3, <1>4, <1>6, ContentsKept DEF MInv
  <2>2. \A q \in Ranks : CountedOf(q)'
    BY <1>1, <1>6, CountedKept DEF MInv
  <2>3. Numbering'
    BY <1>1, <1>6, NumberingKept DEF MInv
  <2>4. pc'[0] = "merge_index"
    BY <1>2, <1>6, SaveTypes
  <2>5. IndexLast'
    BY <1>1, <1>5, <1>6, <2>4, IndexKept DEF MInv
  <2> QED
    BY <2>1, <2>2, <2>3, <2>5 DEF MInv
<1>7. CASE moved < World
  <2>1. DOMAIN mapped = Ranks
    BY DEF SInv, MergeLate
  <2>2. /\ moved \in Ranks /\ moved' = moved + 1 /\ pc' = pc
        /\ \A q \in Ranks \ {moved} : dirs'[q] = dirs[q] /\ mapped'[q] = mapped[q]
        /\ \A k \in DOMAIN final : k \in DOMAIN final' /\ final'[k] = final[k]
        /\ \A n \in DOMAIN dirs[moved] : /\ mapped'[moved][n] \in DOMAIN final'
                                         /\ final'[mapped'[moved][n]] = dirs[moved][n]
        /\ DOMAIN final' \subseteq 1 .. Offset(moved + 1)
    BY <1>7, <2>1, OneDirectory
  <2>3. ASSUME NEW q \in Ranks PROVE ContentsOf(q)'
    <3>1. q \in Int
      BY <1>1 DEF Ranks
    <3> SUFFICES ASSUME NEW i \in 1 .. Total(q)
                 PROVE  LET n == <<i, Total(q)>>
                        IN IF q < moved'
                           THEN mapped'[q][n] \in DOMAIN final' /\ final'[mapped'[q][n]] = shards[q][i]
                           ELSE dirs'[q][n] = shards[q][i]
      BY <1>1, <1>3, <1>4 DEF ContentsOf
    <3> DEFINE n == <<i, Total(q)>>
    <3>2. IF q < moved
          THEN mapped[q][n] \in DOMAIN final /\ final[mapped[q][n]] = shards[q][i]
          ELSE dirs[q][n] = shards[q][i]
      BY <1>4 DEF MInv, ContentsOf
    <3>3. CASE q < moved
      <4>1. q < moved' /\ mapped'[q] = mapped[q]
        BY <1>1, <2>2, <3>1, <3>3
      <4> QED
        BY <2>2, <3>2, <3>3, <4>1
    <3>4. CASE q = moved
      <4>1. q < moved' /\ ~(q < moved)
        BY <1>1, <2>2, <3>4
      <4>2. n \in Numbered(q)
        BY DEF Numbered
      <4>3. n \in DOMAIN dirs[q]
        BY <1>2, <4>1, <4>2 DEF SInv, HasFiles
      <4> QED
        BY <2>2, <3>2, <3>4, <4>1, <4>3
    <3>5. CASE q > moved
      <4>1. ~(q < moved') /\ ~(q < moved) /\ dirs'[q] = dirs[q]
        BY <1>1, <2>2, <3>1, <3>5
      <4> QED
        BY <3>2, <4>1
    <3> QED
      BY <1>1, <3>1, <3>3, <3>4, <3>5
  <2>4. ASSUME NEW q \in Ranks PROVE CountedOf(q)'
    <3>1. q \in Int
      BY <1>1 DEF Ranks
    <3>2. q >= moved' => q >= moved /\ dirs'[q] = dirs[q]
      BY <1>1, <2>2, <3>1
    <3> QED
      BY <1>1, <3>2 DEF MInv, CountedOf, FileCount
  <2>5. Numbering'
    <3>1. Offset(moved + 1) = SumOf(counted, 0 .. (moved + 1) - 1)
      BY <1>1, OffsetIsSum
    <3> QED
      BY <1>1, <2>2, <3>1, NumberingSum
  <2>6. IndexLast'
    BY <1>1, <1>2, <1>5, <2>2 DEF MInv, IndexLast, IndexComplete
  <2> QED
    BY <2>3, <2>4, <2>5, <2>6 DEF MInv
<1> QED
  BY <1>6, <1>7 DEF MergeSafetensorFiles

(* A finite set of numbers has a greatest element. *)
LEMMA GreatestIn ==
  ASSUME NEW S, S \subseteq Int, IsFiniteSet(S), S # {}
  PROVE  Max(S) \in S
<1> DEFINE Bad == {{y \in S : y > x} : x \in S}
<1>1. PICK U \in Bad : \A V \in Bad : V \subseteq U => V = U
  <2>1. Bad \subseteq SUBSET S /\ Bad # {}
    OBVIOUS
  <2>2. IsFiniteSet(S)
    OBVIOUS
  <2> HIDE DEF Bad
  <2> QED
    BY ONLY <2>1, <2>2, SmallestSet
<1>2. PICK x \in S : U = {y \in S : y > x}
  OBVIOUS
<1>3. ASSUME NEW y \in S PROVE x >= y
  <2>1. {z \in S : z > y} \in Bad
    OBVIOUS
  <2>2. x \in Int /\ y \in Int /\ y \notin {z \in S : z > y}
    OBVIOUS
  <2>3. ASSUME y > x PROVE FALSE
    <3>1. y \in U
      BY <1>2, <2>3
    <3>2. \A z \in S : z \in Int /\ (z > y => z > x)
      BY <2>2, <2>3
    <3>3. {z \in S : z > y} \subseteq U
      BY <1>2, <3>2
    <3> HIDE DEF Bad
    <3> QED
      BY <1>1, <2>1, <2>2, <3>1, <3>3
  <2> QED
    BY <2>2, <2>3
<1> QED
  BY <1>3 DEF Max

(* When all directories are merged, an entry of a rank is right.           *)
LEMMA EntryHeld ==
  ASSUME IInv, MInv, moved = World, NEW q \in Ranks, calls[q] > Layers, NEW t \in Entries(q)
  PROVE  mapped[q][FileOf(q, t)] \in DOMAIN final /\ t \in final[mapped[q][FileOf(q, t)]]
<1> DEFINE i == CHOOSE i \in 1 .. Total(q) : t \in shards[q][i]
<1>1. \E j \in 1 .. Total(q) : t \in shards[q][j]
  BY DEF Entries
<1>2. i \in 1 .. Total(q) /\ t \in shards[q][i]
  BY <1>1
<1>3. FileOf(q, t) = <<i, Total(q)>>
  BY DEF FileOf
<1> HIDE DEF i
<1>4. q < moved
  BY ConstantsAssumption DEF Ranks
<1>5. ContentsOf(q) /\ FilesDue(q)
  BY DEF MInv, FilesDue
<1> QED
  BY <1>2, <1>3, <1>4, <1>5 DEF ContentsOf

(* Every tensor is an entry of the rank that saved it. *)
LEMMA EntryThere ==
  ASSUME IInv, SInv, moved = World, \A q \in Ranks : calls[q] > Layers, NEW t \in Tensors
  PROVE  \E q \in Ranks : t \in Entries(q)
<1>1. PICK q \in Ranks : t \in SavedBy(q)
  BY Covers DEF AllSaved
<1>2. buffer[q] = {} /\ shards[q] \in Seq(SUBSET Tensors)
  BY SaveTypes DEF IInv, Closed
<1>3. DOMAIN shards[q] = 1 .. Total(q)
  BY <1>2 DEF Total
<1>4. \E j \in 1 .. Total(q) : t \in shards[q][j]
  BY <1>1, <1>2, <1>3 DEF SavedBy
<1>5. FileOf(q, t) \in Numbered(q)
  BY <1>4 DEF FileOf, Numbered
<1>6. q < moved
  BY ConstantsAssumption DEF Ranks
<1>7. Numbered(q) \subseteq DOMAIN mapped[q]
  BY <1>6 DEF SInv, HasFiles
<1> QED
  BY <1>4, <1>5, <1>7 DEF Entries

LEMMA RanksFinite ==
  ASSUME NEW S \in SUBSET Ranks PROVE IsFiniteSet(S) /\ S \subseteq Int
<1>1. World \in Nat
  BY ConstantsAssumption
<1>2. IsFiniteSet(Ranks) /\ Ranks \subseteq Int
  BY <1>1, FS_Interval DEF Ranks
<1> QED
  BY <1>2, FS_Subset

LEMMA MergeIndexFilesMInv ==
  ASSUME IInv, IInv', SInv, MInv, NEW r \in Ranks, MergeIndexFiles(r)
  PROVE  MInv'
<1>1. /\ pc[r] = "merge_index" /\ pc[r] \in Merging /\ calls' = calls
      /\ UNCHANGED <<shards, dirs, moved, mapped, final, desc>> /\ UNCHANGED counted
      /\ pc' = [pc EXCEPT ![r] = "merge_json"]
      /\ index' = [t \in UNION {Entries(q) : q \in Ranks} |->
                     LET q == Max({p \in Ranks : t \in Entries(p)}) IN mapped[q][FileOf(q, t)]]
  BY DEF MergeIndexFiles, Merging, saveVars
<1>2. r = 0 /\ moved = World /\ \A q \in Ranks : calls[q] > Layers
  BY <1>1, MergesLate DEF IInv, MergeOrder
<1>3. \A q \in Ranks : pc'[q] \notin BeforeRename /\ FilesDue(q)
  BY <1>1, <1>2, MergingBeyond DEF FilesDue
<1>4. \A q \in Ranks : ContentsOf(q)'
  BY <1>1, <1>3, ContentsKept DEF MInv
<1>5. \A q \in Ranks : CountedOf(q)'
  BY <1>1, CountedKept DEF MInv
<1>6. Numbering'
  BY <1>1, NumberingKept DEF MInv
<1>7. ASSUME NEW t \in Tensors
      PROVE  t \in DOMAIN index' /\ index'[t] \in DOMAIN final /\ t \in final[index'[t]]
  <2> DEFINE those == {p \in Ranks : t \in Entries(p)}
             q == Max(those)
  <2>1. those # {}
    BY <1>2, EntryThere
  <2>2. q \in those
    <3>1. IsFiniteSet(those) /\ those \subseteq Int
      BY RanksFinite
    <3> HIDE DEF those
    <3> QED
      BY <2>1, <3>1, GreatestIn
  <2>3. t \in DOMAIN index' /\ index'[t] = mapped[q][FileOf(q, t)]
    BY <1>1, <2>1
  <2> HIDE DEF q
  <2>4. q \in Ranks /\ t \in Entries(q)
    BY <2>2
  <2>5. mapped[q][FileOf(q, t)] \in DOMAIN final /\ t \in final[mapped[q][FileOf(q, t)]]
    BY <1>2, <2>4, EntryHeld
  <2> QED
    BY <2>3, <2>5
<1>8. pc'[0] = "merge_json"
  BY <1>1, <1>2, SaveTypes
<1>9. IndexLast'
  BY <1>1, <1>7, <1>8 DEF IndexLast, IndexComplete, BeforeIndex, BeforeRest
<1> QED
  BY <1>4, <1>5, <1>6, <1>9 DEF MInv

(* The directories are taken away when nothing of them is needed. *)
LEMMA MergeJsonFilesMInv ==
  ASSUME IInv, IInv', SInv, MInv, NEW r \in Ranks, MergeJsonFiles(r)
  PROVE  MInv'
<1>1. /\ pc[r] = "merge_json" /\ pc[r] \in Merging /\ calls' = calls
      /\ UNCHANGED <<shards, moved, mapped, final, index>> /\ UNCHANGED counted
      /\ pc' = [pc EXCEPT ![r] = "copy"]
  BY DEF MergeJsonFiles, Merging, saveVars
<1>2. r = 0 /\ moved = World /\ \A q \in Ranks : calls[q] > Layers
  BY <1>1, MergesLate DEF IInv, MergeOrder
<1>3. \A q \in Ranks : pc'[q] \notin BeforeRename /\ FilesDue(q) /\ Total(q)' = Total(q)
  BY <1>1, <1>2, MergingBeyond DEF FilesDue, Total
<1>4. \A q \in Ranks : q < moved /\ ~(q >= moved)
  BY <1>2, ConstantsAssumption DEF Ranks
<1>5. \A q \in Ranks : ContentsOf(q)'
  BY <1>1, <1>3, <1>4 DEF MInv, ContentsOf
<1>6. \A q \in Ranks : CountedOf(q)'
  BY <1>1, <1>4 DEF CountedOf
<1>7. Numbering'
  BY <1>1, NumberingKept DEF MInv
<1>8. pc[0] = "merge_json" /\ pc'[0] = "copy"
  BY <1>1, <1>2, SaveTypes
<1>9. pc'[0] \notin BeforeIndex
  BY <1>8 DEF BeforeIndex, BeforeRest
<1>10. IndexLast'
  BY <1>1, <1>8, <1>9 DEF MInv, IndexLast, IndexComplete
<1> QED
  BY <1>5, <1>6, <1>7, <1>10 DEF MInv

LEMMA NextMInv ==
  ASSUME IInv, SInv, MInv, [Next]_vars PROVE MInv'
<1>1. IInv'
  BY NextIInv
<1>2. CASE UNCHANGED vars
  <2>1. /\ UNCHANGED <<pc, shards, dirs, moved, mapped, final, index, desc>>
        /\ UNCHANGED calls /\ UNCHANGED counted
    BY <1>2 DEF vars, saveVars, mergeVars
  <2>2. \A q \in Ranks : FilesDue(q)' => FilesDue(q)
    BY <2>1 DEF FilesDue
  <2>3. \A q \in Ranks : ContentsOf(q)' /\ CountedOf(q)'
    BY <2>1, <2>2, ContentsKept, CountedKept DEF MInv
  <2>4. Numbering' /\ IndexLast'
    BY <2>1, NumberingKept, IndexKept DEF MInv
  <2> QED
    BY <2>3, <2>4 DEF MInv
<1>3. ASSUME NEW r \in Ranks, Step(r) \/ Fail(r) \/ Terminate(r)
      PROVE  MInv'
  BY <1>1, <1>3, SavingMInv, StillMInv, RenameMInv, MergeSafetensorFilesMInv,
     MergeIndexFilesMInv, MergeJsonFilesMInv DEF Step, Saving, Merge
<1> QED
  BY <1>2, <1>3 DEF Next, Over

LEMMA MInvariance == Spec => [](IInv /\ SInv /\ MInv)
<1>1. Init => IInv /\ SInv /\ MInv
  BY InitIInv, InitSaved, InitFiles, InitMInv DEF SInv
<1>2. (IInv /\ SInv /\ MInv) /\ [Next]_vars => (IInv /\ SInv /\ MInv)'
  BY NextIInv, NextSInv, NextMInv
<1> QED
  BY <1>1, <1>2, PTL DEF Spec

(* The merged index, once it is there, names every tensor of the model at  *)
(* a file of the save directory that holds it: whatever the placement of   *)
(* the modules, the sizes, and the files an earlier run has left.          *)
THEOREM IndexTheorem == Spec => []IndexComplete
<1>1. MInv => IndexComplete
  BY DEF MInv, IndexLast
<1> QED
  BY <1>1, MInvariance, PTL

(* No file of the save directory is overwritten by that of another rank:   *)
(* the counts the ranks exchanged leave each of them numbers of its own.   *)
THEOREM NoFileOverwrittenTheorem == Spec => NoFileOverwritten
<1>1. ASSUME IInv, SInv, MInv, [Next]_vars
      PROVE  [\A k \in DOMAIN final : k \in DOMAIN final' /\ final'[k] = final[k]]_vars
  <2>1. CASE final' = final
    BY <2>1
  <2>2. ASSUME NEW r \in Ranks, MergeSafetensorFiles(r)
        PROVE  \A k \in DOMAIN final : k \in DOMAIN final' /\ final'[k] = final[k]
    <3>1. moved < World \/ final' = final
      BY <2>2 DEF MergeSafetensorFiles
    <3> QED
      BY <1>1, <2>2, <3>1, OneDirectory
  <2>3. CASE UNCHANGED vars
    BY <2>3 DEF vars, mergeVars
  <2>4. ASSUME NEW r \in Ranks, Step(r) \/ Fail(r) \/ Terminate(r), ~MergeSafetensorFiles(r)
        PROVE  final' = final
    <3>1. CASE Saving(r)
      BY <3>1 DEF Saving, Construct, Preprocess, SaveModule, LayerSaved, SaveRest, Flush, Rename,
                  mergeVars
    <3>2. CASE Merge(r)
      BY <2>4, <3>2 DEF Merge, CountFiles, Barrier, MergeIndexFiles, MergeJsonFiles, mergeVars
    <3>3. CASE Finishing(r) \/ Fail(r) \/ Terminate(r)
      BY <3>3 DEF Finishing, OpenConfig, WriteConfig, RemoveQuantizationConfig, SavePostprocess,
                  Fail, Terminate, mergeVars
    <3> QED
      BY <2>4, <3>1, <3>2, <3>3 DEF Step
  <2> QED
    BY <1>1, <2>1, <2>2, <2>3, <2>4 DEF Next, Over
<1> QED
  BY <1>1, MInvariance, PTL DEF Spec, NoFileOverwritten
=============================================================================
