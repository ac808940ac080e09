--------------------------- MODULE DistributedSave ---------------------------
(***************************************************************************)
(* Saving a quantised model with one process per device, msmodelslim,      *)
(* ascendv1_distributed.py: each rank writes the modules it is responsible *)
(* for into a directory of its own, rank 0 merges these directories, and   *)
(* every rank puts config.json into the save directory.                    *)
(*                                                                         *)
(* Ranks meet in collectives (all_gather_object, barrier): a rank enters   *)
(* one by counting a call, and leaves when every rank has counted as many. *)
(*                                                                         *)
(* The modules of a layer are numbered in the order of their sorted names; *)
(* a tensor <<l, m>> stands for what is saved of module m of layer l, and  *)
(* Rest for what is in no layer.  A file "prefix-<i>-of-<n>.safetensors"   *)
(* is <<i, n>>; n is 0 until the writer is closed.                         *)
(***************************************************************************)
EXTENDS Integers, Sequences, FiniteSetsExt

CONSTANTS World,          \* number of ranks
          Layers,         \* number of layers
          Modules,        \* number of modules in a layer
          Holds(_),       \* the modules a rank holds
          SizeOf(_),      \* size of a tensor
          PartFileSize,   \* limit of a shard
          Leftovers,      \* the files an earlier run may have left in the directory of a rank
          Quantized,      \* the source model has a quantization_config
          AdapterWrites,  \* the adapter's ascendv1_save_postprocess extends config.json
          Crashes         \* a rank may fail anywhere

Ranks == 0 .. World - 1

ASSUME ConstantsAssumption ==
  /\ World \in Nat \ {0, 1} /\ Layers \in Nat \ {0} /\ Modules \in Nat \ {0}
  /\ \A r \in Ranks : Holds(r) \subseteq 1 .. Modules
  /\ UNION {Holds(r) : r \in Ranks} = 1 .. Modules
  /\ PartFileSize \in Nat \ {0}
  /\ Leftovers # {}
  /\ \A names \in Leftovers : names \subseteq Nat \X Nat /\ IsFiniteSet(names)
  /\ Quantized \in BOOLEAN /\ AdapterWrites \in BOOLEAN /\ Crashes \in BOOLEAN

Rest == <<0, 1>>
Tensors == ((1 .. Layers) \X (1 .. Modules)) \cup {Rest}

(* Elements times the size of one. *)
ASSUME SizesAssumption == \A t \in Tensors : SizeOf(t) \in Nat

VARIABLES pc,       \* where each rank is
          layer,    \* the layer each rank is at
          next,     \* the module of that layer each rank looks at next
          buffer,   \* wait_save_keys of each rank
          shards,   \* the shards each rank has written, in the order of saved_keys_map
          dirs,     \* the files in the directory of each rank, with the tensors in them
          calls,    \* collectives each rank has entered
          counted,  \* the count of files each rank has contributed
          moved,    \* number of rank directories rank 0 has emptied
          mapped,   \* file_mappings of rank 0: the number each file of a rank got
          final,    \* the tensors in each numbered file of the save directory
          index,    \* the merged index: number of the file of a tensor
          desc,     \* the tensors of the merged description
          config,   \* config.json in the save directory
          seen      \* the fields each rank is about to write to it

saveVars   == <<layer, next, buffer, shards>>
mergeVars  == <<moved, mapped, final, index, desc>>
configVars == <<config, seen>>
vars == <<pc, saveVars, dirs, calls, counted, mergeVars, configVars>>

(* An empty function: no file, no entry. *)
None == <<>>

Fields == {"quantization_config", "quantize"}
Original == IF Quantized THEN {"quantization_config"} ELSE {}

(* Opening for writing truncates. *)
Empty == [kind |-> "empty", fields |-> {}]
Garbled == [kind |-> "garbled", fields |-> {}]
Whole(fields) == [kind |-> "whole", fields |-> fields]

Init ==
  /\ pc = [r \in Ranks |-> "construct"]
  /\ layer = [r \in Ranks |-> 1] /\ next = [r \in Ranks |-> 1]
  /\ buffer = [r \in Ranks |-> {}] /\ shards = [r \in Ranks |-> <<>>]
  /\ \E left \in [Ranks -> Leftovers] : dirs = [r \in Ranks |-> [n \in left[r] |-> {}]]
  /\ calls = [r \in Ranks |-> 0] /\ counted = [r \in Ranks |-> 0]
  /\ moved = 0 /\ mapped = [r \in Ranks |-> None]
  /\ final = None /\ index = None
  /\ desc = {}
  /\ config = Empty /\ seen = [r \in Ranks |-> {}]

-----------------------------------------------------------------------------
(* Who saves what. *)

(* The modules that every rank holds. *)
Shared == {m \in 1 .. Modules : \A r \in Ranks : m \in Holds(r)}

(* Variant: the slice starts one further on. *)
SharedSliceFromNext(r) ==
  {m \in Shared : Cardinality({s \in Shared : s < m}) % World = r + 1}

(* sorted(shared)[rank::world_size] *)
SharedSlice(r) ==
  {m \in Shared : Cardinality({s \in Shared : s < m}) % World = r}

LocalOnly(r) == Holds(r) \ Shared

(* Variant: every rank saves all it holds. *)
SaveAll(r, m) == m \in Holds(r)

SaveOnThisRank(r, m) == m \in LocalOnly(r) \cup SharedSlice(r)

SavedBy(r) == buffer[r] \cup UNION {shards[r][i] : i \in DOMAIN shards[r]}

-----------------------------------------------------------------------------
(* Collectives, failures. *)

Goto(r, where) == pc' = [pc EXCEPT ![r] = where]

Ended == {"done", "failed", "terminated"}

Enter(r, from, to) ==
  /\ pc[r] = from
  /\ calls' = [calls EXCEPT ![r] = @ + 1]
  /\ Goto(r, to)

(* Variant: a collective that does not wait. *)
NobodyAwaited(r) == r \in Ranks

EveryoneEntered(r) == \A q \in Ranks : calls[q] >= calls[r]

Leave(r, from, to) ==
  /\ pc[r] = from
  /\ EveryoneEntered(r)
  /\ Goto(r, to)
  /\ UNCHANGED calls

(* An exception, of any cause. *)
Fail(r) ==
  /\ Crashes
  /\ pc[r] \notin Ended
  /\ Goto(r, "failed")
  /\ UNCHANGED <<saveVars, dirs, calls, counted, mergeVars, configVars>>

(* Variant: only the ranks behind the failed one. *)
TerminateBehind(r) ==
  /\ pc[r] \notin Ended
  /\ \E q \in Ranks : q < r /\ pc[q] = "failed"
  /\ Goto(r, "terminated")
  /\ UNCHANGED <<saveVars, dirs, calls, counted, mergeVars, configVars>>

(* mp.spawn terminates the others when one has failed. *)
Terminate(r) ==
  /\ pc[r] \notin Ended
  /\ \E q \in Ranks : pc[q] = "failed"
  /\ Goto(r, "terminated")
  /\ UNCHANGED <<saveVars, dirs, calls, counted, mergeVars, configVars>>

-----------------------------------------------------------------------------
(* The writer of a rank.  Shards are written read-only, so a file of the   *)
(* name that an earlier run left is refused, or overwritten by root.       *)

Size(S) == MapThenSumSet(SizeOf, S)

(* Variant: the limit itself is allowed. *)
SpillsAbove(r, t) == buffer[r] # {} /\ Size(buffer[r]) + SizeOf(t) > PartFileSize

Spills(r, t) == buffer[r] # {} /\ Size(buffer[r]) + SizeOf(t) >= PartFileSize

NewShard(r) == <<Len(shards[r]) + 1, 0>>

PutFile(r, name, tensors) ==
  dirs' = [dirs EXCEPT ![r] =
             [n \in DOMAIN dirs[r] \cup {name} |-> IF n = name THEN tensors ELSE dirs[r][n]]]

SaveOneFile(r) ==
  /\ shards' = [shards EXCEPT ![r] = Append(@, buffer[r])]
  /\ PutFile(r, NewShard(r), buffer[r])

(* The step fails on the name of the file it would write. *)
Refused(r, name) ==
  /\ name \in DOMAIN dirs[r]
  /\ Goto(r, "failed")
  /\ UNCHANGED <<saveVars, dirs>>

Write(r, t) ==
  \/ /\ ~Spills(r, t)
     /\ buffer' = [buffer EXCEPT ![r] = @ \cup {t}]
     /\ UNCHANGED <<shards, dirs>>
  \/ /\ Spills(r, t)
     /\ SaveOneFile(r)
     /\ buffer' = [buffer EXCEPT ![r] = {t}]

(* The constructor makes the rank's directory.                             *)
Construct(r) ==
  /\ pc[r] = "construct"
  /\ Goto(r, "preprocess")
  /\ UNCHANGED <<saveVars, dirs, calls, counted, mergeVars, configVars>>

(* Variant: rank 0 keeps the DistHelper of the first layer. *)
PreprocessCached(r) ==
  /\ \/ ~(r = 0 /\ layer[r] > 1) /\ Enter(r, "preprocess", "gather")
     \/ r = 0 /\ layer[r] > 1 /\ pc[r] = "preprocess" /\ Goto(r, "save") /\ UNCHANGED calls
     \/ Leave(r, "gather", "save")
  /\ UNCHANGED <<saveVars, dirs, counted, mergeVars, configVars>>

(* DistHelper gathers the names of the modules of the layer. *)
Preprocess(r) ==
  /\ \/ Enter(r, "preprocess", "gather")
     \/ Leave(r, "gather", "save")
  /\ UNCHANGED <<saveVars, dirs, counted, mergeVars, configVars>>

SaveModule(r) ==
  LET m == next[r]
      t == <<layer[r], m>>
  IN /\ pc[r] = "save" /\ m <= Modules
     /\ \/ /\ ~SaveOnThisRank(r, m)
           /\ UNCHANGED <<pc, buffer, shards, dirs>>
           /\ next' = [next EXCEPT ![r] = @ + 1]
           /\ UNCHANGED layer
        \/ /\ SaveOnThisRank(r, m)
           /\ Write(r, t)
           /\ next' = [next EXCEPT ![r] = @ + 1]
           /\ UNCHANGED <<pc, layer>>
        \/ SaveOnThisRank(r, m) /\ Spills(r, t) /\ Refused(r, NewShard(r))
     /\ UNCHANGED <<calls, counted, mergeVars, configVars>>

(* The next sweep of the runner, or post_run when the layers are through. *)
LayerSaved(r) ==
  /\ pc[r] = "save" /\ next[r] > Modules
  /\ \/ /\ layer[r] < Layers
        /\ layer' = [layer EXCEPT ![r] = @ + 1]
        /\ next' = [next EXCEPT ![r] = 1]
        /\ Goto(r, "preprocess")
     \/ /\ layer[r] = Layers
        /\ Goto(r, "post_run")
        /\ UNCHANGED <<layer, next>>
  /\ UNCHANGED <<buffer, shards, dirs, calls, counted, mergeVars, configVars>>

(* With no dist_helper, only rank 0 saves. *)
SaveRest(r) ==
  /\ pc[r] = "post_run"
  /\ \/ r # 0 /\ Goto(r, "close") /\ UNCHANGED <<buffer, shards, dirs>>
     \/ r = 0 /\ Write(r, Rest) /\ Goto(r, "close")
     \/ r = 0 /\ Spills(r, Rest) /\ Refused(r, NewShard(r))
  /\ UNCHANGED <<layer, next, calls, counted, mergeVars, configVars>>

(* The last shard: none when nothing waits. *)
Flush(r) ==
  /\ pc[r] = "close"
  /\ \/ /\ buffer[r] # {}
        /\ SaveOneFile(r)
        /\ buffer' = [buffer EXCEPT ![r] = {}]
        /\ Goto(r, "rename")
     \/ /\ buffer[r] = {}
        /\ UNCHANGED <<buffer, shards, dirs>>
        /\ Goto(r, "rename")
     \/ /\ buffer[r] # {}
        /\ Refused(r, NewShard(r))
  /\ UNCHANGED <<layer, next, calls, counted, mergeVars, configVars>>

(* Only now is the number of shards known, which their names end in. *)
Total(r) == Len(shards[r])
Temporary(r) == (1 .. Total(r)) \X {0}
Numbered(r) == (1 .. Total(r)) \X {Total(r)}

Rename(r) ==
  /\ pc[r] = "rename"
  /\ dirs' = [dirs EXCEPT ![r] =
                [n \in (DOMAIN dirs[r] \ Temporary(r)) \cup Numbered(r) |->
                   IF n \in Numbered(r) THEN dirs[r][<<n[1], 0>>] ELSE dirs[r][n]]]
  /\ Goto(r, "count")
  /\ UNCHANGED <<saveVars, calls, counted, mergeVars, configVars>>

-----------------------------------------------------------------------------
(* merge_ranks. *)

(* Variant: the shards written, not the files found. *)
ShardCount(r) == Len(shards[r])

FileCount(r) == Cardinality(DOMAIN dirs[r])

CountFiles(r) ==
  /\ \/ /\ Enter(r, "count", "counting")
        /\ counted' = [counted EXCEPT ![r] = FileCount(r)]
     \/ /\ Leave(r, "counting", "barrier")
        /\ UNCHANGED counted
  /\ UNCHANGED <<saveVars, dirs, mergeVars, configVars>>

Barrier(r) ==
  /\ \/ Enter(r, "barrier", "waiting")
     \/ Leave(r, "waiting", IF r = 0 THEN "merge_files" ELSE "copy")
  /\ UNCHANGED <<saveVars, dirs, counted, mergeVars, configVars>>

Merging == {"merge_files", "merge_index", "merge_json"}

(* Place in the sorted list of names: by number, then by total. *)
Before(a, b) == a[1] < b[1] \/ (a[1] = b[1] /\ a[2] < b[2])
Place(files, n) == Cardinality({k \in files : Before(k, n)})

Offset(q) == LET Contributed(p) == counted[p] IN MapThenSumSet(Contributed, 0 .. q - 1)

(* One directory a step.                                                   *)
MergeSafetensorFiles(r) ==
  LET q == moved
      files == DOMAIN dirs[q]
      number == [n \in files |-> Offset(q) + Place(files, n) + 1]
      numbers == {number[n] : n \in files}
  IN /\ pc[r] = "merge_files"
     /\ \/ /\ moved < World
           /\ final' = [k \in DOMAIN final \cup numbers |->
                          IF k \in numbers
                          THEN dirs[q][CHOOSE n \in files : number[n] = k]
                          ELSE final[k]]
           /\ mapped' = [mapped EXCEPT ![q] = number]
           /\ dirs' = [dirs EXCEPT ![q] = None]
           /\ moved' = moved + 1
           /\ UNCHANGED pc
        \/ /\ moved = World
           /\ Goto(r, "merge_index")
           /\ UNCHANGED <<dirs, moved, mapped, final>>
     /\ UNCHANGED <<saveVars, calls, counted, index, desc, configVars>>

(* Variant: the names from before the renaming. *)
FileBeforeRename(q, t) == <<CHOOSE i \in 1 .. Total(q) : t \in shards[q][i], 0>>

(* weight_map of a rank: a tensor is in the file of its shard. *)
FileOf(q, t) == <<CHOOSE i \in 1 .. Total(q) : t \in shards[q][i], Total(q)>>
Entries(q) == {t \in UNION {shards[q][i] : i \in 1 .. Total(q)} : FileOf(q, t) \in DOMAIN mapped[q]}

(* A later rank's entry replaces an earlier one. *)
MergeIndexFiles(r) ==
  /\ pc[r] = "merge_index"
  /\ index' = [t \in UNION {Entries(q) : q \in Ranks} |->
                 LET q == Max({p \in Ranks : t \in Entries(p)}) IN mapped[q][FileOf(q, t)]]
  /\ Goto(r, "merge_json")
  /\ UNCHANGED <<saveVars, dirs, calls, counted, moved, mapped, final, desc, configVars>>

(* The rank directories go afterwards, with what is in them. *)
MergeJsonFiles(r) ==
  /\ pc[r] = "merge_json"
  /\ desc' = UNION {SavedBy(q) : q \in Ranks}
  /\ dirs' = [q \in Ranks |-> None]
  /\ Goto(r, "copy")
  /\ UNCHANGED <<saveVars, calls, counted, moved, mapped, final, index, configVars>>

-----------------------------------------------------------------------------
(* config.json: every rank copies it, removes quantization_config from it, *)
(* and lets the adapter extend it.  A writer opens the file, which empties *)
(* it, and writes at its own offset: over what another rank wrote since    *)
(* then, whose tail stays if it is longer.                                 *)

OpenConfig(r) ==
  /\ \/ pc[r] = "copy" /\ Goto(r, "copying") /\ seen' = [seen EXCEPT ![r] = Original]
     \/ pc[r] = "rewrite" /\ Goto(r, "rewriting") /\ UNCHANGED seen
     \/ pc[r] = "extend" /\ Goto(r, "extending") /\ UNCHANGED seen
  /\ config' = Empty
  /\ UNCHANGED <<saveVars, dirs, calls, counted, mergeVars>>

WriteConfig(r) ==
  /\ \/ pc[r] = "copying" /\ Goto(r, "remove")
     \/ pc[r] = "rewriting" /\ Goto(r, "postprocess")
     \/ pc[r] = "extending" /\ Goto(r, "done")
  /\ \/ config' = Whole(seen[r])
     \/ config # Empty /\ config' = Garbled
  /\ UNCHANGED <<saveVars, dirs, calls, counted, mergeVars, seen>>

(* An exception is caught and logged. *)
RemoveQuantizationConfig(r) ==
  /\ pc[r] = "remove"
  /\ \/ /\ "quantization_config" \in config.fields
        /\ seen' = [seen EXCEPT ![r] = config.fields \ {"quantization_config"}]
        /\ Goto(r, "rewrite")
     \/ /\ "quantization_config" \notin config.fields
        /\ Goto(r, "postprocess")
        /\ UNCHANGED seen
  /\ UNCHANGED <<saveVars, dirs, calls, counted, mergeVars, config>>

(* Here it is not. *)
SavePostprocess(r) ==
  /\ pc[r] = "postprocess"
  /\ \/ ~AdapterWrites /\ Goto(r, "done") /\ UNCHANGED seen
     \/ /\ AdapterWrites /\ config.kind = "whole"
        /\ seen' = [seen EXCEPT ![r] = config.fields \cup {"quantize"}]
        /\ Goto(r, "extend")
     \/ AdapterWrites /\ config.kind # "whole" /\ Goto(r, "failed") /\ UNCHANGED seen
  /\ UNCHANGED <<saveVars, dirs, calls, counted, mergeVars, config>>

-----------------------------------------------------------------------------
Saving(r) ==
  \/ Construct(r) \/ Preprocess(r) \/ SaveModule(r) \/ LayerSaved(r)
  \/ SaveRest(r) \/ Flush(r) \/ Rename(r)

Merge(r) ==
  \/ CountFiles(r) \/ Barrier(r) \/ MergeSafetensorFiles(r)
  \/ MergeIndexFiles(r) \/ MergeJsonFiles(r)

Finishing(r) ==
  OpenConfig(r) \/ WriteConfig(r) \/ RemoveQuantizationConfig(r) \/ SavePostprocess(r)

Step(r) == Saving(r) \/ Merge(r) \/ Finishing(r)

AllEnded == \A r \in Ranks : pc[r] \in Ended

(* The run is over. *)
Over == AllEnded /\ UNCHANGED vars

Next == (\E r \in Ranks : Step(r) \/ Fail(r) \/ Terminate(r)) \/ Over

Spec == Init /\ [][Next]_vars

(* The scheduler runs every rank, and spawn looks for failed ones. *)
FairSpec == Spec /\ \A r \in Ranks : WF_vars(Step(r)) /\ WF_vars(Terminate(r))

-----------------------------------------------------------------------------
PCs == {"construct", "preprocess", "gather", "save", "post_run", "close", "rename", "count",
        "counting", "barrier", "waiting", "copy", "copying", "remove", "rewrite", "rewriting",
        "postprocess", "extend", "extending"} \cup Merging \cup Ended

(* Types of the variables. *)
TypeOK ==
  /\ pc \in [Ranks -> PCs]
  /\ layer \in [Ranks -> 1 .. Layers] /\ next \in [Ranks -> 1 .. Modules + 1]
  /\ buffer \in [Ranks -> SUBSET Tensors]
  /\ shards \in [Ranks -> Seq(SUBSET Tensors)]
  /\ DOMAIN dirs = Ranks /\ \A r \in Ranks : DOMAIN dirs[r] \subseteq Nat \X Nat
  /\ calls \in [Ranks -> 0 .. Layers + 2] /\ counted \in [Ranks -> Nat]
  /\ moved \in 0 .. World
  /\ DOMAIN index \subseteq Tensors
  /\ config \in [kind : {"empty", "garbled", "whole"}, fields : SUBSET Fields]
  /\ seen \in [Ranks -> SUBSET Fields]

(* The merged index, once it is there, names every tensor of the model, at *)
(* a file of the save directory that holds it: renaming on each rank, the  *)
(* count of files, leftovers included, and the offsets of the merge agree. *)
IndexComplete ==
  pc[0] = "merge_json" \/ desc # {} =>
    \A t \in Tensors : t \in DOMAIN index /\ index[t] \in DOMAIN final /\ t \in final[index[t]]

(* No tensor is saved twice, when a module is on every rank or on one: the *)
(* slices of the shared modules and the local ones do not overlap.         *)
SavedOnce ==
  /\ \A r, q \in Ranks : r # q => SavedBy(r) \cap SavedBy(q) = {}
  /\ \A i, j \in DOMAIN final : i # j => final[i] \cap final[j] = {}

(* Rank 0 touches the directories of the others only when they have        *)
(* written, renamed and counted their files.                               *)
MergeAfterClose ==
  pc[0] \in Merging =>
    \A r \in Ranks :
      /\ buffer[r] = {}
      /\ moved = 0 => counted[r] = FileCount(r)

(* A collective that two ranks are both in is the same call of the code    *)
(* for both, for the same layer: no rank skips or repeats one.             *)
Waiting == {"gather", "counting", "waiting"}
CollectivesMatch ==
  \A r, q \in Ranks :
    pc[r] \in Waiting /\ pc[q] \in Waiting /\ calls[r] = calls[q]
      => pc[r] = pc[q] /\ layer[r] = layer[q]

(* A shard of several tensors stays below part_file_size. *)
WithinLimit ==
  \A r \in Ranks : \A i \in DOMAIN shards[r] :
      Cardinality(shards[r][i]) > 1 => Size(shards[r][i]) < PartFileSize

(* A file in the save directory is not overwritten by another rank's. *)
NoFileOverwritten ==
  [][\A k \in DOMAIN final : k \in DOMAIN final' /\ final'[k] = final[k]]_vars

(* Together the ranks save the model as one writer would. *)
Abstract == INSTANCE ShardedModel
              WITH saved <- UNION {SavedBy(r) : r \in Ranks}, published <- DOMAIN index
ImplementsShardedModel == Abstract!Spec

(* The run ends: nobody waits in a collective for a rank that is gone. *)
RunEnds == <>AllEnded

-----------------------------------------------------------------------------
(* What the code says of itself, which it does not do. *)

(* "最后在rank 0上合并所有文件" (ascendv1_distributed.py:151) *)
MergedAtEnd == AllEnded => desc = Tensors
=============================================================================
