-------------------------- MODULE TraceContextProofs --------------------------
(***************************************************************************)
(* Theorems on the trace context, for every number of contexts and of      *)
(* threads.                                                                *)
(***************************************************************************)
EXTENDS TraceContext, SequenceTheorems, TLAPS

(* The stack holds contexts that were made, each at the index Attach gave. *)
Placed ==
    /\ Size <= made
    /\ \A i \in 1..Size : traceCtx[i] \in 1..made /\ index[traceCtx[i]] = i
    /\ \A c \in Context : state[c] = "none" <=> c > made

(* A thread in Unattach has a context that no other thread is ending.      *)
OwnEnd ==
    /\ \A t \in Threads :
         pc[t] = "unattach" => arg[t] \in Context /\ state[arg[t]] = "ending"
    /\ \A t, u \in Threads :
         pc[t] = "unattach" /\ pc[u] = "unattach" /\ t # u => arg[t] # arg[u]

(* Ended contexts wait in the set as long as they are on the stack, and    *)
(* the flag says whether there are any.                                    *)
EndedIsDeferred ==
    /\ \A i \in 1..Size : state[traceCtx[i]] = "ended" => i \in deferred
    /\ multiThread <=> deferred # {}

(* The top waits in the set only if another thread put it there since the  *)
(* owner last looked.                                                      *)
TopIsLate ==
    pc[Owner] \in {"idle", "unattach"} /\ Size > 0 /\ Size \in deferred
        => traceCtx[Size] \in late

IInv ==
    /\ TypeOK /\ Placed /\ OwnEnd
    /\ LiveContextsStay /\ DeferredIsEnded /\ ParentBelow
    /\ EndedIsDeferred /\ TopIsLate

-------------------------------------------------------------------------------
LEMMA SizeType == ASSUME TypeOK PROVE Size \in Nat
  BY DEF TypeOK, Size

LEMMA OwnerThread == Owner \in Threads
  BY DEF Threads

(* Cutting a stack keeps what is below.                                    *)
LEMMA Cut ==
  ASSUME NEW s \in Seq(Context), NEW k \in 0..Len(s)
  PROVE  /\ SubSeq(s, 1, k) \in Seq(Context)
         /\ Len(SubSeq(s, 1, k)) = k
         /\ \A i \in 1..k : SubSeq(s, 1, k)[i] = s[i]
<1>1. \A i \in 1..k : s[i] \in Context
  OBVIOUS
<1>2. 1 \in Int /\ k \in Int /\ k >= 0
  OBVIOUS
<1>3. /\ SubSeq(s, 1, k) \in Seq(Context)
      /\ Len(SubSeq(s, 1, k)) = IF 1 <= k THEN k - 1 + 1 ELSE 0
      /\ \A i \in 1..k - 1 + 1 : SubSeq(s, 1, k)[i] = s[1 + i - 1]
  BY <1>1, <1>2, SubSeqProperties
<1> QED
  BY <1>2, <1>3

LEMMA Push ==
  ASSUME NEW s \in Seq(Context), NEW c \in Context
  PROVE  /\ Append(s, c) \in Seq(Context)
         /\ Len(Append(s, c)) = Len(s) + 1
         /\ \A i \in 1..Len(s) : Append(s, c)[i] = s[i]
         /\ Append(s, c)[Len(s) + 1] = c
  BY AppendProperties

LEMMA InitIInv == Init => IInv
<1> SUFFICES ASSUME Init PROVE IInv
  OBVIOUS
<1> USE ConstantsAssumption DEF Init
<1>1. TypeOK
  <2>1. multiThread \in BOOLEAN
    OBVIOUS
  <2>5. traceCtx \in Seq(Context)
    BY EmptySeq
  <2>2. /\ deferred \subseteq Context /\ sampled \subseteq Context /\ late \subseteq Context
        /\ made \in 0..MaxContexts
    OBVIOUS
  <2>3. /\ state \in [Context -> {"none", "live", "ending", "ended"}]
        /\ index \in [Context -> 0..MaxContexts] /\ parent \in [Context -> 0..MaxContexts]
    OBVIOUS
  <2>4. /\ pc \in [Threads -> {"idle", "unattach", "flag", "sweep"}]
        /\ arg \in [Threads -> 0..MaxContexts]
    OBVIOUS
  <2> QED
    BY <2>1, <2>2, <2>3, <2>4, <2>5 DEF TypeOK
<1>2. Size = 0 /\ Owner \in Threads
  BY OwnerThread DEF Size
<1>3. Placed
  BY <1>2 DEF Placed, Context
<1>4. OwnEnd /\ LiveContextsStay
  BY DEF OwnEnd, LiveContextsStay, Unpopped
<1>5. DeferredIsEnded /\ ParentBelow
  BY <1>2 DEF DeferredIsEnded, ParentBelow
<1>6. EndedIsDeferred
  BY <1>2 DEF EndedIsDeferred
<1>7. TopIsLate
  BY <1>2 DEF TopIsLate
<1> QED
  BY <1>1, <1>3, <1>4, <1>5, <1>6, <1>7 DEF IInv

-------------------------------------------------------------------------------
(* Attaching puts a new context on top; nothing else moves.                *)
LEMMA AttachIInv ==
  ASSUME IInv, NEW p \in 0..MaxContexts, NEW isSample \in BOOLEAN, Attach(p, isSample),
         p # 0 => p = Current /\ p \in sampled
  PROVE  IInv'
<1> DEFINE c == made + 1
<1>1. /\ c \in Context /\ c > made /\ made' = c /\ made \in Nat
      /\ pc[Owner] = "idle"
  BY ConstantsAssumption DEF IInv, Attach, TypeOK, Context
<1>2. UNCHANGED <<multiThread, deferred, pc, arg, late>>
  BY DEF Attach
<1>3. /\ Size \in Nat /\ Size' = Size + 1 /\ traceCtx' \in Seq(Context)
      /\ \A i \in 1..Size : traceCtx'[i] = traceCtx[i]
      /\ traceCtx'[Size + 1] = c
  BY <1>1, Push, SizeType DEF IInv, Attach, TypeOK, Size
<1>4. /\ state' = [state EXCEPT ![c] = "live"] /\ index' = [index EXCEPT ![c] = Size + 1]
      /\ parent' = [parent EXCEPT ![c] = p]
      /\ sampled' = sampled \/ sampled' = sampled \cup {c}
  BY DEF Attach, NewIndex
<1>5. Size <= made /\ \A i \in 1..Size : traceCtx[i] \in 1..made /\ index[traceCtx[i]] = i
  BY DEF IInv, Placed
<1>6. \A i \in 1..Size : traceCtx[i] \in Context /\ traceCtx[i] # c
  BY <1>1, <1>3, <1>5, ConstantsAssumption DEF Context
<1>7. /\ state \in [Context -> {"none", "live", "ending", "ended"}]
      /\ index \in [Context -> 0..MaxContexts] /\ parent \in [Context -> 0..MaxContexts]
      /\ sampled \subseteq Context
  BY DEF IInv, TypeOK
<1>8. state[c] = "none"
  BY <1>1 DEF IInv, Placed
<1>9. TypeOK'
  <2>1. Size + 1 \in 0..MaxContexts
    BY <1>1, <1>3, <1>5, ConstantsAssumption DEF Context
  <2>2. /\ made' \in 0..MaxContexts
        /\ state' \in [Context -> {"none", "live", "ending", "ended"}]
        /\ index' \in [Context -> 0..MaxContexts] /\ parent' \in [Context -> 0..MaxContexts]
        /\ sampled' \subseteq Context
    <3>1. made' \in 0..MaxContexts
      BY <1>1, ConstantsAssumption DEF Context
    <3>2. /\ state' \in [Context -> {"none", "live", "ending", "ended"}]
          /\ index' \in [Context -> 0..MaxContexts] /\ parent' \in [Context -> 0..MaxContexts]
      BY <1>1, <1>4, <1>7, <2>1
    <3>3. sampled' \subseteq Context
      BY <1>1, <1>4, <1>7
    <3> QED
      BY <3>1, <3>2, <3>3
  <2>3. multiThread' \in BOOLEAN
    BY <1>2 DEF IInv, TypeOK
  <2> QED
    BY <1>2, <1>3, <2>2, <2>3 DEF IInv, TypeOK
<1>10. Placed'
  <2>1. \A i \in 1..Size' : traceCtx'[i] \in 1..made' /\ index'[traceCtx'[i]] = i
    <3> SUFFICES ASSUME NEW i \in 1..Size'
                 PROVE  traceCtx'[i] \in 1..made' /\ index'[traceCtx'[i]] = i
      OBVIOUS
    <3>1. CASE i \in 1..Size
      <4>1. traceCtx'[i] = traceCtx[i] /\ traceCtx[i] \in 1..made /\ index[traceCtx[i]] = i
        BY <1>3, <1>5, <3>1
      <4>2. index'[traceCtx[i]] = index[traceCtx[i]]
        BY <1>1, <1>4, <1>6, <1>7, <3>1
      <4> QED
        BY <1>1, <4>1, <4>2
    <3>2. CASE i = Size + 1
      BY <1>1, <1>3, <1>4, <1>7, <3>2
    <3> QED
      BY <1>3, <3>1, <3>2
  <2>2. Size' <= made'
    BY <1>1, <1>3, <1>5
  <2>3. \A d \in Context : state'[d] = "none" <=> d > made'
    <3> SUFFICES ASSUME NEW d \in Context PROVE state'[d] = "none" <=> d > made'
      OBVIOUS
    <3>1. state[d] = "none" <=> d > made
      BY DEF IInv, Placed
    <3> QED
      BY <1>1, <1>4, <1>7, <3>1 DEF Context
  <2> QED
    BY <2>1, <2>2, <2>3 DEF Placed
<1>11. OwnEnd'
  BY <1>1, <1>2, <1>4, <1>7, <1>8 DEF IInv, OwnEnd
<1>12. LiveContextsStay'
  <2> SUFFICES ASSUME NEW d \in Context, Unpopped(d)'
               PROVE  index'[d] \in 1..Size' /\ traceCtx'[index'[d]] = d
    BY DEF LiveContextsStay
  <2>1. CASE d = c
    BY <1>1, <1>3, <1>4, <1>7, <2>1
  <2>2. CASE d # c
    <3>1. Unpopped(d) /\ index'[d] = index[d]
      BY <1>1, <1>4, <1>7, <2>2 DEF Unpopped
    <3>2. index[d] \in 1..Size /\ traceCtx[index[d]] = d
      BY <3>1 DEF IInv, LiveContextsStay
    <3> QED
      BY <1>3, <3>1, <3>2
  <2> QED
    BY <2>1, <2>2
<1>13. DeferredIsEnded'
  <2> SUFFICES ASSUME NEW i \in deferred PROVE i <= Size' /\ state'[traceCtx'[i]] = "ended"
    BY <1>2 DEF DeferredIsEnded
  <2>1. i \in 1..Size /\ state[traceCtx[i]] = "ended"
    BY <1>3 DEF IInv, DeferredIsEnded, TypeOK, Context
  <2> QED
    BY <1>1, <1>3, <1>4, <1>6, <1>7, <2>1
<1>14. ParentBelow'
  <2> SUFFICES ASSUME NEW i \in 1..Size', parent'[traceCtx'[i]] # 0
               PROVE  /\ i > 1 /\ traceCtx'[i - 1] = parent'[traceCtx'[i]]
                      /\ parent'[traceCtx'[i]] \in sampled'
    BY DEF ParentBelow
  <2>1. CASE i \in 1..Size
    <3>1. parent'[traceCtx'[i]] = parent[traceCtx[i]]
      BY <1>1, <1>3, <1>4, <1>6, <1>7, <2>1
    <3>2. i > 1 /\ traceCtx[i - 1] = parent[traceCtx[i]] /\ parent[traceCtx[i]] \in sampled
      BY <2>1, <3>1 DEF IInv, ParentBelow
    <3>3. i - 1 \in 1..Size
      BY <1>3, <2>1, <3>2
    <3> QED
      BY <1>3, <1>4, <3>1, <3>2, <3>3
  <2>2. CASE i = Size + 1
    <3>1. parent'[traceCtx'[i]] = p
      BY <1>1, <1>3, <1>4, <1>7, <2>2
    <3>2. p = Current /\ p \in sampled /\ p # 0
      BY <3>1
    <3>3. Size > 0 /\ p = traceCtx[Size]
      BY <1>3, <3>2 DEF IInv, Current, Size, TypeOK
    <3>4. Size \in 1..Size /\ i - 1 = Size /\ i > 1
      BY <1>3, <2>2, <3>3
    <3> QED
      BY <1>3, <1>4, <3>1, <3>2, <3>3, <3>4
  <2> QED
    BY <1>3, <2>1, <2>2
<1>15. EndedIsDeferred'
  <2>1. \A i \in 1..Size' : state'[traceCtx'[i]] = "ended" => i \in deferred
    <3> SUFFICES ASSUME NEW i \in 1..Size', state'[traceCtx'[i]] = "ended"
                 PROVE  i \in deferred
      OBVIOUS
    <3>1. i # Size + 1
      BY <1>1, <1>3, <1>4, <1>7
    <3>2. i \in 1..Size /\ state[traceCtx[i]] = "ended"
      BY <1>1, <1>3, <1>4, <1>6, <1>7, <3>1
    <3> QED
      BY <3>2 DEF IInv, EndedIsDeferred
  <2>2. multiThread' <=> deferred' # {}
    BY <1>2 DEF IInv, EndedIsDeferred
  <2> QED
    BY <1>2, <2>1, <2>2 DEF EndedIsDeferred
<1>16. TopIsLate'
  <2>1. Size' \notin deferred'
    BY <1>2, <1>3 DEF IInv, DeferredIsEnded, TypeOK, Context
  <2> QED
    BY <2>1 DEF TopIsLate
<1> QED
  BY <1>9, <1>10, <1>11, <1>12, <1>13, <1>14, <1>15, <1>16 DEF IInv

LEMMA ExtractAndAttachIInv == ASSUME IInv, ExtractAndAttach PROVE IInv'
  BY AttachIInv, ConstantsAssumption DEF ExtractAndAttach

LEMMA StartSpanIInv == ASSUME IInv, StartSpan PROVE IInv'
<1>1. Current \in 0..MaxContexts /\ Current \in sampled
  BY DEF StartSpan, CurrentSampled, IInv, TypeOK, Context
<1> QED
  BY <1>1, AttachIInv DEF StartSpan

-------------------------------------------------------------------------------
(* A thread takes a context of its own to end; an index beyond the stack   *)
(* does not come up.                                                       *)
LEMMA EndIInv == ASSUME IInv, NEW t \in Threads, End(t) PROVE IInv'
<1>1. PICK c \in Context :
        /\ pc[t] = "idle" /\ state[c] = "live"
        /\ IF index[c] > Size
             THEN /\ state' = [state EXCEPT ![c] = "ended"]
                  /\ UNCHANGED <<pc, arg>>
             ELSE /\ state' = [state EXCEPT ![c] = "ending"]
                  /\ pc' = [pc EXCEPT ![t] = "unattach"]
                  /\ arg' = [arg EXCEPT ![t] = c]
  BY DEF End
<1>2. UNCHANGED <<traceCtx, made, index, parent, sampled, multiThread, deferred, late>>
  BY DEF End, stackVars
<1>3. Size \in Nat /\ Size' = Size
  BY <1>2, SizeType DEF IInv, Size
<1>4. /\ state \in [Context -> {"none", "live", "ending", "ended"}]
      /\ pc \in [Threads -> {"idle", "unattach", "flag", "sweep"}]
      /\ arg \in [Threads -> 0..MaxContexts]
  BY DEF IInv, TypeOK
<1>5. index[c] \in 1..Size
  BY <1>1 DEF IInv, LiveContextsStay, Unpopped
<1>6. /\ state' = [state EXCEPT ![c] = "ending"]
      /\ pc' = [pc EXCEPT ![t] = "unattach"]
      /\ arg' = [arg EXCEPT ![t] = c]
  BY <1>1, <1>3, <1>5
<1>7. c \in 0..MaxContexts
  BY ConstantsAssumption DEF Context
<1>8. TypeOK'
  <2>1. /\ state' \in [Context -> {"none", "live", "ending", "ended"}]
        /\ pc' \in [Threads -> {"idle", "unattach", "flag", "sweep"}]
        /\ arg' \in [Threads -> 0..MaxContexts]
    BY <1>4, <1>6, <1>7
  <2> QED
    BY <1>2, <2>1 DEF IInv, TypeOK
<1>9. \A d \in Context :
        /\ state'[d] = "none" <=> state[d] = "none"
        /\ state'[d] = "ended" <=> state[d] = "ended"
        /\ Unpopped(d)' <=> Unpopped(d)
  BY <1>1, <1>4, <1>6 DEF Unpopped
<1>10. \A i \in 1..Size : traceCtx[i] \in Context
  BY DEF IInv, TypeOK, Size
<1>11. Placed'
  BY <1>2, <1>3, <1>9 DEF IInv, Placed
<1>12. OwnEnd'
  <2>1. \A u \in Threads : pc[u] = "unattach" => arg[u] # c
    BY <1>1 DEF IInv, OwnEnd
  <2>2. \A u \in Threads \ {t} : pc'[u] = pc[u] /\ arg'[u] = arg[u]
    BY <1>4, <1>6
  <2>3. pc'[t] = "unattach" /\ arg'[t] = c /\ state'[c] = "ending"
    BY <1>4, <1>6
  <2>4. \A d \in Context \ {c} : state'[d] = state[d]
    BY <1>4, <1>6
  <2> QED
    BY <2>1, <2>2, <2>3, <2>4 DEF IInv, OwnEnd
<1>13. LiveContextsStay' /\ DeferredIsEnded' /\ ParentBelow'
  <2>1. LiveContextsStay'
    BY <1>2, <1>3, <1>9 DEF IInv, LiveContextsStay
  <2>2. DeferredIsEnded'
    BY <1>2, <1>3, <1>9, <1>10 DEF IInv, DeferredIsEnded, TypeOK, Context
  <2>3. ParentBelow'
    BY <1>2, <1>3 DEF IInv, ParentBelow
  <2> QED
    BY <2>1, <2>2, <2>3
<1>14. EndedIsDeferred'
  BY <1>2, <1>3, <1>9, <1>10 DEF IInv, EndedIsDeferred
<1>15. TopIsLate'
  BY <1>1, <1>2, <1>3, <1>4, <1>6, OwnerThread DEF IInv, TopIsLate
<1> QED
  BY <1>8, <1>11, <1>12, <1>13, <1>14, <1>15 DEF IInv

(* The top is popped: its context was not ended before, so that its index  *)
(* does not wait in the set.                                               *)
LEMMA UnattachTopIInv == ASSUME IInv, NEW t \in Threads, UnattachTop(t) PROVE IInv'
<1> DEFINE c == arg[t]
<1>1. /\ pc[t] = "unattach" /\ t = Owner /\ index[c] = Size
      /\ traceCtx' = SubSeq(traceCtx, 1, Size - 1)
      /\ state' = [state EXCEPT ![c] = "ended"]
      /\ pc' = [pc EXCEPT ![t] = "flag"]
      /\ UNCHANGED <<made, index, parent, sampled, multiThread, deferred, arg, late>>
  BY DEF UnattachTop, TopOfOwner, PopBack
<1>2. /\ state \in [Context -> {"none", "live", "ending", "ended"}]
      /\ pc \in [Threads -> {"idle", "unattach", "flag", "sweep"}]
  BY DEF IInv, TypeOK
<1>3. c \in Context /\ state[c] = "ending"
  BY <1>1 DEF IInv, OwnEnd
<1>4. Size \in 1..Size /\ traceCtx[Size] = c /\ Size \in Nat
  BY <1>1, <1>3, SizeType DEF IInv, LiveContextsStay, Unpopped
<1>5. /\ traceCtx' \in Seq(Context) /\ Size' = Size - 1
      /\ \A i \in 1..Size - 1 : traceCtx'[i] = traceCtx[i]
  <2>1. Size - 1 \in 0..Len(traceCtx)
    BY <1>4 DEF Size
  <2> QED
    BY <1>1, <2>1, Cut DEF IInv, TypeOK, Size
<1>6. \A i \in 1..Size - 1 : i \in 1..Size /\ traceCtx[i] \in Context /\ traceCtx[i] # c
  BY <1>1, <1>4 DEF IInv, Placed, TypeOK, Size
<1>7. Size \notin deferred
  BY <1>3, <1>4 DEF IInv, DeferredIsEnded
<1>8. \A d \in Context \ {c} : state'[d] = state[d]
  BY <1>1, <1>2, <1>3
<1>9. state'[c] = "ended"
  BY <1>1, <1>2, <1>3
<1>10. TypeOK'
  <2>1. /\ state' \in [Context -> {"none", "live", "ending", "ended"}]
        /\ pc' \in [Threads -> {"idle", "unattach", "flag", "sweep"}]
    BY <1>1, <1>2, <1>3
  <2> QED
    BY <1>1, <1>5, <2>1 DEF IInv, TypeOK
<1>11. Placed'
  <2>1. Size <= made /\ \A i \in 1..Size : traceCtx[i] \in 1..made /\ index[traceCtx[i]] = i
    BY DEF IInv, Placed
  <2>2. made \in Nat
    BY ConstantsAssumption DEF IInv, TypeOK
  <2>3. Size' <= made'
    BY <1>1, <1>4, <1>5, <2>1, <2>2
  <2>4. \A i \in 1..Size' : traceCtx'[i] \in 1..made' /\ index'[traceCtx'[i]] = i
    BY <1>1, <1>5, <1>6, <2>1
  <2>5. \A d \in Context : state'[d] = "none" <=> d > made'
    BY <1>1, <1>3, <1>8, <1>9 DEF IInv, Placed
  <2> QED
    BY <2>3, <2>4, <2>5 DEF Placed
<1>12. OwnEnd'
  <2>1. \A u \in Threads : pc'[u] = "unattach" => u # t /\ pc[u] = "unattach"
    BY <1>1, <1>2
  <2>2. \A u \in Threads : pc'[u] = "unattach" => arg[u] \in Context \ {c}
    BY <1>1, <2>1 DEF IInv, OwnEnd
  <2> QED
    BY <1>1, <1>8, <2>1, <2>2 DEF IInv, OwnEnd
<1>13. LiveContextsStay'
  <2> SUFFICES ASSUME NEW d \in Context, Unpopped(d)'
               PROVE  index'[d] \in 1..Size' /\ traceCtx'[index'[d]] = d
    BY DEF LiveContextsStay
  <2>1. d # c /\ Unpopped(d)
    BY <1>8, <1>9 DEF Unpopped
  <2>2. index[d] \in 1..Size /\ traceCtx[index[d]] = d
    BY <2>1 DEF IInv, LiveContextsStay
  <2>3. index[d] \in 1..Size - 1
    BY <1>4, <2>1, <2>2
  <2> QED
    BY <1>1, <1>5, <2>2, <2>3
<1>14. DeferredIsEnded'
  <2> SUFFICES ASSUME NEW i \in deferred PROVE i <= Size' /\ state'[traceCtx'[i]] = "ended"
    BY <1>1 DEF DeferredIsEnded
  <2>1. i \in 1..Size /\ state[traceCtx[i]] = "ended"
    BY <1>4 DEF IInv, DeferredIsEnded, TypeOK, Context
  <2>2. i \in 1..Size - 1
    BY <1>4, <1>7, <2>1
  <2> QED
    BY <1>5, <1>6, <1>8, <2>1, <2>2
<1>15. ParentBelow'
  <2> SUFFICES ASSUME NEW i \in 1..Size', parent'[traceCtx'[i]] # 0
               PROVE  /\ i > 1 /\ traceCtx'[i - 1] = parent'[traceCtx'[i]]
                      /\ parent'[traceCtx'[i]] \in sampled'
    BY DEF ParentBelow
  <2>1. i \in 1..Size - 1 /\ i \in 1..Size /\ traceCtx'[i] = traceCtx[i]
    BY <1>5, <1>6
  <2>2. i > 1 /\ traceCtx[i - 1] = parent[traceCtx[i]] /\ parent[traceCtx[i]] \in sampled
    BY <1>1, <2>1 DEF IInv, ParentBelow
  <2>3. i - 1 \in 1..Size - 1
    BY <1>4, <2>1, <2>2
  <2> QED
    BY <1>1, <1>5, <2>1, <2>2, <2>3
<1>16. EndedIsDeferred'
  BY <1>1, <1>5, <1>6, <1>8 DEF IInv, EndedIsDeferred
<1>17. TopIsLate'
  BY <1>1, <1>2 DEF TopIsLate
<1> QED
  BY <1>10, <1>11, <1>12, <1>13, <1>14, <1>15, <1>16, <1>17 DEF IInv

(* The index is put into the set while its context is on the stack.        *)
LEMMA DeferIInv == ASSUME IInv, NEW t \in Threads, Defer(t) PROVE IInv'
<1> DEFINE c == arg[t]
<1>1. /\ pc[t] = "unattach"
      /\ multiThread' = TRUE
      /\ deferred' = deferred \cup {index[c]}
      /\ state' = [state EXCEPT ![c] = "ended"]
      /\ pc' = [pc EXCEPT ![t] = IF t = Owner THEN "flag" ELSE "idle"]
      /\ late' = IF t = Owner THEN late ELSE late \cup {c}
      /\ UNCHANGED <<traceCtx, made, index, parent, sampled, arg>>
  BY DEF Defer, stackVars
<1>2. /\ state \in [Context -> {"none", "live", "ending", "ended"}]
      /\ pc \in [Threads -> {"idle", "unattach", "flag", "sweep"}]
  BY DEF IInv, TypeOK
<1>3. c \in Context /\ state[c] = "ending"
  BY <1>1 DEF IInv, OwnEnd
<1>4. index[c] \in 1..Size /\ traceCtx[index[c]] = c
  BY <1>3 DEF IInv, LiveContextsStay, Unpopped
<1>5. Size' = Size /\ Size \in Nat
  BY <1>1, SizeType DEF IInv, Size
<1>6. \A d \in Context \ {c} : state'[d] = state[d]
  BY <1>1, <1>2, <1>3
<1>7. state'[c] = "ended"
  BY <1>1, <1>2, <1>3
<1>8. \A i \in 1..Size : traceCtx[i] \in Context /\ index[traceCtx[i]] = i
  BY DEF IInv, Placed, TypeOK, Size
<1>9. TypeOK'
  <2>1. /\ state' \in [Context -> {"none", "live", "ending", "ended"}]
        /\ pc' \in [Threads -> {"idle", "unattach", "flag", "sweep"}]
    BY <1>1, <1>2, <1>3
  <2>2. deferred' \subseteq Context
    <3>1. index[c] <= Size /\ Size <= made /\ made <= MaxContexts
      BY <1>4 DEF IInv, Placed, TypeOK
    <3>2. index[c] \in Nat /\ index[c] >= 1 /\ made \in Nat
      BY <1>4, <1>5, ConstantsAssumption DEF IInv, TypeOK
    <3>3. index[c] \in Context
      BY <1>5, <3>1, <3>2, ConstantsAssumption DEF Context
    <3> QED
      BY <1>1, <3>3 DEF IInv, TypeOK
  <2>3. late' \subseteq Context
    BY <1>1, <1>3 DEF IInv, TypeOK
  <2>4. multiThread' \in BOOLEAN
    BY <1>1
  <2> QED
    BY <1>1, <2>1, <2>2, <2>3, <2>4 DEF IInv, TypeOK
<1>10. Placed'
  BY <1>1, <1>3, <1>5, <1>6, <1>7 DEF IInv, Placed
<1>11. OwnEnd'
  <2>1. \A u \in Threads : pc'[u] = "unattach" => u # t /\ pc[u] = "unattach"
    BY <1>1, <1>2
  <2>2. \A u \in Threads : pc'[u] = "unattach" => arg[u] \in Context \ {c}
    BY <1>1, <2>1 DEF IInv, OwnEnd
  <2> QED
    BY <1>1, <1>6, <2>1, <2>2 DEF IInv, OwnEnd
<1>12. LiveContextsStay'
  <2>1. \A d \in Context : Unpopped(d)' => Unpopped(d)
    BY <1>6, <1>7 DEF Unpopped
  <2> QED
    BY <1>1, <1>5, <2>1 DEF IInv, LiveContextsStay
<1>13. DeferredIsEnded'
  <2> SUFFICES ASSUME NEW i \in deferred' PROVE i <= Size /\ state'[traceCtx[i]] = "ended"
    BY <1>1, <1>5 DEF DeferredIsEnded
  <2>1. CASE i = index[c]
    BY <1>4, <1>5, <1>7, <2>1
  <2>2. CASE i \in deferred
    <3>1. i \in 1..Size /\ state[traceCtx[i]] = "ended"
      BY <1>5, <2>2 DEF IInv, DeferredIsEnded, TypeOK, Context
    <3> QED
      BY <1>6, <1>7, <1>8, <3>1
  <2> QED
    BY <1>1, <2>1, <2>2
<1>14. ParentBelow'
  BY <1>1, <1>5 DEF IInv, ParentBelow
<1>15. EndedIsDeferred'
  <2>1. \A i \in 1..Size : state'[traceCtx[i]] = "ended" => i \in deferred'
    <3> SUFFICES ASSUME NEW i \in 1..Size, state'[traceCtx[i]] = "ended"
                 PROVE  i \in deferred'
      OBVIOUS
    <3>1. CASE traceCtx[i] = c
      BY <1>1, <1>8, <3>1
    <3>2. CASE traceCtx[i] # c
      BY <1>1, <1>6, <1>8, <3>2 DEF IInv, EndedIsDeferred
    <3> QED
      BY <3>1, <3>2
  <2>2. multiThread' <=> deferred' # {}
    BY <1>1
  <2> QED
    BY <1>1, <1>5, <2>1, <2>2 DEF EndedIsDeferred
<1>16. TopIsLate'
  <2>1. CASE t = Owner
    BY <1>1, <1>2, <2>1 DEF TopIsLate
  <2>2. CASE t # Owner
    <3> SUFFICES ASSUME pc'[Owner] \in {"idle", "unattach"}, Size > 0, Size \in deferred'
                 PROVE  traceCtx[Size] \in late'
      BY <1>1, <1>5 DEF TopIsLate
    <3>1. pc'[Owner] = pc[Owner]
      BY <1>1, <1>2, <2>2, OwnerThread
    <3>2. CASE Size = index[c]
      BY <1>1, <1>4, <2>2, <3>2
    <3>3. CASE Size \in deferred
      BY <1>1, <2>2, <3>1, <3>3 DEF IInv, TopIsLate
    <3> QED
      BY <1>1, <3>2, <3>3
  <2> QED
    BY <2>1, <2>2
<1> QED
  BY <1>9, <1>10, <1>11, <1>12, <1>13, <1>14, <1>15, <1>16 DEF IInv

-------------------------------------------------------------------------------
(* Without the flag nothing waits in the set, and nothing at the top.      *)
LEMMA ReadFlagIInv == ASSUME IInv, ReadFlag PROVE IInv'
<1>1. /\ pc[Owner] = "flag"
      /\ UNCHANGED <<traceCtx, made, index, parent, sampled, multiThread, deferred, state, arg>>
  BY DEF ReadFlag, stackVars
<1>2. /\ pc \in [Threads -> {"idle", "unattach", "flag", "sweep"}]
      /\ Owner \in Threads /\ late \subseteq Context
  BY OwnerThread DEF IInv, TypeOK
<1>3. /\ pc' \in [Threads -> {"idle", "unattach", "flag", "sweep"}]
      /\ late' \subseteq Context
      /\ \A u \in Threads : pc'[u] = "unattach" => pc[u] = "unattach"
  <2>1. CASE multiThread
    <3>1. pc' = [pc EXCEPT ![Owner] = "sweep"] /\ late' = late
      BY <2>1 DEF ReadFlag
    <3> QED
      BY <1>2, <3>1
  <2>2. CASE ~multiThread
    <3>1. pc' = [pc EXCEPT ![Owner] = "idle"] /\ late' = {}
      BY <2>2 DEF ReadFlag
    <3> QED
      BY <1>2, <3>1
  <2> QED
    BY <2>1, <2>2
<1>4. TypeOK'
  BY <1>1, <1>3 DEF IInv, TypeOK
<1>5. Placed' /\ LiveContextsStay' /\ DeferredIsEnded' /\ ParentBelow' /\ EndedIsDeferred'
  <2>1. Placed'
    BY <1>1 DEF IInv, Placed, Size
  <2>2. LiveContextsStay'
    BY <1>1 DEF IInv, LiveContextsStay, Unpopped, Size
  <2>3. DeferredIsEnded' /\ ParentBelow'
    BY <1>1 DEF IInv, DeferredIsEnded, ParentBelow, Size
  <2>4. EndedIsDeferred'
    BY <1>1 DEF IInv, EndedIsDeferred, Size
  <2> QED
    BY <2>1, <2>2, <2>3, <2>4
<1>6. OwnEnd'
  BY <1>1, <1>3 DEF IInv, OwnEnd
<1>7. TopIsLate'
  <2>1. CASE multiThread
    <3>1. pc' = [pc EXCEPT ![Owner] = "sweep"]
      BY <2>1 DEF ReadFlag
    <3>2. pc'[Owner] = "sweep"
      BY <1>2, <3>1
    <3> QED
      BY <3>2 DEF TopIsLate
  <2>2. CASE ~multiThread
    <3>1. deferred' = {}
      BY <1>1, <2>2 DEF IInv, EndedIsDeferred
    <3> QED
      BY <3>1 DEF TopIsLate
  <2> QED
    BY <2>1, <2>2
<1> QED
  BY <1>4, <1>5, <1>6, <1>7 DEF IInv

(* The sweep pops ended contexts only, with their indices.                 *)
LEMMA SweepIInv == ASSUME IInv, Sweep PROVE IInv'
<1>1. PICK k \in 0..Size :
        /\ k > 0 => k \notin deferred
        /\ \A i \in k + 1 .. Size : i \in deferred
        /\ traceCtx' = SubSeq(traceCtx, 1, k)
        /\ deferred' = deferred \ (k + 1 .. Size)
  BY DEF Sweep, Waits, Erase
<1>2. /\ pc[Owner] = "sweep" /\ pc' = [pc EXCEPT ![Owner] = "idle"] /\ late' = {}
      /\ UNCHANGED <<made, index, parent, sampled, state, arg>>
  BY DEF Sweep
<1>3. multiThread' = (deferred' # {})
  BY DEF Sweep
<1>4. Size \in Nat /\ k \in Nat /\ k <= Size
  BY SizeType DEF IInv
<1>5. /\ traceCtx' \in Seq(Context) /\ Size' = k
      /\ \A i \in 1..k : traceCtx'[i] = traceCtx[i]
  BY <1>1, Cut DEF IInv, TypeOK, Size
<1>6. \A i \in 1..k : i \in 1..Size
  BY <1>4
<1>7. deferred' \subseteq deferred
  BY <1>1
<1>8. TypeOK'
  <2>1. pc' \in [Threads -> {"idle", "unattach", "flag", "sweep"}]
    BY <1>2, OwnerThread DEF IInv, TypeOK
  <2>2. multiThread' \in BOOLEAN
    BY <1>3
  <2>3. late' \subseteq Context /\ deferred' \subseteq Context
    BY <1>2, <1>7 DEF IInv, TypeOK
  <2> QED
    BY <1>2, <1>5, <2>1, <2>2, <2>3 DEF IInv, TypeOK
<1>9. Placed'
  <2>1. made \in Nat /\ Size <= made
    BY ConstantsAssumption DEF IInv, TypeOK, Placed
  <2>2. Size' <= made'
    BY <1>2, <1>4, <1>5, <2>1
  <2>3. \A i \in 1..Size' : traceCtx'[i] \in 1..made' /\ index'[traceCtx'[i]] = i
    BY <1>2, <1>5, <1>6 DEF IInv, Placed
  <2>4. \A c \in Context : state'[c] = "none" <=> c > made'
    BY <1>2 DEF IInv, Placed
  <2> QED
    BY <2>2, <2>3, <2>4 DEF Placed
<1>10. OwnEnd'
  <2>1. \A u \in Threads : pc'[u] = "unattach" => pc[u] = "unattach"
    BY <1>2, OwnerThread DEF IInv, TypeOK
  <2> QED
    BY <1>2, <2>1 DEF IInv, OwnEnd
<1>11. LiveContextsStay'
  <2> SUFFICES ASSUME NEW d \in Context, Unpopped(d)'
               PROVE  index'[d] \in 1..Size' /\ traceCtx'[index'[d]] = d
    BY DEF LiveContextsStay
  <2>1. Unpopped(d)
    BY <1>2 DEF Unpopped
  <2>2. index[d] \in 1..Size /\ traceCtx[index[d]] = d
    BY <2>1 DEF IInv, LiveContextsStay
  <2>3. index[d] \notin deferred
    BY <2>1, <2>2 DEF IInv, DeferredIsEnded, Unpopped
  <2>4. index[d] \in 1..k
    BY <1>1, <1>4, <2>2, <2>3
  <2> QED
    BY <1>2, <1>5, <2>2, <2>4
<1>12. DeferredIsEnded'
  <2> SUFFICES ASSUME NEW i \in deferred' PROVE i <= Size' /\ state'[traceCtx'[i]] = "ended"
    BY DEF DeferredIsEnded
  <2>1. i \in 1..Size /\ state[traceCtx[i]] = "ended"
    BY <1>4, <1>7 DEF IInv, DeferredIsEnded, TypeOK, Context
  <2>2. i \in 1..k
    BY <1>1, <1>4, <2>1
  <2> QED
    BY <1>2, <1>5, <2>1, <2>2
<1>13. ParentBelow'
  <2> SUFFICES ASSUME NEW i \in 1..Size', parent'[traceCtx'[i]] # 0
               PROVE  /\ i > 1 /\ traceCtx'[i - 1] = parent'[traceCtx'[i]]
                      /\ parent'[traceCtx'[i]] \in sampled'
    BY DEF ParentBelow
  <2>1. i \in 1..k /\ i \in 1..Size /\ traceCtx'[i] = traceCtx[i]
    BY <1>5, <1>6
  <2>2. i > 1 /\ traceCtx[i - 1] = parent[traceCtx[i]] /\ parent[traceCtx[i]] \in sampled
    BY <1>2, <2>1 DEF IInv, ParentBelow
  <2>3. i - 1 \in 1..k
    BY <1>4, <2>1, <2>2
  <2> QED
    BY <1>2, <1>5, <2>1, <2>2, <2>3
<1>14. EndedIsDeferred'
  <2>1. \A i \in 1..Size' : state'[traceCtx'[i]] = "ended" => i \in deferred'
    <3> SUFFICES ASSUME NEW i \in 1..Size', state'[traceCtx'[i]] = "ended"
                 PROVE  i \in deferred'
      OBVIOUS
    <3>1. i \in 1..k /\ i \in 1..Size /\ state[traceCtx[i]] = "ended"
      BY <1>2, <1>5, <1>6
    <3>2. i \in deferred
      BY <3>1 DEF IInv, EndedIsDeferred
    <3> QED
      BY <1>1, <1>4, <3>1, <3>2
  <2>2. multiThread' <=> deferred' # {}
    BY <1>3
  <2> QED
    BY <2>1, <2>2 DEF EndedIsDeferred
<1>15. TopIsLate'
  <2>1. ~(Size' > 0 /\ Size' \in deferred')
    BY <1>1, <1>5
  <2> QED
    BY <2>1 DEF TopIsLate
<1> QED
  BY <1>8, <1>9, <1>10, <1>11, <1>12, <1>13, <1>14, <1>15 DEF IInv

-------------------------------------------------------------------------------
LEMMA NextIInv == ASSUME IInv, [Next]_vars PROVE IInv'
<1>1. CASE Next
  BY <1>1, ExtractAndAttachIInv, StartSpanIInv, EndIInv, UnattachTopIInv, DeferIInv,
     ReadFlagIInv, SweepIInv DEF Next
<1>2. CASE UNCHANGED vars
  <2>1. UNCHANGED <<traceCtx, made, index, parent, sampled, multiThread, deferred, state,
                    pc, arg, late>>
    BY <1>2 DEF vars, stackVars
  <2>2. Size' = Size
    BY <2>1 DEF Size
  <2>3. TypeOK' /\ OwnEnd'
    BY <2>1 DEF IInv, TypeOK, OwnEnd
  <2>4. Placed' /\ LiveContextsStay'
    BY <2>1, <2>2 DEF IInv, Placed, LiveContextsStay, Unpopped
  <2>5. DeferredIsEnded' /\ ParentBelow'
    BY <2>1, <2>2 DEF IInv, DeferredIsEnded, ParentBelow
  <2>6. EndedIsDeferred' /\ TopIsLate'
    BY <2>1, <2>2 DEF IInv, EndedIsDeferred, TopIsLate
  <2> QED
    BY <2>3, <2>4, <2>5, <2>6 DEF IInv
<1> QED
  BY <1>1, <1>2

(* The inductive invariant holds in every reachable state.                 *)
THEOREM Invariance == Spec => []IInv
  BY InitIInv, NextIInv, PTL DEF Spec

(* Types, with the bounds of indices and of the set that defers.           *)
THEOREM TypeCorrect == Spec => []TypeOK
<1>1. IInv => TypeOK
  BY DEF IInv
<1> QED
  BY <1>1, Invariance, PTL

(* Whoever ends what in which order, a context that has not been ended is  *)
(* on the stack at the index that Attach returned.                         *)
THEOREM LiveContextsAreKept == Spec => []LiveContextsStay
<1>1. IInv => LiveContextsStay
  BY DEF IInv
<1> QED
  BY <1>1, Invariance, PTL

(* An index never waits in the set for a context that takes the place of   *)
(* the one it was put there for.                                           *)
THEOREM DeferredEndsAreMeant == Spec => []DeferredIsEnded
<1>1. IInv => DeferredIsEnded
  BY DEF IInv
<1> QED
  BY <1>1, Invariance, PTL

(* A span is above its parent for as long as it is on the stack.           *)
THEOREM ParentsAreBelow == Spec => []ParentBelow
<1>1. IInv => ParentBelow
  BY DEF IInv
<1> QED
  BY <1>1, Invariance, PTL

(* The owner starts no span below one that was over when it last ended     *)
(* something.                                                              *)
THEOREM CurrentStaysLive == Spec => []CurrentIsLive
<1>1. IInv => CurrentIsLive
  <2> SUFFICES ASSUME IInv, pc[Owner] = "idle", Current # 0, state[Current] = "ended"
               PROVE  Current \in late
    BY DEF CurrentIsLive
  <2>1. Size \in Nat /\ Size > 0 /\ Current = traceCtx[Size]
    BY SizeType DEF IInv, Current, Size, TypeOK
  <2>2. Size \in deferred
    BY <2>1 DEF IInv, EndedIsDeferred
  <2> QED
    BY <2>1, <2>2 DEF IInv, TopIsLate
<1> QED
  BY <1>1, Invariance, PTL
===============================================================================
