----------------------------- MODULE TraceContext -----------------------------
(***************************************************************************)
(* The trace context of one thread, Tracer.h: a stack of contexts that the *)
(* owner thread pushes to and pops from without a lock, while any thread   *)
(* may end a span whose context is on it.  An end that is not the owner's  *)
(* own, or not of the top, is deferred: its index is put into a set, under *)
(* a mutex, and the owner sweeps the top of the stack in its next          *)
(* Unattach.                                                               *)
(*                                                                         *)
(* The steps of a thread are the accesses to what the threads share.       *)
(* Indices count from 1.  The two words of the vector that size() reads    *)
(* may be torn by a push_back that reallocates, but then they belong to    *)
(* buffers that do not overlap, so that the difference is larger than any  *)
(* index: the check in Unattach reads as if it came before or after.       *)
(* Contexts of HTTP requests and of spans are ended once each.             *)
(***************************************************************************)
EXTENDS Naturals, Sequences

CONSTANTS
    MaxContexts,  \* bound: contexts attached
    Owner,        \* the thread the TraceContext belongs to
    Others        \* threads that may end its spans

ASSUME ConstantsAssumption == MaxContexts \in Nat /\ Owner \notin Others

Threads == {Owner} \cup Others
Context == 1..MaxContexts

VARIABLES
    traceCtx,     \* the stack
    multiThread,  \* deferred is not empty, read without the mutex
    deferred,     \* multiThreadUnattachIndex_
    made,         \* contexts attached so far
    state,        \* of a context: "none", "live", "ending" (in Unattach), "ended"
    index,        \* what Attach returned
    parent,       \* the current context when it was attached, 0 for a request's
    sampled,      \* the contexts with isSample
    pc,           \* of a thread: "idle", "unattach", "flag", "sweep"
    arg,          \* the context a thread's Unattach is for
    late          \* history: ends deferred since the owner last looked

stackVars == <<traceCtx, made, index, parent, sampled>>
vars == <<stackVars, multiThread, deferred, state, pc, arg, late>>

TypeOK ==
    /\ traceCtx \in Seq(Context)
    /\ multiThread \in BOOLEAN
    /\ deferred \subseteq Context
    /\ made \in 0..MaxContexts
    /\ state \in [Context -> {"none", "live", "ending", "ended"}]
    /\ index \in [Context -> 0..MaxContexts]
    /\ parent \in [Context -> 0..MaxContexts]
    /\ sampled \subseteq Context
    /\ pc \in [Threads -> {"idle", "unattach", "flag", "sweep"}]
    /\ arg \in [Threads -> 0..MaxContexts]
    /\ late \subseteq Context

Init ==
    /\ traceCtx = << >> /\ multiThread = FALSE /\ deferred = {}
    /\ made = 0
    /\ state = [c \in Context |-> "none"]
    /\ index = [c \in Context |-> 0]
    /\ parent = [c \in Context |-> 0]
    /\ sampled = {}
    /\ pc = [t \in Threads |-> "idle"]
    /\ arg = [t \in Threads |-> 0]
    /\ late = {}

Size == Len(traceCtx)

(* GetCurrent: the top, or an empty context that is not sampled.           *)
Current == IF traceCtx = << >> THEN 0 ELSE traceCtx[Size]

CurrentSampled == Current \in sampled

-------------------------------------------------------------------------------
(* Attaching: by the owner only, the context being thread-local.           *)

NewIndex == Size + 1

Attach(p, isSample) ==
    LET c == made + 1 IN
        /\ pc[Owner] = "idle" /\ made < MaxContexts
        /\ made' = c
        /\ traceCtx' = Append(traceCtx, c)
        /\ index' = [index EXCEPT ![c] = NewIndex]
        /\ parent' = [parent EXCEPT ![c] = p]
        /\ sampled' = IF isSample THEN sampled \cup {c} ELSE sampled
        /\ state' = [state EXCEPT ![c] = "live"]
        /\ UNCHANGED <<multiThread, deferred, pc, arg, late>>

(* A request brings a context of its own; what could not be parsed is not  *)
(* sampled.                                                                *)
ExtractAndAttach == \E isSample \in BOOLEAN : Attach(0, isSample)

(* A bug: a span below a context that is not sampled is attached as well.  *)
StartSpanAlways == Current # 0 /\ Attach(Current, TRUE)

(* The constructor of Span: without a sampled context the span is not      *)
(* attached and does nothing.                                              *)
StartSpan == CurrentSampled /\ Attach(Current, TRUE)

-------------------------------------------------------------------------------
(* Unattach                                                                *)

(* End of a span, or Unattach of a request's context, called by any thread *)
(* that holds it; an index beyond the stack is ignored.                    *)
End(t) ==
    \E c \in Context :
        /\ pc[t] = "idle" /\ state[c] = "live"
        /\ t # Owner => parent[c] # 0
        /\ IF index[c] > Size
             THEN /\ state' = [state EXCEPT ![c] = "ended"]
                  /\ UNCHANGED <<pc, arg>>
             ELSE /\ state' = [state EXCEPT ![c] = "ending"]
                  /\ pc' = [pc EXCEPT ![t] = "unattach"]
                  /\ arg' = [arg EXCEPT ![t] = c]
        /\ UNCHANGED <<stackVars, multiThread, deferred, late>>

(* A bug: the thread is not looked at.                                     *)
TopOfAny(t) == index[arg[t]] = Size

TopOfOwner(t) == t = Owner /\ index[arg[t]] = Size

PopBack == traceCtx' = SubSeq(traceCtx, 1, Size - 1)

UnattachTop(t) ==
    /\ pc[t] = "unattach" /\ TopOfOwner(t)
    /\ PopBack
    /\ state' = [state EXCEPT ![arg[t]] = "ended"]
    /\ pc' = [pc EXCEPT ![t] = "flag"]
    /\ UNCHANGED <<made, index, parent, sampled, multiThread, deferred, arg, late>>

(* Out of order or out of thread: remember the index, under the mutex.     *)
(* Only the owner looks at the flag afterwards.                            *)
Defer(t) ==
    /\ pc[t] = "unattach" /\ ~TopOfOwner(t)
    /\ multiThread' = TRUE
    /\ deferred' = deferred \cup {index[arg[t]]}
    /\ state' = [state EXCEPT ![arg[t]] = "ended"]
    /\ pc' = [pc EXCEPT ![t] = IF t = Owner THEN "flag" ELSE "idle"]
    /\ late' = IF t = Owner THEN late ELSE late \cup {arg[t]}
    /\ UNCHANGED <<stackVars, arg>>

(* A bug: the sweep belongs to the deferring branch.                       *)
ReadFlagIfDeferred ==
    /\ pc[Owner] = "flag"
    /\ LET deferring == \E i \in DOMAIN traceCtx : traceCtx[i] = arg[Owner] IN
         /\ pc' = [pc EXCEPT ![Owner] = IF multiThread /\ deferring THEN "sweep" ELSE "idle"]
         /\ late' = IF multiThread THEN late ELSE {}
    /\ UNCHANGED <<stackVars, multiThread, deferred, state, arg>>

(* The flag is read without the mutex.                                     *)
ReadFlag ==
    /\ pc[Owner] = "flag"
    /\ pc' = [pc EXCEPT ![Owner] = IF multiThread THEN "sweep" ELSE "idle"]
    /\ late' = IF multiThread THEN late ELSE {}
    /\ UNCHANGED <<stackVars, multiThread, deferred, state, arg>>

(* A bug: the position read is taken for the index.                        *)
WaitsBelow(i) == i - 1 \in deferred

Waits(i) == i \in deferred

(* What is left of the set when the stack is cut to k contexts.            *)
Erase(k) == deferred \ (k + 1 .. Size)

(* Under the mutex: pop from the top while the index is in the set.        *)
Sweep ==
    /\ pc[Owner] = "sweep"
    /\ \E k \in 0..Size :
         /\ k > 0 => ~Waits(k)
         /\ \A i \in k + 1 .. Size : Waits(i)
         /\ traceCtx' = SubSeq(traceCtx, 1, k)
         /\ deferred' = Erase(k)
    /\ multiThread' = (deferred' # {})
    /\ pc' = [pc EXCEPT ![Owner] = "idle"]
    /\ late' = {}
    /\ UNCHANGED <<made, index, parent, sampled, state, arg>>

Next ==
    \/ ExtractAndAttach
    \/ StartSpan
    \/ \E t \in Threads : End(t) \/ UnattachTop(t) \/ Defer(t)
    \/ ReadFlag
    \/ Sweep

Spec == Init /\ [][Next]_vars

-------------------------------------------------------------------------------
(* A context that has not been ended is on the stack where Attach put it,  *)
(* whoever ended what in which order: it is not popped in place of another.*)
Unpopped(c) == state[c] \in {"live", "ending"}

LiveContextsStay ==
    \A c \in Context :
        Unpopped(c) => index[c] \in 1..Size /\ traceCtx[index[c]] = c

(* An index waits in the set only for a context on the stack that has been *)
(* ended: popping it never leaves the index for the next context at this   *)
(* place to be popped by.                                                  *)
DeferredIsEnded ==
    \A i \in deferred : i <= Size /\ state[traceCtx[i]] = "ended"

(* Below the context of a span is its parent, sampled, for as long as it   *)
(* is on the stack: who ends the span returns to the parent.               *)
ParentBelow ==
    \A i \in 1..Size :
        LET p == parent[traceCtx[i]] IN
            p # 0 => i > 1 /\ traceCtx[i - 1] = p /\ p \in sampled

(* The current context of an owner that is not in Unattach has not been    *)
(* ended, unless another thread did so since the owner last looked: new    *)
(* spans get no parent that was over when the owner last ended something.  *)
CurrentIsLive ==
    pc[Owner] = "idle" /\ Current # 0 /\ state[Current] = "ended" => Current \in late
===============================================================================
