----------------------------- MODULE SurgeonGraph -----------------------------
(***************************************************************************)
(* The graph of the surgeon, base_graph.py: operator nodes with lists of   *)
(* input and output edges, and two maps kept beside them, from an edge to  *)
(* the node that writes it and to the nodes that read it.  Edits of the    *)
(* graph go by the maps and repair them as they go; update_map builds them *)
(* anew, and only some operations call it.                                 *)
(*                                                                         *)
(* An edge is a tuple of names, so that <<a, b>> is the name f'{a}/{b}'.   *)
(* Indices count from 1.  A key missing from _next_map is an empty list,   *)
(* which every operation treats alike, up to which exception it raises.    *)
(* After an exception nothing is looked at, and nothing more happens.      *)
(* Names are those of one node or edge; connect_node, and replacing a node *)
(* by an input, are left out.  A loop over a list is what it comes to where *)
(* that can be said at once, and a recursive function where it cannot.     *)
(***************************************************************************)
EXTENDS Naturals, FiniteSets, SequencesExt

CONSTANTS
    Initials,  \* graphs to start from, without their maps
    Fresh,     \* names of nodes to add, in the order they are taken
    Wirings,   \* the maps from inputs to outputs that remove is called with
    MaxEdits   \* bound: operations

NoNode == "none"

(* Names of nodes, of edges in the graphs to start from, and of edges that *)
(* an insertion adds.                                                      *)
Names == Range(Fresh) \cup UNION {Range(h.nodes) : h \in Initials}
Given == UNION {h.inputs \cup h.outputs \cup h.inits
                  \cup UNION {Range(h.ins[n]) \cup Range(h.outs[n]) : n \in Range(h.nodes)} :
                h \in Initials}
Added == Names \X Names

(* A graph lists its nodes, each under a name of its own and with the edges *)
(* it reads and writes.                                                    *)
ASSUME InitialsAssumption ==
    \A h \in Initials :
        /\ h.nodes \in Seq(Names) /\ IsInjective(h.nodes)
        /\ h.ins \in [Range(h.nodes) -> Seq(Given)]
        /\ h.outs \in [Range(h.nodes) -> Seq(Given)]

(* Names given by hand: none is that of no node, and no edge has from the  *)
(* start a name that an insertion gives, which the code does not look for. *)
ASSUME NamesAssumption ==
    /\ Fresh \in Seq(Range(Fresh))
    /\ NoNode \notin Names
    /\ Given \cap Added = {}

ASSUME EditsAssumption ==
    /\ \A w \in Wirings : \A i \in DOMAIN w : w[i] \in Nat \ {0}
    /\ MaxEdits \in Nat

VARIABLES
    g,       \* the graph: nodes, ins, outs, inputs, outputs, inits, prev, next
    raised,  \* an operation ended with an exception
    op,      \* the last operation
    edits    \* operations so far

vars == <<g, raised, op, edits>>

NodesOf(h) == Range(h.nodes)
Objects(h) == DOMAIN h.ins
Reads(h, n) == Range(h.ins[n])
Writes(h, n) == Range(h.outs[n])
Produced(h) == UNION {Writes(h, n) : n \in NodesOf(h)}
Sources(h) == h.inputs \cup h.inits

Edges(h) ==
    Sources(h) \cup h.outputs \cup DOMAIN h.prev
        \cup UNION {Reads(h, n) \cup Writes(h, n) : n \in NodesOf(h)}

At(f, e, default) == IF e \in DOMAIN f THEN f[e] ELSE default
With(f, e, v) == [x \in DOMAIN f \cup {e} |-> IF x = e THEN v ELSE f[x]]
Prev(h, e) == At(h.prev, e, NoNode)
Readers(h, e) == At(h.next, e, << >>)
SetPrev(h, e, n) == [h EXCEPT !.prev = With(@, e, n)]
SetReaders(h, e, s) == [h EXCEPT !.next = With(@, e, s)]
IndexIn(s, x) == SelectInSeq(s, LAMBDA y : y = x)

(* The elements of s that are in S, in their order.                        *)
Only(s, S) ==
    LET only[i \in 0..Len(s)] ==
            IF i = 0 THEN << >>
            ELSE IF s[i] \in S THEN Append(only[i - 1], s[i]) ELSE only[i - 1]
    IN  only[Len(s)]

Count(s, x) == Cardinality({i \in DOMAIN s : s[i] = x})

Consumed(h) == UNION {Reads(h, n) : n \in NodesOf(h)}
WritersOf(h, e) == {n \in NodesOf(h) : e \in Writes(h, n)}
ReadersIn(h, e) == {n \in NodesOf(h) : e \in Reads(h, n)}

(* update_map: an input or output that is an initializer as well goes, and *)
(* both maps follow the order of the nodes.                                *)
UpdateMap(h) ==
    [h EXCEPT
        !.inputs = @ \ h.inits,
        !.outputs = @ \ h.inits,
        !.prev = [e \in Produced(h) |-> Head(Only(h.nodes, WritersOf(h, e)))],
        !.next = [e \in Consumed(h) |-> Only(h.nodes, ReadersIn(h, e))]]

(* A bug: the edge is taken for the first input.                           *)
RerouteFirst(h, ms, old, new) ==
    [h EXCEPT !.ins = [m \in Objects(h) |->
        [i \in DOMAIN h.ins[m] |->
            IF i = 1 /\ m \in Range(ms) THEN new ELSE h.ins[m][i]]]]

(* The readers ms of an edge read another one: each time one is listed, at *)
(* the first place where it still reads the old.  get_input_id raises when *)
(* there is none.                                                          *)
Reroute(h, ms, old, new) ==
    [h EXCEPT !.ins = [m \in Objects(h) |->
        [i \in DOMAIN h.ins[m] |->
            IF h.ins[m][i] = old
                 /\ Cardinality({j \in 1..i : h.ins[m][j] = old}) <= Count(ms, m)
            THEN new ELSE h.ins[m][i]]]]

CanReroute(h, ms, old) == \A m \in Range(ms) : Count(ms, m) <= Count(h.ins[m], old)

-------------------------------------------------------------------------------
(* add_node without inputs and outputs, as before insert_node; the maps    *)
(* are updated before the node is there.                                   *)
AddNode(h, n) ==
    [UpdateMap(h) EXCEPT
        !.nodes = Append(@, n),
        !.ins = With(@, n, << >>),
        !.outs = With(@, n, << >>)]

(* What an operation leads to, or that it raises.                          *)
Done(h) == [graph |-> h, fails |-> FALSE]
Raise(h) == [graph |-> h, fails |-> TRUE]

(* insert_node after output k of r.  An insertion before a graph output    *)
(* takes the readers of the edge along.                                    *)
InsertAfter(h, r, k, n, isOutput) ==
    LET out == h.outs[r][k]
        new == <<r, n>>
        readers == IF isOutput THEN Readers(h, out) ELSE << >>
        wired == SetPrev(SetPrev([h EXCEPT !.outs[r][k] = new, !.ins[n] = <<new>>,
                                           !.outs[n] = <<out>>], new, r), out, n)
        moved == Reroute(wired, readers, out, new)
        noted == SetReaders(moved, new, <<n>> \o readers)
    IN  IF ~CanReroute(wired, readers, out) THEN Raise(wired)
        ELSE Done(IF readers = << >> THEN noted ELSE SetReaders(noted, out, << >>))

(* A bug: an insertion at a graph input moves its first reader only.       *)
InsertBeforeFirst(h, r, k, n, isInput) ==
    LET in == h.ins[r][k]
        new == <<n, r>>
        wired == SetPrev([h EXCEPT !.ins[r][k] = new, !.ins[n] = <<in>>,
                                   !.outs[n] = <<new>>], new, n)
    IN  Done(SetReaders(SetReaders(wired, new, <<r>>), in, <<n>>))

(* insert_node before input k of r.  An insertion at a graph input or an   *)
(* initializer takes its other readers along.                              *)
InsertBefore(h, r, k, n, isInput) ==
    LET in == h.ins[r][k]
        new == <<n, r>>
        wired == SetPrev([h EXCEPT !.ins[r][k] = new, !.ins[n] = <<in>>,
                                   !.outs[n] = <<new>>], new, n)
        readers == RemoveFirst(Append(Readers(h, in), n), r)
        others == Only(readers, Range(readers) \ {n})
        moved == Reroute(wired, others, in, new)
    IN  IF r \notin Range(Readers(h, in)) \/ (isInput /\ ~CanReroute(wired, others, in))
        THEN Raise(wired)
        ELSE IF isInput
        THEN Done(SetReaders(SetReaders(moved, new, <<r>> \o others), in, <<n>>))
        ELSE Done(SetReaders(SetReaders(wired, new, <<r>>), in, readers))

InsertAtInput(h, x, n) ==
    LET r == Readers(h, x)[1] IN
        IF Readers(h, x) = << >> \/ x \notin Reads(h, r)
        THEN Raise(h)
        ELSE InsertBefore(h, r, IndexIn(h.ins[r], x), n, TRUE)

InsertAtOutput(h, y, n) ==
    LET r == Prev(h, y) IN
        IF r = NoNode \/ y \notin Writes(h, r)
        THEN Raise(h)
        ELSE InsertAfter(h, r, IndexIn(h.outs[r], y), n, TRUE)

-------------------------------------------------------------------------------
(* remove                                                                  *)

(* The readers of an output of the removed node read its input e instead.  *)
PassOn(h, out, e) ==
    SetReaders([h EXCEPT !.ins = [m \in Objects(h) |->
                    IF m \in Range(Readers(h, out)) THEN ReplaceAll(h.ins[m], out, e) ELSE h.ins[m]]],
               e, Readers(h, e) \o Readers(h, out))

(* A bug: other readers of the edge are left.                              *)
WriteOutputAlone(h, n, out, e) ==
    LET p == Prev(h, e) IN
        [h EXCEPT !.outs = [@ EXCEPT ![p][IndexIn(h.outs[p], e)] = out,
                                     ![n] = RemoveFirst(@, out)]]

(* The node before writes the graph output itself.  The maps stay.         *)
WriteOutput(h, n, out, e) ==
    LET p == Prev(h, e)
        moved == Reroute(h, Readers(h, e), e, out)
        outs == [h.outs EXCEPT ![p][IndexIn(h.outs[p], e)] = out]
    IN  [moved EXCEPT !.outs = [outs EXCEPT ![n] = RemoveFirst(@, out)]]

(* Input i of the removed node n, wired or not.                            *)
Disconnect(n, wiring, h, i) ==
    LET e == h.ins[n][i]
        cut == SetReaders(h, e, RemoveFirst(Readers(h, e), n))
        out == h.outs[n][wiring[i]]
    IN  IF i \notin DOMAIN wiring THEN Done(cut)
        ELSE IF wiring[i] > Len(h.outs[n]) THEN Raise(cut)
        ELSE IF Readers(cut, out) # << >> THEN Done(PassOn(cut, out, e))
        ELSE IF out \notin h.outputs \/ Prev(cut, e) = NoNode THEN Done(cut)
        ELSE IF ~CanReroute(cut, Readers(cut, e), e) \/ e \notin Writes(cut, Prev(cut, e))
        THEN Raise(cut)
        ELSE Done(WriteOutput(cut, n, out, e))

ForgetOutputs(h, n) ==
    [h EXCEPT !.prev = [e \in DOMAIN @ \ Writes(h, n) |-> @[e]],
              !.next = [e \in DOMAIN @ \ Writes(h, n) |-> @[e]]]

RemoveNode(h, n, wiring) ==
    LET res[i \in 0..Len(h.ins[n])] ==
            IF i = 0 THEN Done([h EXCEPT !.nodes = RemoveFirst(@, n)])
            ELSE IF res[i - 1].fails THEN res[i - 1]
            ELSE Disconnect(n, wiring, res[i - 1].graph, i)
    IN  [res[Len(h.ins[n])] EXCEPT !.graph = ForgetOutputs(@, n)]

(* An input, output or initializer is removed, whoever uses it.            *)
RemovePort(h, x) ==
    LET out == x \in h.outputs /\ x \notin h.inputs IN
        [h EXCEPT !.inputs = @ \ {x},
                  !.outputs = IF out THEN @ \ {x} ELSE @,
                  !.inits = IF x \in h.inputs THEN @ ELSE @ \ {x},
                  !.prev = IF out THEN [e \in DOMAIN @ \ {x} |-> @[e]] ELSE @,
                  !.next = IF out THEN @ ELSE [e \in DOMAIN @ \ {x} |-> @[e]]]

(* n becomes a reader of what old reads, and old is one no longer.  An     *)
(* edge that old reads twice is treated twice.                             *)
TakeOver(h, old, n) ==
    LET next[i \in 0..Len(h.ins[old])] ==
            IF i = 0 THEN h.next
            ELSE LET e == h.ins[old][i] IN
                     With(next[i - 1], e,
                          RemoveFirst(Append(At(next[i - 1], e, << >>), n), old))
    IN  next[Len(h.ins[old])]

(* graph[old] = n, both operator nodes: n takes over the edges.            *)
Replace(h, old, n) ==
    IF \E e \in Reads(h, old) : Count(h.ins[old], e) > Count(Readers(h, e), old)
    THEN Raise(h)
    ELSE Done([h EXCEPT
                !.nodes = RemoveFirst(@, old),
                !.ins[n] = h.ins[old],
                !.outs[n] = h.outs[old],
                !.next = TakeOver(h, old, n),
                !.prev = [e \in DOMAIN @ \cup Writes(h, old) |->
                             IF e \in Writes(h, old) THEN n ELSE @[e]]])

-------------------------------------------------------------------------------
(* toposort                                                                *)

(* A bug: the nodes before a node may stand in the queue.                  *)
AnyPrevSorted(h, n, sorted) ==
    h.ins[n] = << >> \/ \E e \in Reads(h, n) : Prev(h, e) \in sorted \cup {NoNode}

PrevSorted(h, n, sorted) ==
    \A e \in Reads(h, n) : Prev(h, e) \in sorted \cup {NoNode}

ReadersOf(h, n) ==
    FlattenSeq([i \in DOMAIN h.outs[n] |-> Readers(h, h.outs[n][i])])

(* Those of s that are in S and not in the queue yet get in line.          *)
Enqueue(queue, s, S) ==
    LET line[i \in 0..Len(s)] ==
            IF i = 0 THEN queue
            ELSE IF s[i] \in S /\ s[i] \notin Range(line[i - 1])
            THEN Append(line[i - 1], s[i]) ELSE line[i - 1]
    IN  line[Len(s)]

(* The first in the queue is sorted in, and then may its readers be.       *)
Visit(h, w) ==
    LET n == Head(w.queue)
        sorted == Append(w.sorted, n)
    IN  [queue |-> Enqueue(Tail(w.queue), ReadersOf(h, n),
                           {m \in Objects(h) : /\ m \notin Range(sorted)
                                               /\ PrevSorted(h, m, Range(sorted))}),
         sorted |-> sorted]

(* As long as there is a queue.  A node is sorted in once, so that there   *)
(* is none after as many rounds as there are nodes.                        *)
Sorted(h, start) ==
    LET round[i \in 0..Len(h.nodes)] ==
            IF i = 0 THEN [queue |-> start, sorted |-> << >>]
            ELSE IF round[i - 1].queue = << >> THEN round[i - 1]
            ELSE Visit(h, round[i - 1])
    IN  round[Len(h.nodes)].sorted

Toposort(h) ==
    LET fresh == UpdateMap(h)
        start == Only(h.nodes, {n \in NodesOf(h) : PrevSorted(fresh, n, {})})
        sorted == Sorted(fresh, start)
    IN  IF Len(sorted) # Len(h.nodes) THEN Raise(fresh)
        ELSE Done([fresh EXCEPT !.nodes = sorted])

-------------------------------------------------------------------------------
(* remove_unused_nodes                                                     *)

(* A bug: a graph output does not count as a next node.                    *)
OutDegreeInside(h, n) == Cardinality(Range(ReadersOf(h, n)))

OutDegree(h, n) ==
    Cardinality(Range(ReadersOf(h, n))) + Cardinality(Writes(h, n) \cap h.outputs)

(* Nodes without a next node go, and then those whose count their inputs   *)
(* bring to zero, one for each place they are read at.                     *)
Leave(h, w, e) ==
    LET p == Prev(h, e) IN
        IF p = NoNode \/ p \in w.removed \cup Range(w.queue) THEN w
        ELSE [w EXCEPT !.degree[p] = @ - 1,
                       !.queue = IF w.degree[p] = 1 THEN Append(@, p) ELSE @]

Discard(h, w) ==
    LET n == Head(w.queue)
        left[i \in 0..Len(h.ins[n])] ==
            IF i = 0 THEN [w EXCEPT !.queue = Tail(@), !.removed = @ \cup {n}]
            ELSE Leave(h, left[i - 1], h.ins[n][i])
    IN  left[Len(h.ins[n])]

(* A node is discarded once, so that there is no queue after as many       *)
(* rounds as there are nodes.                                              *)
Discarded(h, degree) ==
    LET round[i \in 0..Len(h.nodes)] ==
            IF i = 0
            THEN [degree |-> degree, removed |-> {},
                  queue |-> Only(h.nodes, {n \in NodesOf(h) : degree[n] = 0})]
            ELSE IF round[i - 1].queue = << >> THEN round[i - 1]
            ELSE Discard(h, round[i - 1])
    IN  round[Len(h.nodes)].removed

RemoveUnused(h) ==
    LET fresh == UpdateMap(h)
        degree == [n \in NodesOf(h) |-> OutDegree(fresh, n)]
        kept == [fresh EXCEPT !.nodes = Only(@, NodesOf(h) \ Discarded(fresh, degree))]
    IN  UpdateMap([kept EXCEPT !.inputs = @ \cap Consumed(kept), !.inits = @ \cap Consumed(kept)])

-------------------------------------------------------------------------------
(* A graph as it is handed over, before its maps are built.                *)
Unmapped(h) ==
    [nodes |-> h.nodes, ins |-> h.ins, outs |-> h.outs, inputs |-> h.inputs,
     outputs |-> h.outputs, inits |-> h.inits, prev |-> << >>, next |-> << >>]

Init ==
    /\ g \in {UpdateMap(Unmapped(h)) : h \in Initials}
    /\ raised = FALSE
    /\ op = <<"init">>
    /\ edits = 0

(* An operation, unless one raised, and its result.                        *)
Edit(name, res) ==
    /\ ~raised /\ edits < MaxEdits
    /\ g' = res.graph
    /\ raised' = res.fails
    /\ op' = name
    /\ edits' = edits + 1

(* A node that has been added and not been connected.                      *)
Bare(n) == g.ins[n] = << >> /\ g.outs[n] = << >>

Add ==
    \E i \in DOMAIN Fresh :
        /\ Fresh[i] \notin Objects(g)
        /\ \A j \in 1..i - 1 : Fresh[j] \in Objects(g)
        /\ Edit(<<"add", Fresh[i]>>, Done(AddNode(g, Fresh[i])))

Insert ==
    \E n \in NodesOf(g) :
        /\ Bare(n)
        /\ \/ \E r \in NodesOf(g) :
                 \/ \E k \in DOMAIN g.outs[r] :
                      Edit(<<"insert", n>>, InsertAfter(g, r, k, n, FALSE))
                 \/ \E k \in DOMAIN g.ins[r] :
                      Edit(<<"insert", n>>, InsertBefore(g, r, k, n, FALSE))
           \/ \E x \in Sources(g) : Edit(<<"insertAt", n, x>>, InsertAtInput(g, x, n))
           \/ \E y \in g.outputs : Edit(<<"insert", n>>, InsertAtOutput(g, y, n))

RemoveAny ==
    \/ \E n \in NodesOf(g), wiring \in Wirings :
         Edit(<<"remove", n, wiring>>, RemoveNode(g, n, wiring))
    \/ \E x \in Sources(g) \cup g.outputs : Edit(<<"drop", x>>, Done(RemovePort(g, x)))

SetItem ==
    \E old, n \in NodesOf(g) :
        old # n /\ Bare(n) /\ Edit(<<"replace", old, n>>, Replace(g, old, n))

Sort == Edit(<<"toposort">>, Toposort(g))

Clean == Edit(<<"unused">>, Done(RemoveUnused(g)))

Update == Edit(<<"update">>, Done(UpdateMap(g)))

Next == Add \/ Insert \/ RemoveAny \/ SetItem \/ Sort \/ Clean \/ Update

Spec == Init /\ [][Next]_vars

-------------------------------------------------------------------------------
TypeOK ==
    /\ IsInjective(g.nodes)
    /\ NodesOf(g) \subseteq Objects(g)
    /\ DOMAIN g.outs = Objects(g)
    /\ \A e \in DOMAIN g.prev : g.prev[e] \in Objects(g)
    /\ \A e \in DOMAIN g.next : Range(g.next[e]) \subseteq Objects(g)
    /\ raised \in BOOLEAN
    /\ edits \in 0..MaxEdits

(* Nodes, and the edges that enter and leave the graph.                    *)
Vertices(h) ==
    ({"node"} \X NodesOf(h)) \cup ({"source"} \X Sources(h)) \cup ({"output"} \X h.outputs)

Gives(h, v) ==
    CASE v[1] = "node" -> Writes(h, v[2]) [] v[1] = "source" -> {v[2]} [] OTHER -> {}

Takes(h, v) ==
    CASE v[1] = "node" -> Reads(h, v[2]) [] v[1] = "output" -> {v[2]} [] OTHER -> {}

(* The edges that these are computed from, over any number of nodes.       *)
Upstream(h, es) ==
    LET more(s) == s \cup UNION {Reads(h, n) : n \in {m \in NodesOf(h) : Writes(h, m) \cap s # {}}}
        up[s \in SUBSET Edges(h)] == IF more(s) = s THEN s ELSE up[more(s)]
    IN  up[es]

(* v depends on u.                                                         *)
Feeds(h, u, v) == Gives(h, u) \cap Upstream(h, Takes(h, v)) # {}

Dag(h) == \A v \in Vertices(h) : ~Feeds(h, v, v)

(* Every edge that is read or leaves has one origin.                       *)
WellFormed(h) ==
    /\ \A n \in NodesOf(h) : IsInjective(h.outs[n]) /\ Writes(h, n) \cap Sources(h) = {}
    /\ \A a, b \in NodesOf(h) : a # b => Writes(h, a) \cap Writes(h, b) = {}
    /\ \A n \in NodesOf(h) : Reads(h, n) \subseteq Sources(h) \cup Produced(h)
    /\ h.outputs \subseteq Produced(h)

(* The maps say what the nodes say.                                        *)
MapsMatch(h) ==
    LET fresh == UpdateMap(h) IN
        \A e \in Edges(h) :
            /\ Prev(h, e) = Prev(fresh, e)
            /\ IsInjective(Readers(h, e))
            /\ Range(Readers(h, e)) = Range(Readers(fresh, e))

(* No node reads an edge twice, and no output of the graph is read inside. *)
Plain(h) ==
    \A n \in NodesOf(h) : IsInjective(h.ins[n]) /\ Reads(h, n) \cap h.outputs = {}

Sound(h) == WellFormed(h) /\ Dag(h) /\ MapsMatch(h)

(* remove by default, which wires the first input to the first output, of  *)
(* a node with one of each, that does not lie between an input and an      *)
(* output of the graph.                                                    *)
Bypass(n) ==
    /\ op' = <<"remove", n, <<1>> >>
    /\ Len(g.ins[n]) = 1 /\ Len(g.outs[n]) = 1
    /\ Writes(g, n) \cap g.outputs # {} => Reads(g, n) \cap Sources(g) = {}

(* An insertion, at an input or initializer only if it is read.            *)
Insertion ==
    \/ op'[1] = "insert"
    \/ op'[1] = "insertAt" /\ \E n \in NodesOf(g) : op'[3] \in Reads(g, n)

(* Inserting, replacing and bypassing a node of a graph that is well       *)
(* formed, whose maps are right, do not raise and leave a graph that is    *)
(* well formed and without a cycle: no reader of an edge is forgotten and  *)
(* none reads an edge that is gone, whichever edits came before.           *)
EditsKeepGraph ==
    [][ /\ Insertion \/ op'[1] = "replace" \/ \E n \in NodesOf(g) : Bypass(n)
        /\ Plain(g) /\ Sound(g)
        => ~raised' /\ WellFormed(g') /\ Dag(g') ]_vars

(* Such edits keep the maps right, without update_map: the next edit finds *)
(* the readers and the writers there are.  Removing the node before an     *)
(* output does not; nor do the maps count a node that comes to read an     *)
(* edge twice.                                                             *)
MapsFollow ==
    [][ /\ \/ Insertion \/ op'[1] = "replace"
           \/ \E n \in NodesOf(g) : Bypass(n) /\ Writes(g, n) \cap g.outputs = {}
        /\ Plain(g) /\ Sound(g) /\ Plain(g')
        => MapsMatch(g') ]_vars

(* What depends on what, nodes, inputs and outputs of the graph, is the    *)
(* same after an insertion or a bypass: the new node is in the way of all  *)
(* data it was asked to be in the way of, and no path is cut.              *)
DependsKept ==
    [][ /\ Insertion \/ \E n \in NodesOf(g) : Bypass(n)
        /\ Plain(g) /\ Sound(g)
        => \A v, w \in Vertices(g) \ {<<"node", op'[2]>>} :
             Feeds(g, v, w) = Feeds(g', v, w) ]_vars

(* toposort finds an order in which no node comes before one it depends    *)
(* on, or raises when there is a cycle, whatever the order of the nodes    *)
(* was and whatever the maps were before.                                  *)
SortsDag ==
    [][ op'[1] = "toposort" /\ WellFormed(g) =>
          /\ raised' = ~Dag(g)
          /\ ~raised' =>
               /\ NodesOf(g') = NodesOf(g)
               /\ \A i, j \in DOMAIN g'.nodes :
                    Feeds(g, <<"node", g'.nodes[i]>>, <<"node", g'.nodes[j]>>) => i < j ]_vars

(* Nodes that some output depends on.                                      *)
Needed(h) ==
    {n \in NodesOf(h) : \E y \in h.outputs : Feeds(h, <<"node", n>>, <<"output", y>>)}

(* No node reads two of a node's edges, or one of them twice.              *)
OneEdgeEach(h) ==
    \A a, b \in NodesOf(h) :
        Cardinality({i \in DOMAIN h.ins[b] : h.ins[b][i] \in Writes(h, a)}) <= 1

(* remove_unused_nodes leaves exactly the nodes some output depends on,    *)
(* whatever the order in which counts reach zero, if no node reads two     *)
(* edges of one node or an edge twice.                                     *)
UnusedRemoved ==
    [][ op'[1] = "unused" /\ WellFormed(g) /\ OneEdgeEach(g) /\ Dag(g)
        => NodesOf(g') = Needed(g) /\ WellFormed(g') ]_vars
===============================================================================
