---------------------- MODULE ConcurrentPriorityQueue ----------------------
(***************************************************************************)
(* ll::data::concurrent_priority_queue.  A thread puts its operation into  *)
(* a list; the thread that found the list empty waits for the aggregator   *)
(* to be free, takes the list and carries out all of its operations, in    *)
(* two passes over a heap that is followed by elements not yet sorted in.  *)
(* An element is its priority.  A thread has one operation at a time, which *)
(* lives on its stack, so a thread stands for its operation.               *)
(***************************************************************************)
EXTENDS Integers, SequencesExt

CONSTANTS
    Threads,
    Nil,        \* no operation: the end of a list
    Elements,   \* priorities
    Tests,      \* what a try_pop_if may accept: sets of elements
    MaxSize     \* bound: no push when the queue holds this many

ASSUME QueueAssumption == Elements \subseteq Int /\ Nil \notin Threads /\ MaxSize \in Nat

VARIABLES
    c,          \* the vector: heap, then unsorted elements
    mark,       \* the length of the heap
    pending,    \* aggregator_generic::pending_operations
    busy,       \* aggregator_generic::handler_busy
    pc,         \* where each thread is
    op,         \* cpq_operation: its kind, and its element or test
    next,       \* aggregated_operation::next
    status,     \* aggregated_operation::status
    list,       \* handle_operations: op_list
    pops,       \* handle_operations: pop_list
    start,      \* history: the queue when the batch was taken
    done        \* history: the operations of the batch and their answers

queueVars == <<c, mark>>
history == <<start, done>>
cpqVars == <<queueVars, pending, busy, pc, op, next, status, list, pops, history>>

Operations ==
    [kind : {"push"}, arg : Elements] \cup [kind : {"badpush", "pop"}, arg : {Elements}]
        \cup [kind : {"pop_if"}, arg : Tests]
NoOperation == [kind |-> "none", arg |-> {}]

QueueInit ==
    /\ c = <<>> /\ mark = 0
    /\ pending = Nil /\ busy = FALSE
    /\ pc = [t \in Threads |-> "idle"]
    /\ op = [t \in Threads |-> NoOperation]
    /\ next = [t \in Threads |-> Nil]
    /\ status = [t \in Threads |-> "wait"]
    /\ list = [t \in Threads |-> Nil]
    /\ pops = [t \in Threads |-> Nil]
    /\ start = <<>> /\ done = <<>>

-----------------------------------------------------------------------------
\* The aggregator.  The compare-and-exchange loop is one step: a round that
\* fails changes nothing.
AggregatorExecute(t, o) ==
    /\ pc[t] = "idle"
    /\ o.kind \in {"push", "badpush"} => Len(c) < MaxSize
    /\ op' = [op EXCEPT ![t] = o]
    /\ status' = [status EXCEPT ![t] = "wait"]
    /\ next' = [next EXCEPT ![t] = pending]
    /\ pending' = t
    /\ pc' = [pc EXCEPT ![t] = IF pending = Nil THEN "first" ELSE "waiting"]
    /\ UNCHANGED <<queueVars, busy, list, pops, history>>

\* The call returns, and the operation with it.
ReturnFrom(t) ==
    /\ pc' = [pc EXCEPT ![t] = "idle"]
    /\ op' = [op EXCEPT ![t] = NoOperation]
    /\ next' = [next EXCEPT ![t] = Nil]
    /\ status' = [status EXCEPT ![t] = "wait"]

\* Not first: spin until the operation has been answered.
Answered(t) ==
    /\ pc[t] = "waiting" /\ status[t] # "wait"
    /\ ReturnFrom(t)
    /\ UNCHANGED <<queueVars, pending, busy, list, pops, history>>

\* First: spin until the aggregator is free, then claim it in another step;
\* (Mutant: it does not wait.)
BugSeeFree(t) ==
    /\ pc[t] = "first"
    /\ pc' = [pc EXCEPT ![t] = "free"]
    /\ UNCHANGED <<queueVars, pending, busy, op, next, status, list, pops, history>>
SeeFree(t) ==
    /\ pc[t] = "first" /\ ~ busy
    /\ pc' = [pc EXCEPT ![t] = "free"]
    /\ UNCHANGED <<queueVars, pending, busy, op, next, status, list, pops, history>>

Claim(t) ==
    /\ pc[t] = "free"
    /\ busy' = TRUE
    /\ pc' = [pc EXCEPT ![t] = "claimed"]
    /\ UNCHANGED <<queueVars, pending, op, next, status, list, pops, history>>

\* take all operations there are,
Grab(t) ==
    /\ pc[t] = "claimed"
    /\ list' = [list EXCEPT ![t] = pending]
    /\ pending' = Nil
    /\ pc' = [pc EXCEPT ![t] = "pass1"]
    /\ start' = c /\ done' = <<>>
    /\ UNCHANGED <<queueVars, busy, op, next, status, pops>>

\* carry them out, and release the aggregator.
ReleaseAggregator(t) ==
    /\ pc[t] = "handled"
    /\ busy' = FALSE
    /\ ReturnFrom(t)
    /\ start' = <<>> /\ done' = <<>>
    /\ UNCHANGED <<queueVars, pending, list, pops>>

-----------------------------------------------------------------------------
\* The heap.  The positions from p up to the root: the least set that holds p,
\* and with each its half.
Path(p) ==
    {q \in 1 .. p : \A T \in SUBSET (1 .. p) :
        p \in T /\ (\A r \in T : r > 1 => r \div 2 \in T) => q \in T}

\* An element on its way up passes those it is above.
Up(s, p) ==
    LET path == Path(p)
        land == CHOOSE q \in path : /\ \A r \in path : q <= r /\ r < p => s[r] < s[p]
                                    /\ q > 1 => s[q \div 2] >= s[p]
    IN  [q \in DOMAIN s |->
            IF q = land THEN s[p] ELSE IF q \in path /\ q > land THEN s[q \div 2] ELSE s[q]]

\* heapify sorts in what follows the heap,
Heapified ==
    LET sorted[n \in mark .. Len(c)] == IF n = mark THEN c ELSE Up(sorted[n - 1], n)
    IN  sorted[Len(c)]

\* reheap takes the root away, and the last element goes down from there.
\* (Mutant: it descends to the left.)
BugLarger(p) == 2 * p
Larger(p) == IF 2 * p + 1 <= mark /\ c[2 * p] < c[2 * p + 1] THEN 2 * p + 1 ELSE 2 * p
Reheap ==
    LET passes(q) == \A r \in Path(q) \ {1} : r <= mark /\ r = Larger(r \div 2) /\ c[r] >= c[Len(c)]
        land == CHOOSE q \in 1 .. Len(c) : passes(q) /\ (2 * q > mark \/ c[Larger(q)] < c[Len(c)])
        below(p) == CHOOSE q \in Path(land) : q \div 2 = p
    IN  /\ c' = [p \in 1 .. Len(c) - 1 |->
                    IF p = land THEN c[Len(c)] ELSE IF p \in Path(land) THEN c[below(p)] ELSE c[p]]
        /\ mark' = IF mark > Len(c) - 1 THEN Len(c) - 1 ELSE mark

-----------------------------------------------------------------------------
\* The newest element is above the root of the heap.
NewestIsTop == mark < Len(c) /\ c[1] < c[Len(c)]

\* The status of o is set: from now on its thread may go on.
Answer(o, s, e) ==
    /\ status' = [status EXCEPT ![o] = s]
    /\ done' = [d \in DOMAIN done \cup {o} |->
                   IF d = o THEN [op |-> op[o], ok |-> s = "succeeded", got |-> e] ELSE done[d]]

\* What a pop answers that looks at element e.
Accepts(o, e) == e \in op[o].arg

PopNewest(o) ==
    \/ /\ Accepts(o, Last(c))
       /\ Answer(o, "succeeded", Last(c))
       /\ c' = Front(c) /\ mark' = mark
    \/ /\ ~ Accepts(o, Last(c))
       /\ Answer(o, "failed", Last(c))
       /\ UNCHANGED queueVars

PopRoot(o) ==
    \/ /\ Accepts(o, c[1])
       /\ Answer(o, "succeeded", c[1])
       /\ Reheap
    \/ /\ ~ Accepts(o, c[1])
       /\ Answer(o, "failed", c[1])
       /\ UNCHANGED queueVars

\* The first pass of the handler t: one operation of its list.  An element
\* that cannot be copied or stored is answered, too.
\* (Mutant: it is not.)
BugPushDone(o) ==
    /\ op[o].kind = "push"
    /\ c' = Append(c, op[o].arg) /\ mark' = mark
    /\ Answer(o, "succeeded", op[o].arg)
BugPushFails(o) ==
    \/ BugPushDone(o)
    \/ op[o].kind = "badpush" /\ UNCHANGED <<queueVars, status, done>>
Push(o) ==
    \/ /\ op[o].kind = "push"
       /\ c' = Append(c, op[o].arg) /\ mark' = mark
       /\ Answer(o, "succeeded", op[o].arg)
    \/ /\ op[o].kind = "badpush"
       /\ Answer(o, "failed", Nil)
       /\ UNCHANGED queueVars

IsPop(o) == op[o].kind \in {"pop", "pop_if"}

FirstPass(t) ==
    /\ pc[t] = "pass1" /\ list[t] # Nil
    /\ list' = [list EXCEPT ![t] = next[list[t]]]
    /\ \/ /\ ~ IsPop(list[t])
          /\ Push(list[t])
          /\ UNCHANGED <<pops, next>>
       \/ /\ IsPop(list[t]) /\ NewestIsTop
          /\ PopNewest(list[t])
          /\ UNCHANGED <<pops, next>>
       \/ /\ IsPop(list[t]) /\ ~ NewestIsTop
          /\ next' = [next EXCEPT ![list[t]] = pops[t]]
          /\ pops' = [pops EXCEPT ![t] = list[t]]
          /\ UNCHANGED <<queueVars, status, done>>
    /\ UNCHANGED <<pending, busy, pc, op, start>>

\* The second pass: the operations the first has put off.
SecondPass(t) ==
    /\ pc[t] = "pass1" /\ list[t] = Nil /\ pops[t] # Nil
    /\ pops' = [pops EXCEPT ![t] = next[pops[t]]]
    /\ \/ c = <<>> /\ Answer(pops[t], "failed", Nil) /\ UNCHANGED queueVars
       \/ c # <<>> /\ NewestIsTop /\ PopNewest(pops[t])
       \/ c # <<>> /\ ~ NewestIsTop /\ PopRoot(pops[t])
    /\ UNCHANGED <<pending, busy, pc, op, next, list, start>>

Heapify(t) ==
    /\ pc[t] = "pass1" /\ list[t] = Nil /\ pops[t] = Nil
    /\ c' = Heapified /\ mark' = Len(c)
    /\ pc' = [pc EXCEPT ![t] = "handled"]
    /\ UNCHANGED <<pending, busy, op, next, status, list, pops, history>>

-----------------------------------------------------------------------------
Step(t) ==
    \/ Answered(t) \/ SeeFree(t) \/ Claim(t) \/ Grab(t) \/ ReleaseAggregator(t)
    \/ FirstPass(t) \/ SecondPass(t) \/ Heapify(t)

QueueNext == \E t \in Threads : Step(t) \/ \E o \in Operations : AggregatorExecute(t, o)

QueueSpec == QueueInit /\ [][QueueNext]_cpqVars

\* Threads run on; nobody has to call.
QueueFairSpec == QueueSpec /\ \A t \in Threads : WF_cpqVars(Step(t))

-----------------------------------------------------------------------------
\* A priority queue that is used by one caller: what it holds, as a bag, after
\* operation r, or Impossible if it would not have answered as r was.
Impossible == [e \in Elements |-> -1]
Held(b) == {e \in Elements : b[e] > 0}
Top(b) == CHOOSE e \in Held(b) : \A f \in Held(b) : f <= e
Sequential(b, r) ==
    CASE b = Impossible -> b
      [] r.op.kind = "push" /\ r.ok -> [b EXCEPT ![r.op.arg] = @ + 1]
      [] r.op.kind = "badpush" /\ ~ r.ok -> b
      [] r.op.kind \in {"pop", "pop_if"} /\ r.ok /\ Held(b) # {} /\ r.got = Top(b)
            /\ r.got \in r.op.arg -> [b EXCEPT ![r.got] = @ - 1]
      [] r.op.kind \in {"pop", "pop_if"} /\ ~ r.ok /\ (Held(b) # {} => Top(b) \notin r.op.arg) -> b
      [] OTHER -> Impossible

Contents(s) == [e \in Elements |-> Cardinality({i \in DOMAIN s : s[i] = e})]

\* Every batch acts as its operations would one after the other, in some
\* order: none overtakes another batch, none answers what no order explains.
BatchesLinearize ==
    \A t \in Threads : pc[t] = "handled" =>
        \E order \in SetToAllKPermutations(DOMAIN done) :
            LET held[n \in 0 .. Len(order)] ==
                    IF n = 0 THEN Contents(start) ELSE Sequential(held[n - 1], done[order[n]])
            IN  Len(order) = Cardinality(DOMAIN done) /\ held[Len(order)] = Contents(c)

\* One thread at a time works on the queue, and the handler follows the list
\* only through operations whose threads still wait: an operation lives on the
\* stack of its thread, which may return once its status is set.
HandlerAlone ==
    /\ \A t, u \in Threads : {pc[t], pc[u]} \subseteq {"claimed", "pass1", "handled"} => t = u
    /\ \A t \in Threads : pc[t] = "pass1" =>
           \A o \in {list[t], pops[t]} \ {Nil} : pc[o] # "idle" /\ status[o] = "wait"

\* Every call returns, however others come in.
EveryCallReturns == \A t \in Threads : pc[t] # "idle" ~> pc[t] = "idle"
=============================================================================
