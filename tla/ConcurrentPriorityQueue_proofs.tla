------------------- MODULE ConcurrentPriorityQueue_proofs -------------------
(***************************************************************************)
(* Proofs about ConcurrentPriorityQueue, for any number of threads.  An    *)
(* operation lives on the stack of its thread, and is in one list at a     *)
(* time: the aggregator's, or one of the handler's two.  What the handler  *)
(* has answered so far is what some order of the operations explains.      *)
(***************************************************************************)
EXTENDS ConcurrentPriorityQueue, Selections_proofs

QueueTypeOK ==
    /\ pending \in Threads \cup {Nil} /\ busy \in BOOLEAN
    /\ pc \in [Threads -> {"idle", "waiting", "first", "free", "claimed", "pass1", "handled"}]
    /\ next \in [Threads -> Threads \cup {Nil}]
    /\ status \in [Threads -> {"wait", "succeeded", "failed"}]
    /\ list \in [Threads -> Threads \cup {Nil}] /\ pops \in [Threads -> Threads \cup {Nil}]

\* The thread that found the aggregator's list empty, until it takes the list;
Collecting(t) == pc[t] \in {"first", "free", "claimed"}
OneCollects ==
    /\ \A t, u \in Threads : Collecting(t) /\ Collecting(u) => t = u
    /\ pending # Nil <=> \E t \in Threads : Collecting(t)

\* and the thread that has claimed the aggregator, until it releases it.
Handling(t) == pc[t] \in {"claimed", "pass1", "handled"}
OneHandles ==
    /\ \A t, u \in Threads : Handling(t) /\ Handling(u) => t = u
    /\ busy <=> \E t \in Threads : Handling(t)
    /\ \A t \in Threads : pc[t] = "free" => ~ busy

\* h is the head of a list within S, if nx has the next of each: nothing leads
\* to the head, and no two to the same.
IsList(nx, h, S) ==
    /\ h \in S \cup {Nil}
    /\ \A n \in S : nx[n] \in S \cup {Nil} /\ nx[n] # h
    /\ \A n, m \in S : nx[n] = nx[m] => n = m

\* Operations that wait in the aggregator's list, and those the handler took.
Queued == {n \in Threads : status[n] = "wait" /\ pc[n] \in {"waiting", "first", "free", "claimed"}}
Taken == {n \in Threads : status[n] = "wait" /\ pc[n] \in {"waiting", "pass1"}}

\* The handler has answered none of them, and has put off pops only.
ListsOf(t, P) ==
    \E L, Q \in SUBSET Taken :
        /\ L \cap Q = {} /\ L \cap P = {} /\ Q \cap P = {}
        /\ IsList(next, list[t], L) /\ IsList(next, pops[t], Q)
        /\ (L \cup Q) \cap DOMAIN done = {} /\ \A n \in Q : IsPop(n)
Apart(P) ==
    /\ P \subseteq Queued /\ IsList(next, pending, P)
    /\ \A t \in Threads : pc[t] = "pass1" => ListsOf(t, P)
ListsApart == \E P \in SUBSET Threads : Apart(P)

NoPopsLeft == \A t \in Threads : pc[t] # "pass1" => pops[t] = Nil

QueueInv == QueueTypeOK /\ OneCollects /\ OneHandles /\ NoPopsLeft /\ ListsApart

-----------------------------------------------------------------------------
\* An operation is put before a list, or its head is taken off.
LEMMA PutBefore ==
  ASSUME NEW nx \in [Threads -> Threads \cup {Nil}], NEW S \in SUBSET Threads, NEW h,
         IsList(nx, h, S), NEW n \in Threads, n \notin S
  PROVE  IsList([nx EXCEPT ![n] = h], n, S \cup {n})
BY QueueAssumption DEF IsList

LEMMA HeadTaken ==
  ASSUME NEW nx \in [Threads -> Threads \cup {Nil}], NEW S \in SUBSET Threads, NEW h,
         IsList(nx, h, S), h # Nil
  PROVE  h \in S /\ IsList(nx, nx[h], S \ {h})
BY DEF IsList

LEMMA OtherList ==
  ASSUME NEW nx \in [Threads -> Threads \cup {Nil}], NEW S \in SUBSET Threads, NEW h,
         IsList(nx, h, S), NEW n \in Threads, n \notin S, NEW x
  PROVE  IsList([nx EXCEPT ![n] = x], h, S)
BY DEF IsList

LEMMA QueueInitial == QueueInit => QueueInv
<1>. SUFFICES ASSUME QueueInit PROVE QueueInv
  OBVIOUS
<1>1. QueueTypeOK /\ OneCollects /\ OneHandles /\ NoPopsLeft
  BY QueueAssumption DEF QueueInit, QueueTypeOK, OneCollects, OneHandles, NoPopsLeft, Collecting, Handling
<1>2. Apart({})
  BY DEF QueueInit, Apart, IsList
<1>. QED BY <1>1, <1>2 DEF QueueInv, ListsApart

\* Steps that leave the lists alone, and every operation in one.
LEMMA SameLists ==
  ASSUME NEW P, Apart(P), pending' = pending, UNCHANGED list, UNCHANGED pops,
         \A n \in Queued : n \in Queued', \A n \in Taken : n \in Taken',
         \A S \in SUBSET Threads : \A h : IsList(next, h, S) /\ S \subseteq Queued \cup Taken => IsList(next', h, S),
         \A n \in Taken : op'[n] = op[n], DOMAIN done' \subseteq DOMAIN done,
         \A t \in Threads : pc'[t] = "pass1" => pc[t] = "pass1"
  PROVE  Apart(P)'
<1>1. P \subseteq Queued' /\ IsList(next', pending', P)
  BY DEF Apart, Queued
<1>2. ASSUME NEW t \in Threads, pc'[t] = "pass1" PROVE ListsOf(t, P)'
  <2>1. PICK L, Q \in SUBSET Taken :
            /\ L \cap Q = {} /\ L \cap P = {} /\ Q \cap P = {}
            /\ IsList(next, list[t], L) /\ IsList(next, pops[t], Q)
            /\ (L \cup Q) \cap DOMAIN done = {} /\ \A n \in Q : IsPop(n)
    BY <1>2 DEF Apart, ListsOf
  <2>2. L \in SUBSET Taken' /\ Q \in SUBSET Taken'
    BY <2>1
  <2>4. (L \cup Q) \cap DOMAIN done' = {} /\ \A n \in Q : IsPop(n)'
    BY <2>1 DEF IsPop
  <2>3. IsList(next', list'[t], L) /\ IsList(next', pops'[t], Q)
    BY <2>1 DEF Taken
  <2>. QED BY <2>1, <2>2, <2>3, <2>4 DEF ListsOf
<1>. QED BY <1>1, <1>2 DEF Apart

\* A thread moves on that is not in a list, or whose operation stays where it is.
LEMMA MoveStep ==
  ASSUME QueueInv, NEW t \in Threads, Answered(t) \/ SeeFree(t) \/ Claim(t) \/ ReleaseAggregator(t) \/ Heapify(t)
  PROVE  QueueInv'
<1>. USE QueueAssumption
<1>1. QueueTypeOK /\ OneCollects /\ OneHandles /\ NoPopsLeft
  BY DEF QueueInv
<1>2. PICK P : Apart(P)
  BY DEF QueueInv, ListsApart
<1>3. CASE Answered(t) \/ ReleaseAggregator(t)
  <2>1. /\ ReturnFrom(t) /\ UNCHANGED <<pending, list, pops>>
        /\ pc[t] \in {"waiting", "handled"} /\ (pc[t] = "handled" \/ status[t] # "wait")
        /\ busy' = IF pc[t] = "handled" THEN FALSE ELSE busy
        /\ DOMAIN done' \subseteq DOMAIN done
    <3>1. DOMAIN <<>> = {}
      OBVIOUS
    <3>2. CASE Answered(t)
      BY <3>2 DEF Answered, history
    <3>3. CASE ReleaseAggregator(t)
      <4>1. done' = <<>>
        BY <3>3 DEF ReleaseAggregator
      <4>. QED BY <3>1, <3>3, <4>1 DEF ReleaseAggregator
    <3>. QED BY <1>3, <3>2, <3>3
  <2>2. /\ pc' = [pc EXCEPT ![t] = "idle"] /\ next' = [next EXCEPT ![t] = Nil]
        /\ status' = [status EXCEPT ![t] = "wait"] /\ op' = [op EXCEPT ![t] = NoOperation]
    BY <2>1 DEF ReturnFrom
  <2>3. QueueTypeOK' /\ NoPopsLeft'
    BY <1>1, <2>1, <2>2 DEF QueueTypeOK, NoPopsLeft
  <2>4. OneCollects' /\ OneHandles'
    BY <1>1, <2>1, <2>2 DEF QueueTypeOK, OneCollects, OneHandles, Collecting, Handling
  <2>5. t \notin Queued /\ t \notin Taken
    BY <2>1 DEF Queued, Taken
  <2>6. (\A n \in Queued : n \in Queued') /\ (\A n \in Taken : n \in Taken')
    BY <1>1, <2>2, <2>5 DEF QueueTypeOK, Queued, Taken
  <2>7. \A S \in SUBSET Threads : \A h : IsList(next, h, S) /\ S \subseteq Queued \cup Taken => IsList(next', h, S)
    BY <1>1, <2>2, <2>5, OtherList DEF QueueTypeOK
  <2>8. \A u \in Threads : pc'[u] = "pass1" => pc[u] = "pass1"
    BY <1>1, <2>2 DEF QueueTypeOK
  <2>9. \A n \in Taken : op'[n] = op[n]
    BY <2>2, <2>5
  <2>10. Apart(P)'
    BY <1>2, <2>1, <2>6, <2>7, <2>8, <2>9, SameLists
  <2>. QED BY <2>3, <2>4, <2>10 DEF QueueInv, ListsApart, Apart, Queued
<1>4. CASE SeeFree(t) \/ Claim(t) \/ Heapify(t)
  <2>1. /\ UNCHANGED <<pending, list, pops, next, status, op, done>>
        /\ \/ pc[t] = "first" /\ ~ busy /\ pc' = [pc EXCEPT ![t] = "free"] /\ busy' = busy
           \/ pc[t] = "free" /\ pc' = [pc EXCEPT ![t] = "claimed"] /\ busy' = TRUE
           \/ pc[t] = "pass1" /\ pc' = [pc EXCEPT ![t] = "handled"] /\ busy' = busy /\ pops[t] = Nil
    BY <1>4 DEF SeeFree, Claim, Heapify, history
  <2>2. QueueTypeOK' /\ NoPopsLeft'
    BY <1>1, <2>1 DEF QueueTypeOK, NoPopsLeft
  <2>3. OneCollects'
    BY <1>1, <2>1 DEF QueueTypeOK, OneCollects, Collecting
  <2>4. OneHandles'
    BY <1>1, <2>1 DEF QueueTypeOK, OneHandles, OneCollects, Collecting, Handling
  <2>5. \A u \in Threads : pc'[u] = "pass1" => pc[u] = "pass1"
    BY <1>1, <2>1 DEF QueueTypeOK
  <2>6. \A n \in Queued : n \in Queued'
    BY <1>1, <2>1 DEF QueueTypeOK, Queued
  <2>7. CASE pc[t] # "pass1"
    <3>1. \A n \in Taken : n \in Taken'
      BY <1>1, <2>1, <2>7 DEF QueueTypeOK, Taken
    <3>2. Apart(P)'
      BY <1>2, <2>1, <2>5, <2>6, <3>1, SameLists
    <3>. QED BY <2>2, <2>3, <2>4, <3>2 DEF QueueInv, ListsApart, Apart, Queued
  <2>8. CASE pc[t] = "pass1"
    <3>1. \A u \in Threads : pc'[u] # "pass1"
      BY <1>1, <2>1, <2>8 DEF QueueTypeOK, OneHandles, Handling
    <3>2. Apart(P)'
      BY <1>2, <2>1, <2>6, <3>1 DEF Apart
    <3>. QED BY <2>2, <2>3, <2>4, <3>2 DEF QueueInv, ListsApart, Apart, Queued
  <2>. QED BY <2>7, <2>8
<1>. QED BY <1>3, <1>4

LEMMA ExecuteStep ==
  ASSUME QueueInv, NEW t \in Threads, NEW o, AggregatorExecute(t, o)
  PROVE  QueueInv'
<1>. USE QueueAssumption
<1>1. QueueTypeOK /\ OneCollects /\ OneHandles /\ NoPopsLeft
  BY DEF QueueInv
<1>2. /\ pc[t] = "idle" /\ status' = [status EXCEPT ![t] = "wait"] /\ next' = [next EXCEPT ![t] = pending]
      /\ pending' = t /\ pc' = [pc EXCEPT ![t] = IF pending = Nil THEN "first" ELSE "waiting"]
      /\ UNCHANGED <<busy, list, pops, done>> /\ op' = [op EXCEPT ![t] = o]
  BY DEF AggregatorExecute, history
<1>3. PICK P : Apart(P)
  BY DEF QueueInv, ListsApart
<1>4. P \in SUBSET Threads /\ t \notin P /\ t \notin Taken
  BY <1>2, <1>3 DEF Apart, Queued, Taken
<1>5. QueueTypeOK' /\ NoPopsLeft'
  BY <1>1, <1>2 DEF QueueTypeOK, NoPopsLeft
<1>6. OneCollects' /\ OneHandles'
  BY <1>1, <1>2 DEF QueueTypeOK, OneCollects, OneHandles, Collecting, Handling
<1>7. IsList(next', pending', P \cup {t})
  BY <1>1, <1>2, <1>3, <1>4, PutBefore DEF QueueTypeOK, Apart
<1>8. P \cup {t} \subseteq Queued' /\ Taken \subseteq Taken'
  BY <1>1, <1>2, <1>3, <1>4 DEF QueueTypeOK, Apart, Queued, Taken
<1>9. ASSUME NEW u \in Threads, pc'[u] = "pass1" PROVE ListsOf(u, P \cup {t})'
  <2>1. PICK L, Q \in SUBSET Taken :
            /\ L \cap Q = {} /\ L \cap P = {} /\ Q \cap P = {}
            /\ IsList(next, list[u], L) /\ IsList(next, pops[u], Q)
            /\ (L \cup Q) \cap DOMAIN done = {} /\ \A n \in Q : IsPop(n)
    <3>1. pc[u] = "pass1"
      BY <1>1, <1>2, <1>9 DEF QueueTypeOK
    <3>. QED BY <1>3, <3>1 DEF Apart, ListsOf
  <2>2. IsList(next', list'[u], L) /\ IsList(next', pops'[u], Q)
    <3>1. L \in SUBSET Threads /\ Q \in SUBSET Threads /\ t \notin L /\ t \notin Q
      BY <1>4, <2>1 DEF Taken
    <3>2. next \in [Threads -> Threads \cup {Nil}]
      BY <1>1 DEF QueueTypeOK
    <3>. QED BY <1>2, <2>1, <3>1, <3>2, OtherList
  <2>3. L \in SUBSET Taken' /\ Q \in SUBSET Taken'
    BY <1>8, <2>1
  <2>4. L \cap Q = {} /\ L \cap (P \cup {t}) = {} /\ Q \cap (P \cup {t}) = {}
    BY <1>4, <2>1
  <2>5. (L \cup Q) \cap DOMAIN done' = {} /\ \A n \in Q : IsPop(n)'
    BY <1>2, <1>4, <2>1 DEF IsPop
  <2>. QED BY <2>2, <2>3, <2>4, <2>5 DEF ListsOf
<1>10. Apart(P \cup {t})'
  BY <1>7, <1>8, <1>9 DEF Apart
<1>. QED BY <1>4, <1>5, <1>6, <1>10 DEF QueueInv, ListsApart

\* The aggregator's list becomes the handler's.
LEMMA GrabStep ==
  ASSUME QueueInv, NEW t \in Threads, Grab(t)
  PROVE  QueueInv'
<1>. USE QueueAssumption
<1>1. QueueTypeOK /\ OneCollects /\ OneHandles /\ NoPopsLeft
  BY DEF QueueInv
<1>2. /\ pc[t] = "claimed" /\ list' = [list EXCEPT ![t] = pending] /\ pending' = Nil
      /\ pc' = [pc EXCEPT ![t] = "pass1"] /\ UNCHANGED <<busy, next, status, pops>>
      /\ done' = <<>>
  BY DEF Grab
<1>3. PICK P : Apart(P)
  BY DEF QueueInv, ListsApart
<1>4. QueueTypeOK' /\ NoPopsLeft'
  BY <1>1, <1>2 DEF QueueTypeOK, NoPopsLeft
<1>5. OneCollects' /\ OneHandles'
  BY <1>1, <1>2 DEF QueueTypeOK, OneCollects, OneHandles, Collecting, Handling
<1>6. P \subseteq Taken'
  BY <1>1, <1>2, <1>3 DEF QueueTypeOK, OneCollects, Collecting, Apart, Queued, Taken
<1>7. \A u \in Threads : pc'[u] = "pass1" => u = t
  BY <1>1, <1>2 DEF QueueTypeOK, OneHandles, Handling
<1>8. IsList(next', list'[t], P) /\ IsList(next', pops'[t], {})
  BY <1>1, <1>2, <1>3 DEF QueueTypeOK, NoPopsLeft, Apart, IsList
<1>9. ListsOf(t, {})'
  <2>1. DOMAIN done' = {}
    BY <1>2
  <2>. QED BY <1>6, <1>8, <2>1 DEF ListsOf
<1>10. Apart({})'
  BY <1>2, <1>7, <1>9 DEF Apart, IsList
<1>. QED BY <1>4, <1>5, <1>10 DEF QueueInv, ListsApart

-----------------------------------------------------------------------------
\* The handler answers o, or moves it from its first list to its second.
AnswersOnly(o) ==
    /\ next' = next
    /\ \E s \in {"succeeded", "failed"} : status' = [status EXCEPT ![o] = s]
    /\ DOMAIN done' = DOMAIN done \cup {o}

LEMMA HandlerStep ==
  ASSUME QueueInv, NEW t \in Threads, pc[t] = "pass1", UNCHANGED <<pending, busy, pc>>,
         QueueTypeOK', NoPopsLeft', NEW P, P \subseteq Queued', IsList(next', pending, P), ListsOf(t, P)'
  PROVE  QueueInv'
<1>1. QueueTypeOK /\ OneCollects /\ OneHandles
  BY DEF QueueInv
<1>2. OneCollects' /\ OneHandles'
  BY <1>1 DEF OneCollects, OneHandles, Collecting, Handling
<1>3. \A u \in Threads : pc'[u] = "pass1" => u = t
  BY <1>1 DEF OneHandles, Handling
<1>4. Apart(P)'
  BY <1>3 DEF Apart
<1>. QED BY <1>2, <1>4 DEF QueueInv, ListsApart, Apart, Queued

LEMMA FirstPassStep ==
  ASSUME QueueInv, NEW t \in Threads, FirstPass(t)
  PROVE  QueueInv'
<1>. USE QueueAssumption
<1>. DEFINE o == list[t]
<1>1. QueueTypeOK /\ NoPopsLeft
  BY DEF QueueInv
<1>2. /\ pc[t] = "pass1" /\ o # Nil /\ list' = [list EXCEPT ![t] = next[o]] /\ UNCHANGED <<pending, busy, pc>>
      /\ op' = op
      /\ \/ AnswersOnly(o) /\ pops' = pops
         \/ /\ next' = [next EXCEPT ![o] = pops[t]] /\ pops' = [pops EXCEPT ![t] = o]
            /\ status' = status /\ done' = done /\ IsPop(o)
  <2>1. Push(o) \/ PopNewest(o) => /\ \E s \in {"succeeded", "failed"} : status' = [status EXCEPT ![o] = s]
                                   /\ DOMAIN done' = DOMAIN done \cup {o}
    BY DEF Push, PopNewest, Answer
  <2>. QED BY <2>1 DEF FirstPass, AnswersOnly
<1>3. PICK P : Apart(P)
  BY DEF QueueInv, ListsApart
<1>4. PICK L, Q \in SUBSET Taken :
          /\ L \cap Q = {} /\ L \cap P = {} /\ Q \cap P = {}
          /\ IsList(next, o, L) /\ IsList(next, pops[t], Q)
          /\ (L \cup Q) \cap DOMAIN done = {} /\ \A n \in Q : IsPop(n)
  BY <1>2, <1>3 DEF Apart, ListsOf
<1>5. /\ L \in SUBSET Threads /\ Q \in SUBSET Threads /\ P \in SUBSET Threads
      /\ P \subseteq Queued /\ IsList(next, pending, P) /\ next \in [Threads -> Threads \cup {Nil}]
  BY <1>1, <1>3, <1>4 DEF QueueTypeOK, Apart, Queued, Taken
<1>6. o \in L /\ IsList(next, next[o], L \ {o}) /\ o \notin Q /\ o \notin P
  BY <1>2, <1>4, <1>5, HeadTaken
<1>7. o \in Threads /\ next[o] \in Threads \cup {Nil}
  BY <1>5, <1>6
<1>. HIDE DEF o
<1>8. CASE AnswersOnly(o) /\ pops' = pops
  <2>1. QueueTypeOK' /\ NoPopsLeft'
    BY <1>1, <1>2, <1>7, <1>8 DEF QueueTypeOK, NoPopsLeft, AnswersOnly
  <2>2. P \subseteq Queued' /\ L \ {o} \in SUBSET Taken' /\ Q \in SUBSET Taken'
    BY <1>1, <1>2, <1>4, <1>5, <1>6, <1>8 DEF QueueTypeOK, AnswersOnly, Queued, Taken
  <2>3. IsList(next', list'[t], L \ {o}) /\ IsList(next', pops'[t], Q) /\ IsList(next', pending, P)
    <3>1. list'[t] = next[o] /\ next' = next
      BY <1>1, <1>2, <1>8 DEF QueueTypeOK, AnswersOnly
    <3>. QED BY <1>4, <1>5, <1>6, <1>8, <3>1
  <2>4. (L \ {o}) \cap Q = {} /\ (L \ {o}) \cap P = {} /\ Q \cap P = {}
    BY <1>4
  <2>6. ((L \ {o}) \cup Q) \cap DOMAIN done' = {} /\ \A n \in Q : IsPop(n)'
    BY <1>2, <1>4, <1>6, <1>8 DEF AnswersOnly, IsPop
  <2>5. ListsOf(t, P)'
    BY <2>2, <2>3, <2>4, <2>6 DEF ListsOf
  <2>. QED BY <1>2, <2>1, <2>2, <2>3, <2>5, HandlerStep
<1>9. CASE /\ next' = [next EXCEPT ![o] = pops[t]] /\ pops' = [pops EXCEPT ![t] = o]
           /\ status' = status /\ done' = done /\ IsPop(o)
  <2>1. QueueTypeOK' /\ NoPopsLeft'
    BY <1>1, <1>2, <1>7, <1>9 DEF QueueTypeOK, NoPopsLeft
  <2>2. P \subseteq Queued' /\ L \ {o} \in SUBSET Taken' /\ Q \cup {o} \in SUBSET Taken'
    BY <1>2, <1>4, <1>5, <1>6, <1>9 DEF Queued, Taken
  <2>3. IsList(next', pops'[t], Q \cup {o})
    <3>1. pops'[t] = o
      BY <1>1, <1>9 DEF QueueTypeOK
    <3>. QED BY <1>4, <1>5, <1>6, <1>7, <1>9, <3>1, PutBefore
  <2>4. IsList(next', list'[t], L \ {o})
    <3>1. list'[t] = next[o] /\ L \ {o} \in SUBSET Threads /\ o \notin L \ {o}
      BY <1>1, <1>2, <1>5 DEF QueueTypeOK
    <3>. QED BY <1>5, <1>6, <1>7, <1>9, <3>1, OtherList
  <2>5. IsList(next', pending, P)
    BY <1>5, <1>6, <1>7, <1>9, OtherList
  <2>6. (L \ {o}) \cap (Q \cup {o}) = {} /\ (L \ {o}) \cap P = {} /\ (Q \cup {o}) \cap P = {}
    BY <1>4, <1>6
  <2>8. ((L \ {o}) \cup (Q \cup {o})) \cap DOMAIN done' = {} /\ \A n \in Q \cup {o} : IsPop(n)'
    BY <1>2, <1>4, <1>6, <1>9 DEF IsPop
  <2>7. ListsOf(t, P)'
    BY <2>2, <2>3, <2>4, <2>6, <2>8 DEF ListsOf
  <2>. QED BY <1>2, <2>1, <2>2, <2>5, <2>7, HandlerStep
<1>. QED BY <1>2, <1>8, <1>9

LEMMA SecondPassStep ==
  ASSUME QueueInv, NEW t \in Threads, SecondPass(t)
  PROVE  QueueInv'
<1>. USE QueueAssumption
<1>. DEFINE o == pops[t]
<1>1. QueueTypeOK /\ NoPopsLeft
  BY DEF QueueInv
<1>2. /\ pc[t] = "pass1" /\ o # Nil /\ pops' = [pops EXCEPT ![t] = next[o]]
      /\ UNCHANGED <<pending, busy, pc, op, next, list>>
      /\ \E s \in {"succeeded", "failed"} : status' = [status EXCEPT ![o] = s]
      /\ DOMAIN done' = DOMAIN done \cup {o}
  BY DEF SecondPass, PopNewest, PopRoot, Answer
<1>3. PICK P : Apart(P)
  BY DEF QueueInv, ListsApart
<1>4. PICK L, Q \in SUBSET Taken :
          /\ L \cap Q = {} /\ L \cap P = {} /\ Q \cap P = {}
          /\ IsList(next, list[t], L) /\ IsList(next, o, Q)
          /\ (L \cup Q) \cap DOMAIN done = {} /\ \A n \in Q : IsPop(n)
  BY <1>2, <1>3 DEF Apart, ListsOf
<1>5. /\ L \in SUBSET Threads /\ Q \in SUBSET Threads /\ P \in SUBSET Threads
      /\ P \subseteq Queued /\ IsList(next, pending, P) /\ next \in [Threads -> Threads \cup {Nil}]
  BY <1>1, <1>3, <1>4 DEF QueueTypeOK, Apart, Queued, Taken
<1>6. o \in Q /\ IsList(next, next[o], Q \ {o}) /\ o \notin L /\ o \notin P
  BY <1>2, <1>4, <1>5, HeadTaken
<1>7. o \in Threads /\ next[o] \in Threads \cup {Nil}
  BY <1>5, <1>6
<1>. HIDE DEF o
<1>8. QueueTypeOK' /\ NoPopsLeft'
  BY <1>1, <1>2, <1>7 DEF QueueTypeOK, NoPopsLeft
<1>9. P \subseteq Queued' /\ L \in SUBSET Taken' /\ Q \ {o} \in SUBSET Taken'
  BY <1>1, <1>2, <1>4, <1>5, <1>6 DEF QueueTypeOK, Queued, Taken
<1>10. IsList(next', list'[t], L) /\ IsList(next', pops'[t], Q \ {o}) /\ IsList(next', pending, P)
  <2>1. pops'[t] = next[o]
    BY <1>1, <1>2 DEF QueueTypeOK
  <2>. QED BY <1>2, <1>4, <1>5, <1>6, <2>1
<1>11. L \cap (Q \ {o}) = {} /\ L \cap P = {} /\ (Q \ {o}) \cap P = {}
  BY <1>4
<1>12. (L \cup (Q \ {o})) \cap DOMAIN done' = {} /\ \A n \in Q \ {o} : IsPop(n)'
  BY <1>2, <1>4, <1>6 DEF IsPop
<1>13. ListsOf(t, P)'
  BY <1>9, <1>10, <1>11, <1>12 DEF ListsOf
<1>. QED BY <1>2, <1>8, <1>9, <1>10, <1>13, HandlerStep

LEMMA QueueStep == QueueInv /\ [QueueNext]_cpqVars => QueueInv'
<1>. SUFFICES ASSUME QueueInv, [QueueNext]_cpqVars PROVE QueueInv'
  OBVIOUS
<1>1. ASSUME NEW t \in Threads, NEW o \in Operations, AggregatorExecute(t, o) PROVE QueueInv'
  BY <1>1, ExecuteStep
<1>2. ASSUME NEW t \in Threads, Step(t) PROVE QueueInv'
  BY <1>2, MoveStep, GrabStep, FirstPassStep, SecondPassStep DEF Step
<1>3. CASE UNCHANGED cpqVars
  <2>1. UNCHANGED <<pending, busy, pc, op, next, status, list, pops, done>>
    BY <1>3 DEF cpqVars, history
  <2>2. QueueTypeOK' /\ OneCollects' /\ OneHandles' /\ NoPopsLeft'
    BY <2>1 DEF QueueInv, QueueTypeOK, OneCollects, OneHandles, NoPopsLeft, Collecting, Handling
  <2>3. ListsApart'
    <3>1. ASSUME NEW t \in Threads, NEW P, ListsOf(t, P) PROVE ListsOf(t, P)'
      <4>1. PICK L, Q \in SUBSET Taken :
                /\ L \cap Q = {} /\ L \cap P = {} /\ Q \cap P = {}
                /\ IsList(next, list[t], L) /\ IsList(next, pops[t], Q)
                /\ (L \cup Q) \cap DOMAIN done = {} /\ \A n \in Q : IsPop(n)
        BY <3>1 DEF ListsOf
      <4>2. Taken' = Taken /\ (\A n \in Q : IsPop(n)') /\ done' = done /\ UNCHANGED <<next, list, pops>>
        BY <2>1, <4>1 DEF Taken, IsPop
      <4>. QED BY <4>1, <4>2 DEF ListsOf
    <3>2. PICK P \in SUBSET Threads : Apart(P)
      BY DEF QueueInv, ListsApart
    <3>3. Apart(P)'
      BY <2>1, <3>1, <3>2 DEF Apart, Queued
    <3>. QED BY <3>2, <3>3 DEF ListsApart
  <2>. QED BY <2>2, <2>3 DEF QueueInv
<1>. QED BY <1>1, <1>2, <1>3 DEF QueueNext

\* QueueInv is an inductive invariant of the aggregator.
THEOREM QueueInvariance == QueueSpec => []QueueInv
<1>. QED BY QueueInitial, QueueStep, PTL DEF QueueSpec

\* One thread at a time claims the aggregator and works on the queue, and it
\* follows its lists only through operations that are unanswered, whose
\* threads cannot have returned and taken the operation off their stacks.
THEOREM HandlerIsAlone == QueueSpec => []HandlerAlone
<1>1. QueueInv => HandlerAlone
  <2>. SUFFICES ASSUME QueueInv PROVE HandlerAlone
    OBVIOUS
  <2>1. \A t, u \in Threads : {pc[t], pc[u]} \subseteq {"claimed", "pass1", "handled"} => t = u
    BY DEF QueueInv, OneHandles, Handling
  <2>2. ASSUME NEW t \in Threads, pc[t] = "pass1", NEW o \in {list[t], pops[t]} \ {Nil}
        PROVE  pc[o] # "idle" /\ status[o] = "wait"
    <3>1. PICK P : ListsOf(t, P)
      BY <2>2 DEF QueueInv, ListsApart, Apart
    <3>2. o \in Taken
      BY <2>2, <3>1 DEF ListsOf, IsList
    <3>. QED BY <3>2 DEF Taken
  <2>. QED BY <2>1, <2>2 DEF HandlerAlone
<1>. QED BY <1>1, QueueInvariance, PTL

-----------------------------------------------------------------------------
(***************************************************************************)
(* The positions of the heap, and the way up from one.                     *)
(***************************************************************************)
LEMMA Halves ==
  ASSUME NEW q \in Nat, q > 1
  PROVE  /\ q \div 2 \in Nat /\ q \div 2 >= 1 /\ q \div 2 < q
         /\ q = 2 * (q \div 2) \/ q = 2 * (q \div 2) + 1
         /\ \A p \in Nat : p <= q => p \div 2 <= q \div 2
OBVIOUS

\* The way up from p: p is on it, and with each its half.
LEMMA PathHolds ==
  ASSUME NEW p \in Nat \ {0}
  PROVE  /\ p \in Path(p) /\ Path(p) \subseteq 1 .. p
         /\ \A q \in Path(p) : q > 1 => q \div 2 \in Path(p)
<1>1. p \in Path(p) /\ Path(p) \subseteq 1 .. p
  BY DEF Path
<1>2. ASSUME NEW q \in Path(p), q > 1 PROVE q \div 2 \in Path(p)
  <2>1. q \in 1 .. p /\ q \div 2 \in 1 .. p
    BY <1>1, <1>2
  <2>2. \A T \in SUBSET (1 .. p) : p \in T /\ (\A r \in T : r > 1 => r \div 2 \in T) => q \in T
    BY DEF Path
  <2>3. ASSUME NEW T \in SUBSET (1 .. p), p \in T, \A r \in T : r > 1 => r \div 2 \in T
        PROVE  q \div 2 \in T
    <3>1. q \in T
      BY <2>2, <2>3
    <3>. QED BY <1>2, <2>3, <3>1
  <2>. QED BY <2>1, <2>3 DEF Path
<1>. QED BY <1>1, <1>2

\* Every set that is closed in this way holds it.
LEMMA PathLeast ==
  ASSUME NEW p \in Nat \ {0}, NEW T \in SUBSET (1 .. p), p \in T,
         \A r \in T : r > 1 => r \div 2 \in T
  PROVE  Path(p) \subseteq T
BY DEF Path

\* The way up from a position goes on from its half.
LEMMA PathFromHalf ==
  ASSUME NEW p \in Nat, p > 1
  PROVE  Path(p) = {p} \cup Path(p \div 2)
<1>. DEFINE h == p \div 2
<1>1. h \in Nat \ {0} /\ h < p /\ h \in 1 .. p
  BY Halves
<1>. HIDE DEF h
<1>2. /\ h \in Path(h) /\ Path(h) \subseteq 1 .. h
      /\ \A q \in Path(h) : q > 1 => q \div 2 \in Path(h)
  BY <1>1, PathHolds
<1>3. Path(p) \subseteq {p} \cup Path(h)
  <2>. DEFINE T == {p} \cup Path(h)
  <2>1. T \in SUBSET (1 .. p) /\ p \in T
    BY <1>1, <1>2
  <2>2. \A r \in T : r > 1 => r \div 2 \in T
    BY <1>2 DEF h
  <2>. HIDE DEF T
  <2>3. Path(p) \subseteq T
    BY <2>1, <2>2, PathLeast
  <2>. QED BY <2>3 DEF T
<1>4. p \in Path(p) /\ Path(p) \subseteq 1 .. p /\ \A q \in Path(p) : q > 1 => q \div 2 \in Path(p)
  BY PathHolds
<1>5. h \in Path(p)
  BY <1>4 DEF h
<1>6. Path(h) \subseteq Path(p)
  <2>. DEFINE T == Path(p) \cap (1 .. h)
  <2>1. h \in T
    BY <1>1, <1>5
  <2>2. \A r \in T : r > 1 => r \div 2 \in T
    <3>. SUFFICES ASSUME NEW r \in T, r > 1 PROVE r \div 2 \in T
      OBVIOUS
    <3>1. r \in 1 .. h /\ r \div 2 \in Path(p)
      BY <1>4
    <3>2. r \div 2 \in 1 .. h
      BY <1>1, <3>1
    <3>. QED BY <3>1, <3>2
  <2>. HIDE DEF T
  <2>3. T \subseteq 1 .. h
    BY DEF T
  <2>4. Path(h) \subseteq T
    BY <1>1, <2>1, <2>2, <2>3, PathLeast
  <2>. QED BY <2>4 DEF T
<1>. QED BY <1>3, <1>4, <1>6 DEF h

\* Below p on its way up is what is on the way up from there.
LEMMA PathGoesOn ==
  ASSUME NEW p \in Nat \ {0}, NEW r \in Path(p), NEW q \in Path(p), q < r
  PROVE  q <= r \div 2
<1>0. /\ p \in Path(p) /\ Path(p) \subseteq 1 .. p
      /\ \A x \in Path(p) : x > 1 => x \div 2 \in Path(p)
  BY PathHolds
<1>. DEFINE T == {x \in Path(p) : \A y \in Path(p) : y >= x \/ y \in Path(x)}
<1>1. p \in T
  BY <1>0
<1>2. ASSUME NEW x \in T, x > 1 PROVE x \div 2 \in T
  <2>1. x \in Nat /\ x > 1 /\ x \div 2 \in Path(p) /\ x \div 2 <= x
    BY <1>0, <1>2
  <2>2. Path(x) = {x} \cup Path(x \div 2)
    BY <2>1, PathFromHalf
  <2>3. ASSUME NEW y \in Path(p) PROVE y >= x \div 2 \/ y \in Path(x \div 2)
    <3>1. y >= x \/ y = x \/ y \in Path(x \div 2)
      BY <2>2
    <3>2. x \in Nat /\ y \in Nat
      BY <1>0
    <3>. QED BY <2>1, <3>1, <3>2
  <2>. QED BY <2>1, <2>3
<1>3. r \in T
  <2>1. T \in SUBSET (1 .. p)
    BY <1>0
  <2>2. \A x \in T : x > 1 => x \div 2 \in T
    BY <1>2
  <2>. HIDE DEF T
  <2>. QED BY <1>1, <2>1, <2>2, PathLeast
<1>4. q \in Path(r) /\ r \in Nat /\ r > 1
  BY <1>0, <1>3
<1>5. q \in Path(r \div 2)
  BY <1>0, <1>4, PathFromHalf
<1>6. r \div 2 \in Nat \ {0}
  BY <1>4
<1>. QED BY <1>5, <1>6, PathHolds

\* Each but the first is the half of one other.
LEMMA PathBelow ==
  ASSUME NEW p \in Nat \ {0}, NEW q \in Path(p), q # p
  PROVE  \E r \in Path(p) : r > 1 /\ r \div 2 = q /\ r > q
<1>0. /\ p \in Path(p) /\ Path(p) \subseteq 1 .. p
      /\ \A x \in Path(p) : x > 1 => x \div 2 \in Path(p)
  BY PathHolds
<1>. DEFINE T == {p} \cup {x \in Path(p) : \E r \in Path(p) : r > 1 /\ r \div 2 = x}
<1>1. \A r \in T : r > 1 => r \div 2 \in T
  BY <1>0
<1>2. Path(p) \subseteq T
  <2>1. T \in SUBSET (1 .. p) /\ p \in T
    BY <1>0
  <2>. HIDE DEF T
  <2>. QED BY <1>1, <2>1, PathLeast
<1>3. PICK r \in Path(p) : r > 1 /\ r \div 2 = q
  BY <1>2
<1>. QED BY <1>0, <1>3

\* No two of it have the same half.
LEMMA PathHalvesDiffer ==
  ASSUME NEW p \in Nat \ {0}, NEW q \in Path(p), NEW r \in Path(p), q > 1, r > 1, q \div 2 = r \div 2
  PROVE  q = r
<1>0. q \in Nat /\ r \in Nat
  BY PathHolds
<1>1. ~ (q < r)
  <2>. SUFFICES ASSUME q < r PROVE FALSE
    OBVIOUS
  <2>1. q <= r \div 2
    BY PathGoesOn
  <2>. QED BY <1>0, <2>1
<1>2. ~ (r < q)
  <2>. SUFFICES ASSUME r < q PROVE FALSE
    OBVIOUS
  <2>1. r <= q \div 2
    BY PathGoesOn
  <2>. QED BY <1>0, <2>1
<1>. QED BY <1>0, <1>1, <1>2

\* It ends at the root.
LEMMA PathTop ==
  ASSUME NEW p \in Nat \ {0}
  PROVE  1 \in Path(p)
<1>0. /\ p \in Path(p) /\ Path(p) \subseteq 1 .. p
      /\ \A x \in Path(p) : x > 1 => x \div 2 \in Path(p)
  BY PathHolds
<1>1. PICK m \in Path(p) : \A k \in Path(p) : m <= k
  <2>1. Path(p) \in SUBSET Nat /\ Path(p) # {}
    BY <1>0
  <2>. QED BY <2>1, LeastNumber
<1>2. m > 1 => m \div 2 < m
  BY <1>0
<1>3. m > 1 => m \div 2 \in Nat /\ m \in Nat
  BY <1>0
<1>. QED BY <1>0, <1>1, <1>2, <1>3

-----------------------------------------------------------------------------
(***************************************************************************)
(* What a queue holds: bags of the elements at some positions.             *)
(***************************************************************************)
Bag(s, P) == [e \in Elements |-> Cardinality({i \in P : s[i] = e})]
Bags == [Elements -> Nat]

\* Counts are numbers.
LEMMA BagType ==
  ASSUME NEW s, NEW P, IsFiniteSet(P)
  PROVE  Bag(s, P) \in Bags
<1>1. \A e \in Elements : Cardinality({i \in P : s[i] = e}) \in Nat
  BY FS_Subset, FS_CardinalityType
<1>. QED BY <1>1 DEF Bag, Bags

\* Moving elements to other positions changes nothing.
LEMMA BagMoved ==
  ASSUME NEW s, NEW r, NEW P, NEW Q, IsFiniteSet(P), NEW f \in Bijection(P, Q),
         \A i \in P : r[i] = s[f[i]]
  PROVE  Bag(r, P) = Bag(s, Q)
<1>1. ASSUME NEW e \in Elements
      PROVE  Cardinality({i \in P : r[i] = e}) = Cardinality({j \in Q : s[j] = e})
  <2>. DEFINE A == {i \in P : r[i] = e}
              B == {j \in Q : s[j] = e}
              g == [i \in A |-> f[i]]
  <2>1. /\ f \in [P -> Q] /\ \A i, j \in P : f[i] = f[j] => i = j
        /\ \A j \in Q : \E i \in P : f[i] = j
    BY DEF Bijection, Injection, Surjection, IsInjective
  <2>2. g \in [A -> B]
    BY <2>1
  <2>3. \A i, j \in A : g[i] = g[j] => i = j
    BY <2>1
  <2>4. \A j \in B : \E i \in A : g[i] = j
    BY <2>1
  <2>5. IsFiniteSet(A)
    BY FS_Subset
  <2>. HIDE DEF A, B, g
  <2>6. g \in Bijection(A, B)
    BY <2>2, <2>3, <2>4 DEF Bijection, Injection, Surjection, IsInjective
  <2>7. Cardinality(B) = Cardinality(A)
    BY <2>5, <2>6, FS_Bijection DEF ExistsBijection
  <2>. QED BY <2>7 DEF A, B
<1>. QED BY <1>1 DEF Bag

Without(b, x) == [b EXCEPT ![x] = @ - 1]

\* One position more is one element more.
LEMMA BagMore ==
  ASSUME NEW s, NEW P, IsFiniteSet(P), NEW q, q \notin P, s[q] \in Elements
  PROVE  /\ Bag(s, P \cup {q}) = [Bag(s, P) EXCEPT ![s[q]] = @ + 1]
         /\ Bag(s, P) = Without(Bag(s, P \cup {q}), s[q])
         /\ Bag(s, P) \in Bags /\ Bag(s, P \cup {q}) \in Bags
<1>. DEFINE A(e) == {i \in P : s[i] = e}
            B(e) == {i \in P \cup {q} : s[i] = e}
<1>1. IsFiniteSet(P \cup {q})
  BY FS_AddElement
<1>2. Bag(s, P) \in Bags /\ Bag(s, P \cup {q}) \in Bags
  BY <1>1, BagType
<1>3. \A e \in Elements : e # s[q] => Bag(s, P \cup {q})[e] = Bag(s, P)[e]
  <2>. SUFFICES ASSUME NEW e \in Elements, e # s[q] PROVE Cardinality(B(e)) = Cardinality(A(e))
    BY DEF Bag
  <2>. QED OBVIOUS
<1>4. Bag(s, P \cup {q})[s[q]] = Bag(s, P)[s[q]] + 1
  <2>1. B(s[q]) = A(s[q]) \cup {q} /\ q \notin A(s[q]) /\ IsFiniteSet(A(s[q]))
    BY FS_Subset
  <2>. HIDE DEF A, B
  <2>2. Cardinality(B(s[q])) = Cardinality(A(s[q])) + 1
    BY <2>1, FS_AddElement
  <2>. QED BY <2>2 DEF Bag, A, B
<1>. DEFINE x == s[q]
            b == Bag(s, P)
            d == Bag(s, P \cup {q})
<1>5. /\ b \in [Elements -> Nat] /\ d \in [Elements -> Nat] /\ x \in Elements
      /\ \A e \in Elements : e # x => d[e] = b[e]
      /\ d[x] = b[x] + 1
  BY <1>2, <1>3, <1>4 DEF Bags
<1>. HIDE DEF b, d, x
<1>6. d = [b EXCEPT ![x] = @ + 1] /\ b = Without(d, x)
  BY <1>5 DEF Without
<1>. QED BY <1>2, <1>6 DEF b, d, x

\* Of what some positions hold, the top is the element no other is above.
LEMMA BagTop ==
  ASSUME NEW s, NEW P, IsFiniteSet(P), \A i \in P : s[i] \in Elements
  PROVE  /\ Held(Bag(s, P)) = {s[i] : i \in P}
         /\ \A q \in P : (\A i \in P : s[i] <= s[q]) => Top(Bag(s, P)) = s[q]
<1>1. ASSUME NEW e \in Elements
      PROVE  Bag(s, P)[e] > 0 <=> \E i \in P : s[i] = e
  <2>. DEFINE A == {i \in P : s[i] = e}
  <2>1. IsFiniteSet(A)
    BY FS_Subset
  <2>. HIDE DEF A
  <2>2. Cardinality(A) \in Nat /\ (Cardinality(A) = 0 <=> A = {})
    BY <2>1, FS_CardinalityType, FS_EmptySet
  <2>3. Cardinality(A) > 0 <=> A # {}
    BY <2>2
  <2>. QED BY <2>3 DEF Bag, A
<1>2. Held(Bag(s, P)) = {s[i] : i \in P}
  BY <1>1 DEF Held
<1>3. ASSUME NEW q \in P, \A i \in P : s[i] <= s[q]
      PROVE  Top(Bag(s, P)) = s[q]
  <2>. DEFINE H == Held(Bag(s, P))
  <2>1. H = {s[i] : i \in P}
    BY <1>2
  <2>. HIDE DEF H
  <2>2. s[q] \in H /\ \A f \in H : f <= s[q]
    BY <1>3, <2>1
  <2>3. H \subseteq Int
    BY <2>1, QueueAssumption
  <2>4. \A e \in H : (\A f \in H : f <= e) => e = s[q]
    <3>. SUFFICES ASSUME NEW e \in H, \A f \in H : f <= e PROVE e = s[q]
      OBVIOUS
    <3>1. e <= s[q] /\ s[q] <= e /\ e \in Int /\ s[q] \in Int
      BY <2>2, <2>3
    <3>. QED BY <3>1
  <2>5. (CHOOSE e \in H : \A f \in H : f <= e) = s[q]
    BY <2>2, <2>4
  <2>. QED BY <2>5 DEF H, Top
<1>. QED BY <1>2, <1>3

-----------------------------------------------------------------------------
(***************************************************************************)
(* Operations one after the other.                                         *)
(***************************************************************************)
PushOf(r, x) == r.op.kind = "push" /\ r.ok /\ r.op.arg = x
PopOf(r, x) == r.op.kind \in {"pop", "pop_if"} /\ r.ok /\ r.got = x /\ x \in r.op.arg
FailOn(r, x) == r.op.kind \in {"pop", "pop_if"} /\ ~ r.ok /\ x \notin r.op.arg

\* What a queue used by one caller does with a push,
LEMMA SequentialPush ==
  ASSUME NEW b \in Bags, NEW r, NEW x \in Elements, PushOf(r, x)
  PROVE  Sequential(b, r) = [b EXCEPT ![x] = @ + 1]
<1>1. b # Impossible
  <2>1. b[x] \in Nat /\ Impossible[x] = -1
    BY DEF Bags, Impossible
  <2>. QED BY <2>1
<1>. QED BY <1>1 DEF Sequential, PushOf

\* with a pop of its top,
LEMMA SequentialPop ==
  ASSUME NEW b \in Bags, NEW r, NEW x \in Elements, PopOf(r, x), x = Top(b), Held(b) # {}
  PROVE  Sequential(b, r) = Without(b, x)
<1>1. b # Impossible
  <2>1. b[x] \in Nat /\ Impossible[x] = -1
    BY DEF Bags, Impossible
  <2>. QED BY <2>1
<1>. QED BY <1>1 DEF Sequential, PopOf, Without

\* and with an operation that fails.
LEMMA SequentialStay ==
  ASSUME NEW b \in Bags, NEW r,
         \/ r.op.kind = "badpush" /\ ~ r.ok
         \/ r.op.kind \in {"pop", "pop_if"} /\ ~ r.ok /\ (Held(b) # {} => Top(b) \notin r.op.arg)
  PROVE  Sequential(b, r) = b
BY DEF Sequential

\* The operations of D, answered as dn says, lead in some order from b0 to b.
Linear(dn, D, b0, b) ==
    \E n \in Nat : \E order \in Bijection(1 .. n, D), h \in [0 .. n -> Bags] :
        /\ h[0] = b0 /\ h[n] = b
        /\ \A k \in 1 .. n : h[k] = Sequential(h[k - 1], dn[order[k]])

\* No operation changes nothing,
LEMMA LinearNone ==
  ASSUME NEW dn, NEW b \in Bags
  PROVE  Linear(dn, {}, b, b)
<1>. DEFINE order == [k \in 1 .. 0 |-> k]
            h == [k \in 0 .. 0 |-> b]
<1>1. 1 .. 0 = {} /\ 0 \in Nat
  OBVIOUS
<1>2. order \in Bijection(1 .. 0, {})
  BY <1>1 DEF Bijection, Injection, Surjection, IsInjective
<1>3. h \in [0 .. 0 -> Bags] /\ h[0] = b
  OBVIOUS
<1>. HIDE DEF order, h
<1>. QED BY <1>1, <1>2, <1>3 DEF Linear

\* only the answers of the operations in the order count,
LEMMA LinearSame ==
  ASSUME NEW dn, NEW D, NEW b0, NEW b, Linear(dn, D, b0, b), NEW dn2, \A d \in D : dn2[d] = dn[d]
  PROVE  Linear(dn2, D, b0, b) /\ b \in Bags /\ IsFiniteSet(D)
<1>1. PICK n \in Nat : \E order \in Bijection(1 .. n, D), h \in [0 .. n -> Bags] :
        /\ h[0] = b0 /\ h[n] = b
        /\ \A k \in 1 .. n : h[k] = Sequential(h[k - 1], dn[order[k]])
  BY DEF Linear
<1>2. PICK order \in Bijection(1 .. n, D), h \in [0 .. n -> Bags] :
        /\ h[0] = b0 /\ h[n] = b
        /\ \A k \in 1 .. n : h[k] = Sequential(h[k - 1], dn[order[k]])
  BY <1>1
<1>3. \A k \in 1 .. n : order[k] \in D
  BY DEF Bijection, Injection
<1>4. \A k \in 1 .. n : h[k] = Sequential(h[k - 1], dn2[order[k]])
  BY <1>2, <1>3
<1>5. b \in Bags
  BY <1>2
<1>6. IsFiniteSet(D)
  <2>1. IsFiniteSet(1 .. n)
    BY FS_Interval
  <2>. QED BY <2>1, FS_Bijection DEF ExistsBijection
<1>. QED BY <1>2, <1>4, <1>5, <1>6 DEF Linear

\* and one more may come last.
LEMMA LinearOneMore ==
  ASSUME NEW dn, NEW D, NEW b0, NEW b, Linear(dn, D, b0, b), NEW o, o \notin D,
         NEW c2 \in Bags, c2 = Sequential(b, dn[o])
  PROVE  Linear(dn, D \cup {o}, b0, c2)
<1>1. PICK n \in Nat : \E order \in Bijection(1 .. n, D), h \in [0 .. n -> Bags] :
        /\ h[0] = b0 /\ h[n] = b
        /\ \A k \in 1 .. n : h[k] = Sequential(h[k - 1], dn[order[k]])
  BY DEF Linear
<1>2. PICK order \in Bijection(1 .. n, D), h \in [0 .. n -> Bags] :
        /\ h[0] = b0 /\ h[n] = b
        /\ \A k \in 1 .. n : h[k] = Sequential(h[k - 1], dn[order[k]])
  BY <1>1
<1>3. /\ order \in [1 .. n -> D] /\ \A i, j \in 1 .. n : order[i] = order[j] => i = j
      /\ \A d \in D : \E i \in 1 .. n : order[i] = d
  BY DEF Bijection, Injection, Surjection, IsInjective
<1>. DEFINE m == n + 1
            order2 == [k \in 1 .. m |-> IF k = m THEN o ELSE order[k]]
            h2 == [k \in 0 .. m |-> IF k = m THEN c2 ELSE h[k]]
<1>4. m \in Nat /\ \A k \in 1 .. m : k = m \/ k \in 1 .. n
  OBVIOUS
<1>5. order2 \in Bijection(1 .. m, D \cup {o})
  <2>1. order2 \in [1 .. m -> D \cup {o}]
    BY <1>3
  <2>2. \A i, j \in 1 .. m : order2[i] = order2[j] => i = j
    <3>. SUFFICES ASSUME NEW i \in 1 .. m, NEW j \in 1 .. m, order2[i] = order2[j] PROVE i = j
      OBVIOUS
    <3>1. i # m => order2[i] = order[i] /\ order[i] \in D /\ i \in 1 .. n
      BY <1>3
    <3>2. j # m => order2[j] = order[j] /\ order[j] \in D /\ j \in 1 .. n
      BY <1>3
    <3>. QED BY <1>3, <3>1, <3>2
  <2>3. \A d \in D \cup {o} : \E i \in 1 .. m : order2[i] = d
    <3>. SUFFICES ASSUME NEW d \in D \cup {o} PROVE \E i \in 1 .. m : order2[i] = d
      OBVIOUS
    <3>1. CASE d = o
      BY <3>1
    <3>2. CASE d \in D
      <4>1. PICK i \in 1 .. n : order[i] = d
        BY <1>3, <3>2
      <4>. QED BY <4>1
    <3>. QED BY <3>1, <3>2
  <2>. HIDE DEF order2, m
  <2>. QED BY <2>1, <2>2, <2>3 DEF Bijection, Injection, Surjection, IsInjective
<1>6. h2 \in [0 .. m -> Bags] /\ h2[0] = b0 /\ h2[m] = c2
  BY <1>2
<1>7. ASSUME NEW k \in 1 .. m PROVE h2[k] = Sequential(h2[k - 1], dn[order2[k]])
  <2>1. CASE k = m
    <3>1. h2[k] = c2 /\ h2[k - 1] = b /\ order2[k] = o
      BY <1>2, <2>1
    <3>. QED BY <3>1
  <2>2. CASE k # m
    <3>1. k \in 1 .. n /\ h2[k] = h[k] /\ h2[k - 1] = h[k - 1] /\ order2[k] = order[k]
      BY <2>2
    <3>. QED BY <1>2, <3>1
  <2>. QED BY <2>1, <2>2
<1>. HIDE DEF m, order2, h2
<1>. QED BY <1>4, <1>5, <1>6, <1>7 DEF Linear

\* Operations that leave the queue as it is come in any order.
LEMMA LinearStays ==
  ASSUME NEW dn, NEW D, NEW b0, NEW b, Linear(dn, D, b0, b), NEW F, IsFiniteSet(F), F \cap D = {},
         \A o \in F : Sequential(b, dn[o]) = b
  PROVE  Linear(dn, D \cup F, b0, b)
<1>. DEFINE Done(G) == Linear(dn, D \cup G, b0, b)
            N == {Cardinality(F \ G) : G \in {G \in SUBSET F : Done(G)}}
<1>1. Done({}) /\ {} \in SUBSET F
  <2>1. D \cup {} = D
    OBVIOUS
  <2>. QED BY <2>1
<1>2. b \in Bags
  BY LinearSame
<1>3. \A G \in SUBSET F : IsFiniteSet(F \ G) /\ Cardinality(F \ G) \in Nat
  BY FS_Subset, FS_CardinalityType
<1>4. \A G \in SUBSET F : \A o \in F \ G : Done(G) => Done(G \cup {o})
  <2>. SUFFICES ASSUME NEW G \in SUBSET F, NEW o \in F \ G, Done(G) PROVE Done(G \cup {o})
    OBVIOUS
  <2>1. o \notin D \cup G /\ b = Sequential(b, dn[o]) /\ (D \cup G) \cup {o} = D \cup (G \cup {o})
    OBVIOUS
  <2>2. Linear(dn, (D \cup G) \cup {o}, b0, b)
    BY <1>2, <2>1, LinearOneMore
  <2>. QED BY <2>1, <2>2
<1>. HIDE DEF Done
<1>5. PICK m \in N : \A k \in N : m <= k
  <2>1. N \in SUBSET Nat
    BY <1>3
  <2>2. N # {}
    BY <1>1
  <2>. HIDE DEF N
  <2>. QED BY <2>1, <2>2, LeastNumber
<1>6. PICK G \in SUBSET F : Done(G) /\ m = Cardinality(F \ G)
  OBVIOUS
<1>7. F \ G = {}
  <2>. SUFFICES ASSUME NEW o \in F \ G PROVE FALSE
    OBVIOUS
  <2>1. Done(G \cup {o}) /\ G \cup {o} \in SUBSET F /\ F \ (G \cup {o}) = (F \ G) \ {o}
    BY <1>4, <1>6
  <2>2. Cardinality((F \ G) \ {o}) = m - 1
    BY <1>3, <1>6, FS_RemoveElement
  <2>3. Cardinality(F \ (G \cup {o})) \in N
    BY <2>1
  <2>4. m - 1 \in N /\ m \in Nat
    BY <1>3, <1>6, <2>1, <2>2, <2>3
  <2>. HIDE DEF N
  <2>5. m <= m - 1
    BY <1>5, <2>4
  <2>. QED BY <2>4, <2>5
<1>8. G = F
  BY <1>7
<1>. QED BY <1>6, <1>8 DEF Done

-----------------------------------------------------------------------------
(***************************************************************************)
(* The heap.                                                               *)
(***************************************************************************)
IsHeap(s, m) == \A p \in 2 .. m : s[p \div 2] >= s[p]

\* Nothing in a heap is above its root.
LEMMA HeapTop ==
  ASSUME NEW m \in Nat, NEW s, \A p \in 1 .. m : s[p] \in Int, IsHeap(s, m)
  PROVE  \A p \in 1 .. m : s[p] <= s[1]
<1>. DEFINE N == {p \in 1 .. m : ~ (s[p] <= s[1])}
<1>. SUFFICES ASSUME N # {} PROVE FALSE
  OBVIOUS
<1>1. PICK p \in N : \A k \in N : p <= k
  <2>1. N \in SUBSET Nat
    OBVIOUS
  <2>. HIDE DEF N
  <2>. QED BY <2>1, LeastNumber
<1>2. p \in 2 .. m /\ p \div 2 \in 1 .. m /\ p \div 2 < p
  BY Halves
<1>3. s[p \div 2] >= s[p] /\ ~ (s[p] <= s[1])
  BY <1>2 DEF IsHeap
<1>4. p \div 2 \in N
  <2>1. s[p \div 2] \in Int /\ s[p] \in Int /\ s[1] \in Int
    BY <1>2
  <2>. QED BY <1>2, <1>3, <2>1
<1>. QED BY <1>1, <1>2, <1>4

\* Where an element that goes up ends.
Lands(s, p, l) ==
    /\ l \in Path(p) /\ \A r \in Path(p) : l <= r /\ r < p => s[r] < s[p]
    /\ l > 1 => s[l \div 2] >= s[p]

\* The place an element goes up to exists, and Up puts it there.
LEMMA UpLands ==
  ASSUME NEW s \in Seq(Elements), NEW p \in 1 .. Len(s)
  PROVE  \E l : Lands(s, p, l) /\
             Up(s, p) = [q \in DOMAIN s |-> IF q = l THEN s[p]
                            ELSE IF q \in Path(p) /\ q > l THEN s[q \div 2] ELSE s[q]]
<1>0. /\ p \in Nat \ {0} /\ \A i \in 1 .. Len(s) : s[i] \in Int
      /\ p \in Path(p) /\ Path(p) \subseteq 1 .. p
      /\ \A q \in Path(p) : q > 1 => q \div 2 \in Path(p)
  <2>1. p \in Nat \ {0}
    OBVIOUS
  <2>2. \A i \in 1 .. Len(s) : s[i] \in Elements
    OBVIOUS
  <2>3. \A i \in 1 .. Len(s) : s[i] \in Int
    BY <2>2, QueueAssumption
  <2>. QED BY <2>1, <2>3, PathHolds
<1>. DEFINE N == {l \in Path(p) : \A r \in Path(p) : l <= r /\ r < p => s[r] < s[p]}
<1>1. PICK l \in N : \A k \in N : l <= k
  <2>1. N \in SUBSET Nat /\ p \in N
    BY <1>0
  <2>. HIDE DEF N
  <2>. QED BY <2>1, LeastNumber
<1>2. l > 1 => s[l \div 2] >= s[p]
  <2>. SUFFICES ASSUME l > 1, ~ (s[l \div 2] >= s[p]) PROVE FALSE
    OBVIOUS
  <2>. DEFINE h == l \div 2
  <2>1. l \in Nat /\ h \in Path(p) /\ h \in Nat /\ h < l
    BY <1>0
  <2>2. \A r \in Path(p) : r >= l \/ r <= h
    <3>1. \A r \in Path(p) : r < l => r <= h
      BY <1>0, PathGoesOn
    <3>2. \A r \in Path(p) : r \in Nat
      BY <1>0
    <3>. QED BY <2>1, <3>1, <3>2
  <2>3. s[h] \in Int /\ s[p] \in Int
    BY <1>0, <2>1
  <2>4. s[h] < s[p]
    BY <2>3
  <2>. HIDE DEF h
  <2>5. ASSUME NEW r \in Path(p), h <= r, r < p PROVE s[r] < s[p]
    <3>1. r = h \/ r >= l
      BY <1>0, <2>1, <2>2, <2>5
    <3>2. r >= l => l <= r
      BY <1>0, <2>1
    <3>. QED BY <2>4, <2>5, <3>1, <3>2
  <2>6. h \in N
    BY <2>1, <2>5
  <2>. HIDE DEF N
  <2>. QED BY <1>1, <2>1, <2>6
<1>3. Lands(s, p, l)
  BY <1>2 DEF Lands
<1>. DEFINE ends(q) == /\ \A r \in Path(p) : q <= r /\ r < p => s[r] < s[p]
                       /\ q > 1 => s[q \div 2] >= s[p]
            land == CHOOSE q \in Path(p) : ends(q)
<1>4. land \in Path(p) /\ ends(land)
  <2>1. \E q \in Path(p) : ends(q)
    BY <1>3 DEF Lands
  <2>. HIDE DEF ends
  <2>. QED BY <2>1
<1>5. Lands(s, p, land)
  BY <1>4 DEF Lands
<1>6. Up(s, p) = [q \in DOMAIN s |-> IF q = land THEN s[p]
                            ELSE IF q \in Path(p) /\ q > land THEN s[q \div 2] ELSE s[q]]
  BY DEF Up
<1>. HIDE DEF land
<1>. QED BY <1>5, <1>6

\* The heap is one longer, and what the vector holds is the same.
LEMMA UpKeeps ==
  ASSUME NEW s \in Seq(Elements), NEW p \in 1 .. Len(s), IsHeap(s, p - 1)
  PROVE  /\ Up(s, p) \in Seq(Elements) /\ Len(Up(s, p)) = Len(s)
         /\ IsHeap(Up(s, p), p)
         /\ Bag(Up(s, p), 1 .. Len(s)) = Bag(s, 1 .. Len(s))
<1>0. /\ p \in Nat \ {0} /\ Len(s) \in Nat /\ DOMAIN s = 1 .. Len(s) /\ \A i \in 1 .. Len(s) : s[i] \in Elements
      /\ p \in Path(p) /\ Path(p) \subseteq 1 .. p /\ 1 \in Path(p)
      /\ \A q \in Path(p) : q > 1 => q \div 2 \in Path(p)
  BY PathHolds, PathTop
<1>1. PICK l : Lands(s, p, l) /\
             Up(s, p) = [q \in DOMAIN s |-> IF q = l THEN s[p]
                            ELSE IF q \in Path(p) /\ q > l THEN s[q \div 2] ELSE s[q]]
  BY UpLands
<1>. DEFINE u == Up(s, p)
<1>2. /\ l \in Path(p) /\ \A r \in Path(p) : l <= r /\ r < p => s[r] < s[p]
      /\ l > 1 => s[l \div 2] >= s[p]
      /\ l \in 1 .. p
  BY <1>0, <1>1 DEF Lands
<1>3. /\ DOMAIN u = 1 .. Len(s) /\ u[l] = s[p]
      /\ \A q \in Path(p) : q > l => u[q] = s[q \div 2]
      /\ \A q \in 1 .. Len(s) : q \notin Path(p) \/ q < l => u[q] = s[q]
  BY <1>0, <1>1, <1>2
<1>4. \A q \in 1 .. Len(s) : q = l \/ (q \in Path(p) /\ q > l) \/ q \notin Path(p) \/ q < l
  BY <1>2
<1>5. u = [q \in 1 .. Len(s) |-> u[q]]
  BY <1>0, <1>1
<1>. HIDE DEF u
<1>6. \A q \in 1 .. Len(s) : u[q] \in Elements
  <2>. SUFFICES ASSUME NEW q \in 1 .. Len(s) PROVE u[q] \in Elements
    OBVIOUS
  <2>1. CASE q = l
    BY <1>0, <1>3, <2>1
  <2>2. CASE q \in Path(p) /\ q > l
    <3>1. q \div 2 \in 1 .. Len(s)
      BY <1>0, <1>2, <2>2
    <3>. QED BY <1>0, <1>3, <2>2, <3>1
  <2>3. CASE q \notin Path(p) \/ q < l
    BY <1>0, <1>3, <2>3
  <2>. QED BY <1>4, <2>1, <2>2, <2>3
<1>7. u \in Seq(Elements) /\ Len(u) = Len(s)
  BY <1>0, <1>3, <1>5, <1>6
<1>8. ASSUME NEW i \in 2 .. p PROVE u[i \div 2] >= u[i]
  <2>. DEFINE j == i \div 2
  <2>1. /\ i \in Nat /\ i > 1 /\ j \in Nat /\ j >= 1 /\ j < i /\ i \in 1 .. Len(s) /\ j \in 1 .. Len(s)
        /\ i \in Path(p) => j \in Path(p) /\ (l < i => l <= j)
    <3>1. i \in Path(p) /\ l < i => l <= j
      BY <1>0, <1>2, PathGoesOn
    <3>2. i \in Nat /\ i > 1 /\ j \in Nat /\ j >= 1 /\ j < i /\ i \in 1 .. Len(s)
      BY <1>0, Halves
    <3>3. i \in Path(p) => j \in Path(p)
      BY <1>0, <3>2
    <3>. HIDE DEF j
    <3>4. j \in 1 .. Len(s)
      BY <1>0, <3>2
    <3>. QED BY <3>1, <3>2, <3>3, <3>4
  <2>2. \A q \in 1 .. Len(s) : s[q] \in Int
    BY <1>0, QueueAssumption
  <2>3. i # p => s[j] >= s[i]
    BY <2>1 DEF IsHeap
  <2>4. j > l /\ j \in Path(p) => u[j] >= s[j]
    <3>. SUFFICES ASSUME j > l, j \in Path(p) PROVE s[j \div 2] >= s[j]
      BY <1>3
    <3>1. j \in 2 .. p - 1
      BY <1>2, <2>1
    <3>. QED BY <3>1 DEF IsHeap
  <2>. HIDE DEF j
  <2>5. CASE i = l
    <3>1. u[j] = s[j]
      BY <1>3, <2>1, <2>5
    <3>. QED BY <1>2, <1>3, <2>1, <2>5, <3>1 DEF j
  <2>6. CASE i \in Path(p) /\ i > l
    <3>1. u[i] = s[j] /\ j \in Path(p) /\ l <= j /\ s[j] \in Int
      BY <1>3, <2>1, <2>2, <2>6 DEF j
    <3>2. CASE j = l
      <4>1. s[j] < s[p] /\ u[j] = s[p] /\ s[p] \in Int
        BY <1>0, <1>2, <1>3, <2>1, <2>2, <3>1, <3>2
      <4>. QED BY <3>1, <4>1 DEF j
    <3>3. CASE j > l
      BY <2>4, <3>1, <3>3 DEF j
    <3>. QED BY <1>2, <2>1, <3>1, <3>2, <3>3
  <2>7. CASE i \notin Path(p) \/ i < l
    <3>1. u[i] = s[i] /\ i # p /\ s[j] >= s[i]
      BY <1>0, <1>2, <1>3, <2>1, <2>3, <2>7
    <3>2. CASE j = l
      <4>1. s[j] < s[p] /\ u[j] = s[p]
        BY <1>0, <1>2, <1>3, <2>1, <3>2
      <4>. QED BY <1>0, <2>1, <2>2, <3>1, <4>1 DEF j
    <3>3. CASE j > l /\ j \in Path(p)
      <4>1. u[j] >= s[j] /\ u[j] \in Int
        BY <1>6, <2>1, <2>4, <3>3, QueueAssumption
      <4>. QED BY <2>1, <2>2, <3>1, <4>1 DEF j
    <3>4. CASE j \notin Path(p) \/ j < l
      <4>1. u[j] = s[j]
        BY <1>3, <2>1, <3>4
      <4>. QED BY <3>1, <4>1 DEF j
    <3>. QED BY <1>4, <2>1, <3>2, <3>3, <3>4
  <2>. QED BY <1>4, <2>1, <2>5, <2>6, <2>7
<1>9. Bag(u, 1 .. Len(s)) = Bag(s, 1 .. Len(s))
  <2>. DEFINE f == [q \in 1 .. Len(s) |-> IF q = l THEN p ELSE IF q \in Path(p) /\ q > l THEN q \div 2 ELSE q]
              I == 1 .. Len(s)
  <2>0. /\ p \in I /\ l \in I /\ f[l] = p
        /\ \A q \in Path(p) : q > l => f[q] = q \div 2
        /\ \A q \in I : q \notin Path(p) \/ q < l => f[q] = q
    BY <1>0, <1>2
  <2>1. \A q \in Path(p) : q > l => q \div 2 \in I /\ q \div 2 \in Path(p) /\ q \div 2 >= l /\ q \div 2 < p
    <3>. SUFFICES ASSUME NEW q \in Path(p), q > l
                  PROVE q \div 2 \in I /\ q \div 2 \in Path(p) /\ q \div 2 >= l /\ q \div 2 < p
      OBVIOUS
    <3>1. q \in 1 .. p /\ q > 1 /\ q \div 2 \in Path(p) /\ q \div 2 < q
      BY <1>0, <1>2
    <3>2. l < q => l <= q \div 2
      BY <1>0, <1>2, PathGoesOn
    <3>. QED BY <1>0, <1>2, <3>1, <3>2
  <2>2. f \in [I -> I] /\ \A q \in I : u[q] = s[f[q]]
    <3>1. \A q \in I : f[q] \in I
      BY <1>4, <2>0, <2>1
    <3>2. \A q \in I : u[q] = s[f[q]]
      BY <1>3, <1>4, <2>0
    <3>. QED BY <3>1, <3>2
  <2>. HIDE DEF f
  <2>3. ASSUME NEW i \in I, NEW j \in I, f[i] = f[j] PROVE i = j
    <3>. DEFINE Low(q) == q \notin Path(p) \/ q < l
                On(q) == q \in Path(p) /\ q > l
    <3>1. /\ (i = l \/ On(i) \/ Low(i)) /\ (j = l \/ On(j) \/ Low(j))
          /\ Low(p) => FALSE
      BY <1>0, <1>2, <1>4
    <3>2. \A q \in I : /\ On(q) => f[q] \in Path(p) /\ ~ (f[q] < l) /\ f[q] # p
                       /\ Low(q) => f[q] = q
      BY <1>0, <1>2, <2>0, <2>1
    <3>3. On(i) /\ On(j) => i = j
      <4>. SUFFICES ASSUME On(i), On(j) PROVE i = j
        OBVIOUS
      <4>1. i > 1 /\ j > 1 /\ i \div 2 = j \div 2
        BY <1>2, <2>0, <2>3
      <4>. QED BY <1>0, <4>1, PathHalvesDiffer
    <3>. QED BY <2>0, <2>3, <3>1, <3>2, <3>3
  <2>4. ASSUME NEW j \in I PROVE \E i \in I : f[i] = j
    <3>1. CASE j \notin Path(p) \/ j < l
      BY <2>0, <3>1
    <3>2. CASE j = p
      BY <2>0, <3>2
    <3>3. CASE j \in Path(p) /\ ~ (j < l) /\ j # p
      <4>1. PICK r \in Path(p) : r > 1 /\ r \div 2 = j /\ r > j
        BY <1>0, <3>3, PathBelow
      <4>2. r > l /\ r \in I
        BY <1>0, <1>2, <3>3, <4>1
      <4>. QED BY <2>0, <4>1, <4>2
    <3>. QED BY <3>1, <3>2, <3>3
  <2>5. f \in Bijection(I, I)
    BY <2>2, <2>3, <2>4 DEF Bijection, Injection, Surjection, IsInjective
  <2>6. IsFiniteSet(I)
    BY <1>0, FS_Interval
  <2>. HIDE DEF I
  <2>7. Bag(u, I) = Bag(s, I)
    BY <2>2, <2>5, <2>6, BagMoved
  <2>. QED BY <2>7 DEF I
<1>. QED BY <1>7, <1>8, <1>9 DEF u, IsHeap

-----------------------------------------------------------------------------
(***************************************************************************)
(* The root is taken away.                                                 *)
(***************************************************************************)
QueueFits == c \in Seq(Elements) /\ mark \in 0 .. Len(c) /\ IsHeap(c, mark)

\* The larger child of q is one of its two, and not below the other.
LEMMA LargerIs ==
  ASSUME QueueFits, NEW q \in Nat \ {0}, 2 * q <= mark
  PROVE  /\ Larger(q) \in Nat /\ Larger(q) > q /\ Larger(q) <= mark /\ Larger(q) \div 2 = q
         /\ \A i \in 2 .. mark : i \div 2 = q => c[i] <= c[Larger(q)]
<1>1. mark \in Nat /\ \A i \in 1 .. mark : c[i] \in Int
  <2>1. mark \in Nat /\ \A i \in 1 .. mark : c[i] \in Elements
    BY DEF QueueFits
  <2>. QED BY <2>1, QueueAssumption
<1>2. Larger(q) = IF 2 * q + 1 <= mark /\ c[2 * q] < c[2 * q + 1] THEN 2 * q + 1 ELSE 2 * q
  BY DEF Larger
<1>3. Larger(q) \in Nat /\ Larger(q) > q /\ Larger(q) <= mark /\ Larger(q) \div 2 = q
  BY <1>1, <1>2
<1>4. ASSUME NEW i \in 2 .. mark, i \div 2 = q PROVE c[i] <= c[Larger(q)]
  <2>1. i = 2 * q \/ i = 2 * q + 1
    BY <1>4
  <2>2. c[i] \in Int /\ c[2 * q] \in Int
    BY <1>1, <1>4
  <2>. QED BY <1>1, <1>2, <2>1, <2>2
<1>. QED BY <1>3, <1>4

\* Where the last element goes down to, and what comes up there.
Passes(q) == \A r \in Path(q) \ {1} : r <= mark /\ r = Larger(r \div 2) /\ c[r] >= c[Len(c)]
Ends(q) == Passes(q) /\ (2 * q > mark \/ c[Larger(q)] < c[Len(c)])
Below(l, p) == CHOOSE q \in Path(l) : q \div 2 = p
From(l, p) == IF p = l THEN Len(c) ELSE IF p \in Path(l) THEN Below(l, p) ELSE p

\* The last element can go down somewhere.
LEMMA LandingExists ==
  ASSUME QueueFits, c # <<>>
  PROVE  \E q \in 1 .. Len(c) : Ends(q)
<1>0. /\ mark \in Nat /\ Len(c) \in Nat /\ Len(c) >= 1 /\ mark <= Len(c)
      /\ \A i \in 1 .. Len(c) : c[i] \in Int
  <2>1. mark \in Nat /\ Len(c) \in Nat /\ Len(c) >= 1 /\ mark <= Len(c) /\ \A i \in 1 .. Len(c) : c[i] \in Elements
    BY DEF QueueFits
  <2>. QED BY <2>1, QueueAssumption
<1>. DEFINE N == {Len(c) - q : q \in {q \in 1 .. Len(c) : Passes(q)}}
<1>1. PICK l \in 1 .. Len(c) : Passes(l) /\ \A q \in 1 .. Len(c) : Passes(q) => q <= l
  <2>1. 1 \in Nat \ {0} /\ Path(1) \subseteq 1 .. 1
    BY PathHolds
  <2>2. Passes(1)
    BY <2>1 DEF Passes
  <2>3. N \in SUBSET Nat /\ N # {}
    <3>1. 1 \in 1 .. Len(c)
      BY <1>0
    <3>2. \A q \in 1 .. Len(c) : Len(c) - q \in Nat
      BY <1>0
    <3>. QED BY <2>2, <3>1, <3>2
  <2>4. PICK n \in N : \A k \in N : n <= k
    <3>. HIDE DEF N
    <3>. QED BY <2>3, LeastNumber
  <2>5. PICK q \in 1 .. Len(c) : Passes(q) /\ n = Len(c) - q
    OBVIOUS
  <2>6. ASSUME NEW r \in 1 .. Len(c), Passes(r) PROVE r <= q
    <3>1. Len(c) - r \in N
      BY <2>6
    <3>2. Len(c) - q <= Len(c) - r
      BY <2>4, <2>5, <3>1
    <3>. QED BY <1>0, <3>2
  <2>. QED BY <2>5, <2>6
<1>2. 2 * l > mark \/ c[Larger(l)] < c[Len(c)]
  <2>. SUFFICES ASSUME 2 * l <= mark, ~ (c[Larger(l)] < c[Len(c)]) PROVE FALSE
    BY <1>0
  <2>. DEFINE g == Larger(l)
  <2>1. l \in Nat \ {0}
    OBVIOUS
  <2>2. g \in Nat /\ g > l /\ g <= mark /\ g \div 2 = l
    BY <2>1, LargerIs
  <2>3. g \in 1 .. Len(c) /\ g > 1
    BY <1>0, <2>1, <2>2
  <2>4. c[g] >= c[Len(c)]
    <3>1. Len(c) \in 1 .. Len(c)
      BY <1>0
    <3>2. c[g] \in Int /\ c[Len(c)] \in Int
      BY <1>0, <2>3, <3>1
    <3>. QED BY <3>2
  <2>5. g = Larger(g \div 2)
    BY <2>2
  <2>. HIDE DEF g
  <2>6. Path(g) = {g} \cup Path(l)
    BY <2>2, <2>3, PathFromHalf
  <2>7. Passes(g)
    BY <1>1, <2>2, <2>4, <2>5, <2>6 DEF Passes
  <2>. QED BY <1>1, <2>2, <2>3, <2>7
<1>. QED BY <1>1, <1>2 DEF Ends

\* Reheap takes it there, and moves up what it passes.
LEMMA ReheapLands ==
  ASSUME QueueFits, c # <<>>, Reheap
  PROVE  \E l \in 1 .. Len(c) :
            /\ Ends(l)
            /\ c' = [p \in 1 .. Len(c) - 1 |-> c[From(l, p)]]
            /\ mark' = IF mark > Len(c) - 1 THEN Len(c) - 1 ELSE mark
<1>. DEFINE l == CHOOSE q \in 1 .. Len(c) : Ends(q)
<1>1. l \in 1 .. Len(c) /\ Ends(l)
  BY LandingExists
<1>2. /\ c' = [p \in 1 .. Len(c) - 1 |->
                  IF p = l THEN c[Len(c)] ELSE IF p \in Path(l) THEN c[Below(l, p)] ELSE c[p]]
      /\ mark' = IF mark > Len(c) - 1 THEN Len(c) - 1 ELSE mark
  BY DEF Reheap, Ends, Passes, Below
<1>. HIDE DEF l
<1>3. c' = [p \in 1 .. Len(c) - 1 |-> c[From(l, p)]]
  BY <1>2 DEF From
<1>. QED BY <1>1, <1>2, <1>3

\* What each position gets: the last element, a child, or what it had.
LEMMA FromIs ==
  ASSUME QueueFits, NEW l \in 1 .. Len(c), Ends(l)
  PROVE  /\ l \in Path(l) /\ Path(l) \subseteq 1 .. l /\ 1 \in Path(l)
         /\ \A q \in Path(l) : q > 1 => q \div 2 \in Path(l) /\ q <= mark /\ q = Larger(q \div 2) /\ c[q] >= c[Len(c)]
         /\ From(l, l) = Len(c)
         /\ \A p \in Path(l) \ {l} : /\ From(l, p) \in Path(l) /\ From(l, p) > 1 /\ From(l, p) \div 2 = p
                                     /\ From(l, p) = Larger(p) /\ From(l, p) > p
         /\ \A p \in Nat \ Path(l) : From(l, p) = p
<1>0. l \in Nat \ {0}
  BY DEF QueueFits
<1>1. /\ l \in Path(l) /\ Path(l) \subseteq 1 .. l /\ 1 \in Path(l)
      /\ \A q \in Path(l) : q > 1 => q \div 2 \in Path(l)
  BY <1>0, PathHolds, PathTop
<1>2. \A q \in Path(l) : q > 1 => q <= mark /\ q = Larger(q \div 2) /\ c[q] >= c[Len(c)]
  <2>1. \A q \in Path(l) \ {1} : q <= mark /\ q = Larger(q \div 2) /\ c[q] >= c[Len(c)]
    BY DEF Ends, Passes
  <2>. QED BY <2>1
<1>3. ASSUME NEW p \in Path(l) \ {l}
      PROVE  /\ From(l, p) \in Path(l) /\ From(l, p) > 1 /\ From(l, p) \div 2 = p
             /\ From(l, p) = Larger(p) /\ From(l, p) > p
  <2>1. From(l, p) = Below(l, p)
    BY DEF From
  <2>2. \E q \in Path(l) : q \div 2 = p
    BY <1>0, PathBelow
  <2>3. Below(l, p) \in Path(l) /\ Below(l, p) \div 2 = p
    BY <2>2 DEF Below
  <2>. DEFINE b == Below(l, p)
  <2>4. b \in Nat /\ p \in Nat /\ p >= 1 /\ b \div 2 = p
    BY <1>1, <2>3
  <2>. HIDE DEF b
  <2>5. b > 1 /\ b > p
    BY <2>4
  <2>6. b = Larger(b \div 2)
    BY <1>2, <2>3, <2>5 DEF b
  <2>. QED BY <2>1, <2>3, <2>4, <2>5, <2>6 DEF b
<1>4. From(l, l) = Len(c) /\ \A p \in Nat \ Path(l) : From(l, p) = p
  BY <1>1 DEF From
<1>. QED BY <1>1, <1>2, <1>3, <1>4

\* A heap remains,
LEMMA ReheapHeap ==
  ASSUME QueueFits, c # <<>>, NEW l \in 1 .. Len(c), Ends(l), NEW s,
         \A p \in 1 .. Len(c) - 1 : s[p] = c[From(l, p)],
         NEW m \in Nat, m <= mark, m <= Len(c) - 1
  PROVE  IsHeap(s, m)
<1>0. /\ mark \in Nat /\ Len(c) \in Nat /\ Len(c) >= 1 /\ mark <= Len(c)
      /\ \A i \in 1 .. Len(c) : c[i] \in Int
      /\ \A i \in 2 .. mark : c[i \div 2] >= c[i]
  <2>1. mark \in Nat /\ Len(c) \in Nat /\ Len(c) >= 1 /\ mark <= Len(c) /\ \A i \in 1 .. Len(c) : c[i] \in Elements
    BY DEF QueueFits
  <2>. QED BY <2>1, QueueAssumption DEF QueueFits, IsHeap
<1>1. /\ l \in Path(l) /\ Path(l) \subseteq 1 .. l /\ 1 \in Path(l)
      /\ \A q \in Path(l) : q > 1 => q \div 2 \in Path(l) /\ q <= mark /\ q = Larger(q \div 2) /\ c[q] >= c[Len(c)]
      /\ From(l, l) = Len(c)
      /\ \A p \in Path(l) \ {l} : /\ From(l, p) \in Path(l) /\ From(l, p) > 1 /\ From(l, p) \div 2 = p
                                  /\ From(l, p) = Larger(p) /\ From(l, p) > p
      /\ \A p \in Nat \ Path(l) : From(l, p) = p
  BY FromIs
<1>2. ASSUME NEW i \in 2 .. m PROVE s[i \div 2] >= s[i]
  <2>. DEFINE j == i \div 2
  <2>1. /\ i \in 2 .. mark /\ i \in 1 .. Len(c) - 1 /\ j \in 1 .. Len(c) - 1 /\ j \in Nat \ {0}
        /\ i \in 1 .. Len(c) /\ j \in 1 .. Len(c) /\ j < i /\ 2 * j <= mark
    BY <1>0
  <2>2. s[i] = c[From(l, i)] /\ s[j] = c[From(l, j)] /\ c[j] >= c[i]
    BY <1>0, <2>1
  <2>3. Larger(j) \in Nat /\ Larger(j) <= mark /\ Larger(j) >= 1 /\ c[i] <= c[Larger(j)]
    <3>1. i \div 2 = j
      OBVIOUS
    <3>. HIDE DEF j
    <3>. QED BY <2>1, <3>1, LargerIs
  <2>4. i \in Path(l) => j \in Path(l)
    BY <1>1, <2>1
  <2>5. j = i \div 2
    OBVIOUS
  <2>. HIDE DEF j
  <2>6. Larger(j) \in 1 .. Len(c) /\ c[Larger(j)] \in Int /\ c[i] \in Int /\ c[Len(c)] \in Int
    <3>1. Larger(j) \in 1 .. Len(c) /\ Len(c) \in 1 .. Len(c)
      BY <1>0, <2>3
    <3>. QED BY <1>0, <2>1, <3>1
  <2>7. CASE j = l
    <3>1. i \notin Path(l) /\ i \in Nat
      BY <1>1, <2>1, <2>7
    <3>2. s[i] = c[i] /\ s[j] = c[Len(c)]
      BY <1>1, <2>2, <2>7, <3>1
    <3>3. c[Larger(j)] < c[Len(c)]
      BY <1>0, <2>1, <2>7 DEF Ends
    <3>. QED BY <2>3, <2>5, <2>6, <3>2, <3>3
  <2>8. CASE j \in Path(l) \ {l}
    <3>1. From(l, j) = Larger(j) /\ Larger(j) \in Path(l) /\ Larger(j) > 1
      BY <1>1, <2>8
    <3>2. s[j] = c[Larger(j)] /\ c[Larger(j)] >= c[Len(c)]
      BY <1>1, <2>2, <3>1
    <3>3. CASE i = l
      BY <1>1, <2>2, <2>5, <3>2, <3>3
    <3>4. CASE i \in Path(l) \ {l}
      <4>. DEFINE b == From(l, i)
      <4>1. b \in Path(l) /\ b > 1 /\ b \div 2 = i
        BY <1>1, <3>4
      <4>2. b \in Nat /\ b <= mark
        BY <1>1, <4>1
      <4>3. b \in 2 .. mark /\ b \in 1 .. Len(c)
        BY <1>0, <4>1, <4>2
      <4>4. c[i] >= c[b] /\ c[b] \in Int
        BY <1>0, <4>1, <4>3
      <4>. QED BY <2>2, <2>3, <2>5, <2>6, <3>2, <4>4
    <3>5. CASE i \notin Path(l)
      <4>1. From(l, i) = i
        BY <1>1, <2>1, <3>5
      <4>. QED BY <2>2, <2>3, <2>5, <2>6, <3>2, <4>1
    <3>. QED BY <3>3, <3>4, <3>5
  <2>9. CASE j \notin Path(l)
    <3>1. From(l, i) = i /\ From(l, j) = j
      BY <1>1, <2>1, <2>4, <2>9
    <3>. QED BY <2>2, <2>5, <3>1
  <2>. QED BY <2>7, <2>8, <2>9
<1>. QED BY <1>2 DEF IsHeap

\* of what it held without the root, and with the last element.
LEMMA ReheapBag ==
  ASSUME QueueFits, c # <<>>, mark > 0, NEW l \in 1 .. Len(c), Ends(l), NEW s,
         \A p \in 1 .. Len(c) - 1 : s[p] = c[From(l, p)],
         NEW m \in Nat, m = IF mark > Len(c) - 1 THEN Len(c) - 1 ELSE mark
  PROVE  /\ Bag(s, 1 .. m) = Bag(c, ((1 .. mark) \cup {Len(c)}) \ {1})
         /\ \A p \in m + 1 .. Len(c) - 1 : s[p] = c[p]
<1>. DEFINE N == Len(c)
            I == 1 .. m
            J == ((1 .. mark) \cup {N}) \ {1}
            f == [p \in I |-> From(l, p)]
<1>0. /\ mark \in Nat /\ N \in Nat /\ N >= 1 /\ mark <= N /\ mark >= 1 /\ l \in 1 .. N
      /\ m <= mark /\ m <= N - 1 /\ (mark <= N - 1 => m = mark) /\ (mark = N => m = N - 1)
  BY DEF QueueFits
<1>1. /\ l \in Path(l) /\ Path(l) \subseteq 1 .. l /\ 1 \in Path(l)
      /\ \A q \in Path(l) : q > 1 => q \div 2 \in Path(l) /\ q <= mark
      /\ From(l, l) = N
      /\ \A p \in Path(l) \ {l} : /\ From(l, p) \in Path(l) /\ From(l, p) > 1 /\ From(l, p) \div 2 = p
                                  /\ From(l, p) > p
      /\ \A p \in Nat \ Path(l) : From(l, p) = p
  BY FromIs
<1>2. \A q \in Path(l) : q \in Nat /\ q <= l /\ q <= mark /\ q >= 1
  <2>1. \A q \in Path(l) : q \in Nat /\ q >= 1 /\ q <= l
    BY <1>0, <1>1
  <2>2. \A q \in Path(l) : q = 1 => q <= mark
    BY <1>0
  <2>. QED BY <1>1, <2>1, <2>2
<1>. HIDE DEF N
<1>3. l <= mark
  BY <1>1, <1>2
<1>4. \A p \in m + 1 .. N - 1 : From(l, p) = p
  <2>. SUFFICES ASSUME NEW p \in m + 1 .. N - 1 PROVE From(l, p) = p
    OBVIOUS
  <2>1. p \in Nat /\ p > mark
    BY <1>0
  <2>. QED BY <1>0, <1>1, <1>2, <2>1
<1>5. \A p \in I : /\ p = l => f[p] = N
                   /\ p \in Path(l) \ {l} => /\ f[p] \in Path(l) /\ f[p] \in 2 .. mark /\ f[p] \div 2 = p
                                             /\ (f[p] = N => l = N)
                   /\ p \notin Path(l) => f[p] = p /\ p # N /\ p # 1 /\ p \in 2 .. mark
  <2>. SUFFICES ASSUME NEW p \in I
                PROVE /\ p = l => From(l, p) = N
                      /\ p \in Path(l) \ {l} => /\ From(l, p) \in Path(l) /\ From(l, p) \in 2 .. mark
                                               /\ From(l, p) \div 2 = p /\ (From(l, p) = N => l = N)
                      /\ p \notin Path(l) => From(l, p) = p /\ p # N /\ p # 1 /\ p \in 2 .. mark
    OBVIOUS
  <2>0. p \in Nat /\ p <= m /\ p >= 1
    BY <1>0
  <2>1. p = l => From(l, p) = N
    BY <1>1
  <2>2. ASSUME p \in Path(l) \ {l}
        PROVE /\ From(l, p) \in Path(l) /\ From(l, p) \in 2 .. mark
              /\ From(l, p) \div 2 = p
    <3>1. From(l, p) \in Path(l) /\ From(l, p) > 1 /\ From(l, p) \div 2 = p
      BY <1>1, <2>2
    <3>2. From(l, p) \in Nat /\ From(l, p) <= mark
      BY <1>2, <3>1
    <3>. QED BY <1>0, <3>1, <3>2
  <2>3. p \notin Path(l) => From(l, p) = p /\ p # N /\ p # 1 /\ p \in 2 .. mark
    <3>1. p \notin Path(l) => From(l, p) = p /\ p # 1
      BY <1>1, <2>0
    <3>. QED BY <1>0, <2>0, <3>1
  <2>4. ASSUME p \in Path(l) \ {l}, From(l, p) = N PROVE l = N
    <3>1. N \in Path(l)
      BY <2>2, <2>4
    <3>2. N <= l
      BY <1>2, <3>1
    <3>. QED BY <1>0, <3>2
  <2>. QED BY <2>1, <2>2, <2>3, <2>4
<1>. HIDE DEF f
<1>6. f \in [I -> J]
  <2>1. f = [p \in I |-> f[p]]
    BY DEF f
  <2>2. \A p \in I : f[p] \in J
    <3>. SUFFICES ASSUME NEW p \in I PROVE f[p] \in J
      OBVIOUS
    <3>1. N # 1
      BY <1>0
    <3>2. f[p] = N \/ f[p] \in 2 .. mark
      BY <1>5
    <3>. QED BY <3>1, <3>2
  <2>. QED BY <2>1, <2>2
<1>7. ASSUME NEW i \in I, NEW j \in I, f[i] = f[j] PROVE i = j
  <2>1. l = N => i # l /\ j # l
    BY <1>0
  <2>2. ASSUME i \in Path(l) \ {l}, j \in Path(l) \ {l} PROVE i = j
    BY <1>5, <1>7, <2>2
  <2>3. \A p \in I : /\ p = l => f[p] = N
                     /\ p \in Path(l) \ {l} => f[p] \in Path(l) /\ (f[p] = N => l = N)
                     /\ p \notin Path(l) => f[p] = p /\ p # N
    BY <1>5
  <2>4. l \in Path(l)
    BY <1>1
  <2>. HIDE DEF I
  <2>5. ASSUME NEW p \in I, NEW q \in I, f[p] = f[q], p = l, q # l PROVE q \in Path(l) /\ f[p] = N /\ l = N
    BY <2>3, <2>4, <2>5
  <2>6. ASSUME NEW p \in I, NEW q \in I, f[p] = f[q], p \notin Path(l) PROVE q \notin Path(l) /\ p = q
    <3>1. q # l
      BY <2>3, <2>6
    <3>2. q \notin Path(l)
      BY <2>3, <2>6, <3>1
    <3>. QED BY <2>3, <2>6, <3>2
  <2>. QED BY <1>7, <2>1, <2>2, <2>5, <2>6
<1>8. ASSUME NEW j \in J PROVE \E i \in I : f[i] = j
  <2>1. CASE j \in Path(l) /\ j > 1
    <3>. DEFINE p == j \div 2
    <3>1. /\ p \in Path(l) /\ j \in Nat /\ p \in Nat /\ p < j /\ j <= l /\ j <= mark /\ p >= 1
      BY <1>1, <1>2, <2>1
    <3>2. p = j \div 2
      OBVIOUS
    <3>. HIDE DEF p
    <3>3. p \in I /\ p # l
      BY <1>0, <1>2, <3>1
    <3>4. f[p] \in Path(l) /\ f[p] \div 2 = p /\ f[p] \in 2 .. mark
      BY <1>5, <3>1, <3>3
    <3>5. f[p] > 1 /\ l \in Nat \ {0} /\ f[p] \div 2 = j \div 2
      BY <1>0, <3>2, <3>4
    <3>6. f[p] = j
      BY <2>1, <3>4, <3>5, PathHalvesDiffer
    <3>. QED BY <3>3, <3>6
  <2>2. CASE j \notin Path(l) /\ j # N
    <3>1. j \in I
      BY <1>0, <2>2
    <3>. QED BY <1>5, <2>2, <3>1
  <2>3. CASE j \notin Path(l) /\ j = N
    <3>1. l # N
      BY <1>1, <2>3
    <3>2. l \in I
      BY <1>0, <1>3, <3>1
    <3>. QED BY <1>5, <2>3, <3>2
  <2>4. j > 1
    BY <1>0
  <2>. QED BY <2>1, <2>2, <2>3, <2>4
<1>9. f \in Bijection(I, J)
  BY <1>6, <1>7, <1>8 DEF Bijection, Injection, Surjection, IsInjective
<1>10. \A p \in I : s[p] = c[f[p]]
  <2>. SUFFICES ASSUME NEW p \in I PROVE s[p] = c[f[p]]
    OBVIOUS
  <2>1. p \in 1 .. N - 1
    BY <1>0
  <2>. QED BY <2>1 DEF f, N
<1>11. IsFiniteSet(I)
  <2>1. 1 \in Int /\ m \in Int
    BY <1>0
  <2>. QED BY <2>1, FS_Interval
<1>12. Bag(s, I) = Bag(c, J)
  <2>. HIDE DEF I, J
  <2>. QED BY <1>9, <1>10, <1>11, BagMoved
<1>13. \A p \in m + 1 .. N - 1 : s[p] = c[p]
  <2>. SUFFICES ASSUME NEW p \in m + 1 .. N - 1 PROVE s[p] = c[p]
    OBVIOUS
  <2>1. p \in 1 .. N - 1
    BY <1>0
  <2>. QED BY <1>4, <2>1 DEF N
<1>. QED BY <1>12, <1>13 DEF N

\* Where there is no heap, the last element takes the place of the first.
LEMMA ReheapNone ==
  ASSUME QueueFits, mark = 0, NEW l \in 1 .. Len(c), Ends(l)
  PROVE  l = 1 /\ From(l, 1) = Len(c) /\ \A p \in 2 .. Len(c) - 1 : From(l, p) = p
<1>1. /\ l \in Path(l) /\ Path(l) \subseteq 1 .. l
      /\ \A q \in Path(l) : q > 1 => q <= mark
      /\ From(l, l) = Len(c)
      /\ \A p \in Nat \ Path(l) : From(l, p) = p
  BY FromIs
<1>2. l = 1
  BY <1>1
<1>3. \A p \in 2 .. Len(c) - 1 : p \in Nat \ Path(l)
  BY <1>1, <1>2 DEF QueueFits
<1>. QED BY <1>1, <1>2, <1>3

-----------------------------------------------------------------------------
(***************************************************************************)
(* What follows the heap is sorted in.                                     *)
(***************************************************************************)
SortsTo(f, n) ==
    /\ f = [k \in mark .. n |-> f[k]] /\ f[mark] = c
    /\ \A k \in mark + 1 .. n : f[k] = Up(f[k - 1], k)

\* The recursion of Heapified has a solution,
LEMMA SortsExist ==
  ASSUME QueueFits
  PROVE  \E f : SortsTo(f, Len(c))
<1>0. mark \in Nat /\ Len(c) \in Nat /\ mark <= Len(c)
  BY DEF QueueFits
<1>. DEFINE N == {k \in Nat : \E f : SortsTo(f, mark + k)}
<1>1. 0 \in N
  <2>. DEFINE f == [k \in mark .. mark |-> c]
  <2>1. mark + 0 = mark /\ mark + 1 .. mark = {} /\ mark \in mark .. mark
    BY <1>0
  <2>2. f = [k \in mark .. mark |-> f[k]] /\ f[mark] = c
    BY <2>1
  <2>. HIDE DEF f
  <2>3. SortsTo(f, mark + 0)
    BY <2>1, <2>2 DEF SortsTo
  <2>. QED BY <2>3
<1>2. ASSUME NEW k \in N PROVE k + 1 \in N
  <2>0. k \in Nat /\ \E f : SortsTo(f, mark + k)
    BY Zenon
  <2>1. PICK f : SortsTo(f, mark + k)
    BY <2>0
  <2>. DEFINE n == mark + k
              x == Up(f[n], n + 1)
              g == [i \in mark .. n + 1 |-> IF i = n + 1 THEN x ELSE f[i]]
  <2>2. /\ n \in Nat /\ mark <= n /\ n + 1 = mark + (k + 1)
        /\ \A i \in mark .. n : i \in mark .. n + 1 /\ i # n + 1
        /\ \A i \in mark + 1 .. n + 1 : i - 1 \in mark .. n + 1 /\ i \in mark .. n + 1 /\ i - 1 # n + 1
        /\ \A i \in mark + 1 .. n + 1 : i = n + 1 \/ i \in mark + 1 .. n
        /\ mark \in mark .. n /\ (n + 1) - 1 = n
    BY <1>0, <2>0
  <2>3. f[mark] = c /\ \A i \in mark + 1 .. n : f[i] = Up(f[i - 1], i)
    BY <2>1 DEF SortsTo
  <2>. HIDE DEF n
  <2>4. g = [i \in mark .. n + 1 |-> g[i]] /\ g[mark] = c
    <3>. HIDE DEF x
    <3>. QED BY <2>2, <2>3
  <2>5. ASSUME NEW i \in mark + 1 .. n + 1 PROVE g[i] = Up(g[i - 1], i)
    <3>1. CASE i = n + 1
      <4>1. g[i] = x /\ i - 1 = n /\ g[n] = f[n]
        <5>. HIDE DEF x
        <5>. QED BY <2>2, <3>1
      <4>. QED BY <3>1, <4>1
    <3>2. CASE i # n + 1
      <4>1. g[i] = f[i] /\ g[i - 1] = f[i - 1] /\ i \in mark + 1 .. n
        <5>. HIDE DEF x
        <5>. QED BY <2>2, <3>2
      <4>. HIDE DEF g
      <4>. QED BY <2>3, <4>1
    <3>. QED BY <3>1, <3>2
  <2>. HIDE DEF g
  <2>6. SortsTo(g, n + 1)
    BY <2>4, <2>5 DEF SortsTo
  <2>. QED BY <2>0, <2>2, <2>6
<1>3. N = Nat
  <2>1. N \in SUBSET Nat
    OBVIOUS
  <2>. HIDE DEF N
  <2>. QED BY <1>1, <1>2, <2>1, SetInduction
<1>4. Len(c) - mark \in N /\ mark + (Len(c) - mark) = Len(c)
  <2>1. Len(c) - mark \in Nat /\ mark + (Len(c) - mark) = Len(c)
    BY <1>0
  <2>. HIDE DEF N
  <2>. QED BY <1>3, <2>1
<1>. QED BY <1>4

\* Sorted in up to n.
SortedTo(s, n) ==
    /\ s \in Seq(Elements) /\ Len(s) = Len(c) /\ IsHeap(s, n)
    /\ Bag(s, 1 .. Len(s)) = Bag(c, 1 .. Len(c))

\* which is a heap of the same elements.
LEMMA HeapifiedIs ==
  ASSUME QueueFits
  PROVE  SortedTo(Heapified, Len(c))
<1>0. mark \in Nat /\ Len(c) \in Nat /\ mark <= Len(c)
  BY DEF QueueFits
<1>. DEFINE Is(h) == h = [n \in mark .. Len(c) |-> IF n = mark THEN c ELSE Up(h[n - 1], n)]
            sorted == CHOOSE h : Is(h)
<1>1. PICK f : SortsTo(f, Len(c))
  BY SortsExist
<1>2. Is(f)
  <2>1. \A n \in mark .. Len(c) : f[n] = IF n = mark THEN c ELSE Up(f[n - 1], n)
    <3>. TAKE n \in mark .. Len(c)
    <3>1. CASE n = mark
      BY <1>1, <3>1 DEF SortsTo
    <3>2. CASE n # mark
      <4>1. n \in mark + 1 .. Len(c)
        BY <1>0, <3>2
      <4>. QED BY <1>1, <3>2, <4>1, Zenon DEF SortsTo
    <3>. QED BY <3>1, <3>2
  <2>2. f = [n \in mark .. Len(c) |-> f[n]]
    BY <1>1 DEF SortsTo
  <2>. QED BY <2>1, <2>2, Zenon
<1>3. Is(sorted)
  BY <1>2, Zenon
<1>4. Heapified = sorted[Len(c)]
  BY DEF Heapified
<1>5. \A n \in mark .. Len(c) : sorted[n] = IF n = mark THEN c ELSE Up(sorted[n - 1], n)
  <2>. HIDE DEF sorted
  <2>. QED BY <1>3
<1>. HIDE DEF sorted
<1>. DEFINE N == {k \in Nat : mark + k <= Len(c) => SortedTo(sorted[mark + k], mark + k)}
<1>6. 0 \in N
  <2>1. mark + 0 = mark /\ mark \in mark .. Len(c)
    BY <1>0
  <2>2. SortedTo(c, mark)
    BY DEF SortedTo, QueueFits
  <2>3. sorted[mark] = c
    BY <1>5, <2>1
  <2>. QED BY <2>1, <2>2, <2>3
<1>7. ASSUME NEW k \in N PROVE k + 1 \in N
  <2>0. k \in Nat /\ (mark + k <= Len(c) => SortedTo(sorted[mark + k], mark + k))
    BY Zenon
  <2>. SUFFICES ASSUME mark + (k + 1) <= Len(c) PROVE SortedTo(sorted[mark + (k + 1)], mark + (k + 1))
    <3>1. k + 1 \in Nat
      BY <2>0
    <3>. QED BY <3>1
  <2>. DEFINE n == mark + (k + 1)
              s == sorted[n - 1]
  <2>1. n \in mark .. Len(c) /\ n # mark /\ n - 1 = mark + k /\ mark + k <= Len(c) /\ n \in 1 .. Len(c)
    BY <1>0, <2>0
  <2>. HIDE DEF n
  <2>2. SortedTo(s, n - 1) /\ sorted[n] = Up(s, n)
    BY <1>5, <2>0, <2>1
  <2>. HIDE DEF s
  <2>3. s \in Seq(Elements) /\ Len(s) = Len(c) /\ n \in 1 .. Len(s) /\ IsHeap(s, n - 1)
    BY <2>1, <2>2 DEF SortedTo
  <2>4. /\ Up(s, n) \in Seq(Elements) /\ Len(Up(s, n)) = Len(s)
        /\ IsHeap(Up(s, n), n)
        /\ Bag(Up(s, n), 1 .. Len(s)) = Bag(s, 1 .. Len(s))
    BY <2>3, UpKeeps
  <2>5. SortedTo(sorted[n], n)
    BY <2>2, <2>3, <2>4 DEF SortedTo
  <2>. QED BY <2>5 DEF n
<1>8. N = Nat
  <2>1. N \in SUBSET Nat
    OBVIOUS
  <2>. HIDE DEF N
  <2>. QED BY <1>6, <1>7, <2>1, SetInduction
<1>9. Len(c) - mark \in N /\ mark + (Len(c) - mark) = Len(c)
  <2>1. Len(c) - mark \in Nat /\ mark + (Len(c) - mark) = Len(c)
    BY <1>0
  <2>. HIDE DEF N
  <2>. QED BY <1>8, <2>1
<1>10. mark + (Len(c) - mark) <= Len(c)
  BY <1>0, <1>9
<1>11. SortedTo(sorted[mark + (Len(c) - mark)], mark + (Len(c) - mark))
  BY <1>9, <1>10
<1>. QED BY <1>4, <1>9, <1>11

-----------------------------------------------------------------------------
(***************************************************************************)
(* One operation more, of what is known of the elements.                   *)
(***************************************************************************)
LEMMA BagSame ==
  ASSUME NEW s, NEW r, NEW P, \A i \in P : r[i] = s[i]
  PROVE  Bag(r, P) = Bag(s, P)
<1>1. \A e \in Elements : {i \in P : r[i] = e} = {i \in P : s[i] = e}
  OBVIOUS
<1>. QED BY <1>1 DEF Bag

\* The contents of the queue are those of all its positions.
LEMMA ContentsBag ==
  ASSUME NEW s \in Seq(Elements)
  PROVE  Contents(s) = Bag(s, 1 .. Len(s)) /\ Contents(s) \in Bags
<1>1. DOMAIN s = 1 .. Len(s)
  OBVIOUS
<1>2. Contents(s) = Bag(s, 1 .. Len(s))
  BY <1>1 DEF Contents, Bag
<1>3. IsFiniteSet(1 .. Len(s))
  <2>1. 1 \in Int /\ Len(s) \in Int
    OBVIOUS
  <2>. QED BY <2>1, FS_Interval
<1>. QED BY <1>2, <1>3, BagType

\* A push of s[q], and pops that fail as they do not accept it,
LEMMA LinearGroup ==
  ASSUME NEW dn, NEW D, NEW b0, NEW s, NEW P, IsFiniteSet(P), Linear(dn, D, b0, Bag(s, P)),
         NEW q, q \notin P, \A i \in P \cup {q} : s[i] \in Elements,
         NEW G, IsFiniteSet(G), G \cap D = {}, NEW x \in G, PushOf(dn[x], s[q]),
         \A o \in G \ {x} : FailOn(dn[o], s[q]) /\ \A p \in P : s[p] <= s[q]
  PROVE  Linear(dn, D \cup G, b0, Bag(s, P \cup {q}))
<1>. DEFINE b == Bag(s, P)
            d == Bag(s, P \cup {q})
<1>1. b \in Bags /\ d \in Bags /\ d = [b EXCEPT ![s[q]] = @ + 1]
  BY BagMore
<1>2. Sequential(b, dn[x]) = [b EXCEPT ![s[q]] = @ + 1]
  <2>1. b \in Bags /\ s[q] \in Elements
    BY <1>1
  <2>. HIDE DEF b
  <2>. QED BY <2>1, SequentialPush
<1>3. Linear(dn, D \cup {x}, b0, d)
  <2>1. x \notin D /\ d = Sequential(b, dn[x])
    BY <1>1, <1>2
  <2>2. Linear(dn, D, b0, b)
    OBVIOUS
  <2>. HIDE DEF b, d
  <2>. QED BY <1>1, <2>1, <2>2, LinearOneMore
<1>4. ASSUME NEW o \in G \ {x} PROVE Sequential(d, dn[o]) = d
  <2>1. IsFiniteSet(P \cup {q})
    BY FS_AddElement
  <2>2. \A i \in P \cup {q} : s[i] <= s[q]
    <3>1. s[q] \in Int
      BY QueueAssumption
    <3>. QED BY <1>4, <3>1
  <2>3. Top(d) = s[q]
    BY <2>1, <2>2, BagTop
  <2>4. FailOn(dn[o], s[q])
    BY <1>4
  <2>. HIDE DEF d
  <2>. QED BY <1>1, <2>3, <2>4, SequentialStay DEF FailOn
<1>5. Linear(dn, (D \cup {x}) \cup (G \ {x}), b0, d)
  <2>1. IsFiniteSet(G \ {x}) /\ (G \ {x}) \cap (D \cup {x}) = {}
    BY FS_Subset
  <2>. HIDE DEF d
  <2>. QED BY <1>3, <1>4, <2>1, LinearStays
<1>6. (D \cup {x}) \cup (G \ {x}) = D \cup G
  OBVIOUS
<1>. QED BY <1>5, <1>6

\* a pop of the greatest,
LEMMA LinearPop ==
  ASSUME NEW dn, NEW D, NEW b0, NEW s, NEW P, IsFiniteSet(P), Linear(dn, D, b0, Bag(s, P)),
         NEW q \in P, \A i \in P : s[i] \in Elements, \A i \in P : s[i] <= s[q],
         NEW o, o \notin D, PopOf(dn[o], s[q])
  PROVE  Linear(dn, D \cup {o}, b0, Bag(s, P \ {q}))
<1>. DEFINE Q == P \ {q}
            b == Bag(s, P)
            d == Bag(s, Q)
<1>1. IsFiniteSet(Q) /\ q \notin Q /\ Q \cup {q} = P
  BY FS_Subset
<1>2. b \in Bags /\ d \in Bags /\ d = Without(b, s[q])
  <2>1. s[q] \in Elements
    OBVIOUS
  <2>2. ASSUME NEW R, IsFiniteSet(R), q \notin R
        PROVE  /\ Bag(s, R) = Without(Bag(s, R \cup {q}), s[q])
               /\ Bag(s, R) \in Bags /\ Bag(s, R \cup {q}) \in Bags
    BY <2>1, <2>2, BagMore
  <2>. QED BY <1>1, <2>2
<1>3. Held(b) = {s[i] : i \in P} /\ Top(b) = s[q]
  BY BagTop
<1>4. s[q] \in Elements /\ s[q] = Top(b) /\ Held(b) # {} /\ Linear(dn, D, b0, b)
  BY <1>3
<1>. HIDE DEF b, d
<1>5. Sequential(b, dn[o]) = d
  BY <1>2, <1>4, SequentialPop
<1>. QED BY <1>2, <1>4, <1>5, LinearOneMore DEF d

\* and what leaves the queue as it is.
LEMMA LinearStay ==
  ASSUME NEW dn, NEW D, NEW b0, NEW s, NEW P, IsFiniteSet(P), Linear(dn, D, b0, Bag(s, P)),
         \A i \in P : s[i] \in Elements, NEW o, o \notin D,
         \/ dn[o].op.kind = "badpush" /\ ~ dn[o].ok
         \/ /\ dn[o].op.kind \in {"pop", "pop_if"} /\ ~ dn[o].ok
            /\ P = {} \/ \E q \in P : s[q] \notin dn[o].op.arg /\ \A i \in P : s[i] <= s[q]
  PROVE  Linear(dn, D \cup {o}, b0, Bag(s, P))
<1>. DEFINE b == Bag(s, P)
<1>1. b \in Bags
  BY BagType
<1>2. Held(b) = {s[i] : i \in P} /\ \A q \in P : (\A i \in P : s[i] <= s[q]) => Top(b) = s[q]
  BY BagTop
<1>3. Sequential(b, dn[o]) = b
  <2>1. CASE dn[o].op.kind = "badpush" /\ ~ dn[o].ok
    <3>. HIDE DEF b
    <3>. QED BY <1>1, <2>1, SequentialStay
  <2>2. CASE /\ dn[o].op.kind \in {"pop", "pop_if"} /\ ~ dn[o].ok
             /\ P = {} \/ \E q \in P : s[q] \notin dn[o].op.arg /\ \A i \in P : s[i] <= s[q]
    <3>1. Held(b) # {} => Top(b) \notin dn[o].op.arg
      <4>. HIDE DEF b
      <4>. QED BY <1>2, <2>2
    <3>. HIDE DEF b
    <3>. QED BY <1>1, <2>2, <3>1, SequentialStay
  <2>. QED BY <2>1, <2>2
<1>. HIDE DEF b
<1>4. Linear(dn, D, b0, b)
  BY DEF b
<1>5. Linear(dn, D \cup {o}, b0, b)
  BY <1>1, <1>3, <1>4, LinearOneMore
<1>. QED BY <1>5 DEF b

\* Of finitely many positions one holds nothing above another.
LEMMA LeastElement ==
  ASSUME NEW T, IsFiniteSet(T), T # {}, NEW s, \A i \in T : s[i] \in Int
  PROVE  \E q \in T : \A r \in T : s[q] <= s[r]
<1>. DEFINE Less(q) == {r \in T : s[r] < s[q]}
            N == {Cardinality(Less(q)) : q \in T}
<1>1. \A q \in T : IsFiniteSet(Less(q)) /\ Cardinality(Less(q)) \in Nat
  BY FS_Subset, FS_CardinalityType
<1>2. PICK n \in N : \A k \in N : n <= k
  <2>1. N \in SUBSET Nat /\ N # {}
    BY <1>1
  <2>. HIDE DEF N
  <2>. QED BY <2>1, LeastNumber
<1>3. PICK q \in T : n = Cardinality(Less(q))
  OBVIOUS
<1>4. ASSUME NEW r \in T, ~ (s[q] <= s[r]) PROVE FALSE
  <2>1. s[r] \in Int /\ s[q] \in Int /\ s[r] < s[q]
    BY <1>4
  <2>2. r \in Less(q) /\ r \notin Less(r)
    BY <2>1
  <2>3. Less(r) \subseteq Less(q)
    <3>. SUFFICES ASSUME NEW i \in T, s[i] < s[r] PROVE s[i] < s[q]
      OBVIOUS
    <3>1. s[i] \in Int
      OBVIOUS
    <3>. QED BY <2>1, <3>1
  <2>4. Cardinality(Less(r)) \in N
    OBVIOUS
  <2>5. IsFiniteSet(Less(q)) /\ IsFiniteSet(Less(r))
    BY <1>1
  <2>. HIDE DEF Less, N
  <2>6. Cardinality(Less(r)) < Cardinality(Less(q))
    <3>1. Less(r) # Less(q)
      BY <2>2
    <3>2. Cardinality(Less(r)) <= Cardinality(Less(q)) /\ Cardinality(Less(r)) # Cardinality(Less(q))
      BY <2>3, <2>5, <3>1, FS_Subset
    <3>3. Cardinality(Less(r)) \in Nat /\ Cardinality(Less(q)) \in Nat
      BY <2>5, FS_CardinalityType
    <3>. QED BY <3>2, <3>3
  <2>7. n <= Cardinality(Less(r))
    BY <1>2, <2>4
  <2>. QED BY <1>1, <1>3, <2>6, <2>7
<1>. QED BY <1>4

-----------------------------------------------------------------------------
(***************************************************************************)
(* A batch under way.  The elements after the heap are those whose pushes  *)
(* have yet to be put in order: with each go the pops that failed on it.   *)
(***************************************************************************)
Group(dn, s, m, q, F) ==
    \E x \in F : PushOf(dn[x], s[q]) /\ \A o \in F \ {x} : FailOn(dn[o], s[q]) /\ \A p \in 1 .. m : s[p] < s[q]
Groups(dn, s, m, G) ==
    /\ G \in [m + 1 .. Len(s) -> SUBSET DOMAIN dn]
    /\ \A q, r \in m + 1 .. Len(s) : q # r => G[q] \cap G[r] = {}
    /\ \A q \in m + 1 .. Len(s) : Group(dn, s, m, q, G[q])
Rest(dn, s, m, G) == {o \in DOMAIN dn : \A q \in m + 1 .. Len(s) : o \notin G[q]}
Batch(dn, st, s, m) ==
    \E G : Groups(dn, s, m, G) /\ Linear(dn, Rest(dn, s, m, G), Contents(st), Bag(s, 1 .. m))

\* dn2 has one operation more, answered as r says.
OneMore(dn2, dn, o, r) ==
    /\ DOMAIN dn2 = DOMAIN dn \cup {o} /\ o \notin DOMAIN dn /\ dn2[o] = r
    /\ \A d \in DOMAIN dn : dn2[d] = dn[d]

\* A group is one for whatever keeps its element and its answers.
LEMMA GroupSame ==
  ASSUME NEW dn, NEW dn2, NEW s, NEW u, NEW m, NEW k, NEW q, NEW p, NEW F,
         \A d \in F : dn2[d] = dn[d], u[p] = s[q],
         (\A i \in 1 .. m : s[i] < s[q]) => \A i \in 1 .. k : u[i] < s[q],
         Group(dn, s, m, q, F)
  PROVE  Group(dn2, u, k, p, F)
<1>1. PICK x \in F : PushOf(dn[x], s[q]) /\ \A o \in F \ {x} : FailOn(dn[o], s[q]) /\ \A i \in 1 .. m : s[i] < s[q]
  BY DEF Group
<1>2. PushOf(dn2[x], u[p])
  BY <1>1
<1>3. \A o \in F \ {x} : FailOn(dn2[o], u[p]) /\ \A i \in 1 .. k : u[i] < u[p]
  BY <1>1
<1>. QED BY <1>2, <1>3 DEF Group

\* A push begins a group of its own.
LEMMA BatchPush ==
  ASSUME NEW dn, NEW st, NEW s \in Seq(Elements), NEW m \in 0 .. Len(s), Batch(dn, st, s, m),
         NEW dn2, NEW o, NEW r, OneMore(dn2, dn, o, r), NEW e \in Elements, PushOf(r, e)
  PROVE  Batch(dn2, st, Append(s, e), m)
<1>. DEFINE N == Len(s)
            u == Append(s, e)
<1>1. PICK G : Groups(dn, s, m, G) /\ Linear(dn, Rest(dn, s, m, G), Contents(st), Bag(s, 1 .. m))
  BY DEF Batch
<1>2. /\ N \in Nat /\ m \in Nat /\ m <= N /\ Len(u) = N + 1 /\ u[N + 1] = e
      /\ \A i \in 1 .. N : u[i] = s[i]
  OBVIOUS
<1>. DEFINE G2 == [q \in m + 1 .. N + 1 |-> IF q = N + 1 THEN {o} ELSE G[q]]
<1>. HIDE DEF N, u
<1>3. /\ G \in [m + 1 .. N -> SUBSET DOMAIN dn]
      /\ \A q, p \in m + 1 .. N : q # p => G[q] \cap G[p] = {}
      /\ \A q \in m + 1 .. N : Group(dn, s, m, q, G[q])
  BY <1>1 DEF Groups, N
<1>4. /\ DOMAIN dn2 = DOMAIN dn \cup {o} /\ o \notin DOMAIN dn /\ dn2[o] = r
      /\ \A d \in DOMAIN dn : dn2[d] = dn[d]
  BY DEF OneMore
<1>5. /\ \A q \in m + 1 .. N + 1 : q = N + 1 \/ q \in m + 1 .. N
      /\ \A q \in m + 1 .. N : q \in m + 1 .. N + 1 /\ q # N + 1 /\ q \in 1 .. N
      /\ N + 1 \in m + 1 .. N + 1
      /\ \A i \in 1 .. m : i \in 1 .. N
  BY <1>2
<1>6. G2[N + 1] = {o} /\ \A q \in m + 1 .. N : G2[q] = G[q] /\ G[q] \subseteq DOMAIN dn
  BY <1>3, <1>5
<1>7. G2 \in [m + 1 .. N + 1 -> SUBSET DOMAIN dn2]
  <2>1. \A q \in m + 1 .. N + 1 : G2[q] \in SUBSET DOMAIN dn2
    <3>. HIDE DEF G2
    <3>. QED BY <1>4, <1>5, <1>6
  <2>2. G2 = [q \in m + 1 .. N + 1 |-> G2[q]]
    OBVIOUS
  <2>. HIDE DEF G2
  <2>. QED BY <2>1, <2>2
<1>. HIDE DEF G2
<1>8. \A q, p \in m + 1 .. N + 1 : q # p => G2[q] \cap G2[p] = {}
  <2>. SUFFICES ASSUME NEW q \in m + 1 .. N + 1, NEW p \in m + 1 .. N + 1, q # p PROVE G2[q] \cap G2[p] = {}
    OBVIOUS
  <2>1. CASE q = N + 1
    BY <1>4, <1>5, <1>6, <2>1
  <2>2. CASE p = N + 1
    BY <1>4, <1>5, <1>6, <2>2
  <2>3. CASE q # N + 1 /\ p # N + 1
    BY <1>3, <1>5, <1>6, <2>3
  <2>. QED BY <2>1, <2>2, <2>3
<1>9. ASSUME NEW q \in m + 1 .. N + 1 PROVE Group(dn2, u, m, q, G2[q])
  <2>1. CASE q = N + 1
    <3>1. PushOf(dn2[o], u[q]) /\ G2[q] = {o}
      BY <1>2, <1>4, <1>6, <2>1
    <3>. QED BY <3>1 DEF Group
  <2>2. CASE q # N + 1
    <3>1. q \in m + 1 .. N /\ u[q] = s[q] /\ G2[q] = G[q] /\ \A d \in G[q] : dn2[d] = dn[d]
      BY <1>2, <1>4, <1>5, <1>6, <2>2
    <3>2. (\A i \in 1 .. m : s[i] < s[q]) => \A i \in 1 .. m : u[i] < s[q]
      BY <1>2, <1>5
    <3>3. Group(dn, s, m, q, G[q])
      BY <1>3, <3>1
    <3>. QED BY <3>1, <3>2, <3>3, GroupSame
  <2>. QED BY <2>1, <2>2
<1>10. Groups(dn2, u, m, G2)
  BY <1>2, <1>7, <1>8, <1>9 DEF Groups
<1>11. Rest(dn2, u, m, G2) = Rest(dn, s, m, G)
  <2>1. \A x : x \in Rest(dn2, u, m, G2) <=>
                 x \in DOMAIN dn \cup {o} /\ \A q \in m + 1 .. N + 1 : x \notin G2[q]
    BY <1>2, <1>4 DEF Rest
  <2>2. \A x : x \in Rest(dn, s, m, G) <=> x \in DOMAIN dn /\ \A q \in m + 1 .. N : x \notin G[q]
    BY DEF Rest, N
  <2>3. \A x \in DOMAIN dn : (\A q \in m + 1 .. N + 1 : x \notin G2[q]) <=> \A q \in m + 1 .. N : x \notin G[q]
    BY <1>4, <1>5, <1>6
  <2>4. ~ (\A q \in m + 1 .. N + 1 : o \notin G2[q])
    BY <1>5, <1>6
  <2>. QED BY <1>4, <2>1, <2>2, <2>3, <2>4
<1>12. Linear(dn2, Rest(dn, s, m, G), Contents(st), Bag(s, 1 .. m))
  <2>1. \A d \in Rest(dn, s, m, G) : dn2[d] = dn[d]
    BY <1>4 DEF Rest
  <2>. QED BY <1>1, <2>1, LinearSame
<1>13. Bag(u, 1 .. m) = Bag(s, 1 .. m)
  BY <1>2, <1>5, BagSame
<1>. QED BY <1>10, <1>11, <1>12, <1>13 DEF Batch, u

\* What fails on the root, or could not be stored, goes to the end of the order.
LEMMA BatchStay ==
  ASSUME NEW dn, NEW st, NEW s \in Seq(Elements), NEW m \in 0 .. Len(s), Batch(dn, st, s, m),
         NEW dn2, NEW o, NEW r, OneMore(dn2, dn, o, r),
         \/ r.op.kind = "badpush" /\ ~ r.ok
         \/ /\ r.op.kind \in {"pop", "pop_if"} /\ ~ r.ok
            /\ m = 0 \/ (s[1] \notin r.op.arg /\ IsHeap(s, m))
  PROVE  Batch(dn2, st, s, m)
<1>1. PICK G : Groups(dn, s, m, G) /\ Linear(dn, Rest(dn, s, m, G), Contents(st), Bag(s, 1 .. m))
  BY DEF Batch
<1>2. /\ G \in [m + 1 .. Len(s) -> SUBSET DOMAIN dn]
      /\ \A q, p \in m + 1 .. Len(s) : q # p => G[q] \cap G[p] = {}
      /\ \A q \in m + 1 .. Len(s) : Group(dn, s, m, q, G[q])
  BY <1>1 DEF Groups
<1>3. /\ DOMAIN dn2 = DOMAIN dn \cup {o} /\ o \notin DOMAIN dn /\ dn2[o] = r
      /\ \A d \in DOMAIN dn : dn2[d] = dn[d]
  BY DEF OneMore
<1>4. Groups(dn2, s, m, G)
  <2>1. G \in [m + 1 .. Len(s) -> SUBSET DOMAIN dn2]
    BY <1>2, <1>3
  <2>2. ASSUME NEW q \in m + 1 .. Len(s) PROVE Group(dn2, s, m, q, G[q])
    <3>1. \A d \in G[q] : dn2[d] = dn[d]
      BY <1>2, <1>3
    <3>2. Group(dn, s, m, q, G[q])
      BY <1>2
    <3>. QED BY <3>1, <3>2, GroupSame
  <2>. QED BY <1>2, <2>1, <2>2 DEF Groups
<1>5. Rest(dn2, s, m, G) = Rest(dn, s, m, G) \cup {o} /\ o \notin Rest(dn, s, m, G)
  BY <1>2, <1>3 DEF Rest
<1>. DEFINE P == 1 .. m
            D == Rest(dn, s, m, G)
<1>6. IsFiniteSet(P) /\ \A i \in P : s[i] \in Elements
  <2>1. 1 \in Int /\ m \in Int
    OBVIOUS
  <2>. QED BY <2>1, FS_Interval
<1>7. Linear(dn2, D, Contents(st), Bag(s, P))
  <2>1. \A d \in Rest(dn, s, m, G) : dn2[d] = dn[d]
    BY <1>3 DEF Rest
  <2>. QED BY <1>1, <2>1, LinearSame
<1>8. \/ dn2[o].op.kind = "badpush" /\ ~ dn2[o].ok
      \/ /\ dn2[o].op.kind \in {"pop", "pop_if"} /\ ~ dn2[o].ok
         /\ P = {} \/ \E q \in P : s[q] \notin dn2[o].op.arg /\ \A i \in P : s[i] <= s[q]
  <2>1. m = 0 => P = {}
    OBVIOUS
  <2>2. ASSUME IsHeap(s, m), m # 0 PROVE 1 \in P /\ \A i \in P : s[i] <= s[1]
    <3>1. m \in Nat /\ 1 \in P
      BY <2>2
    <3>2. \A i \in 1 .. m : s[i] \in Int
      BY <1>6, QueueAssumption
    <3>. QED BY <2>2, <3>1, <3>2, HeapTop
  <2>. HIDE DEF P
  <2>. QED BY <1>3, <2>1, <2>2
<1>9. o \notin D
  BY <1>5
<1>. HIDE DEF P, D
<1>10. Linear(dn2, D \cup {o}, Contents(st), Bag(s, P))
  BY <1>6, <1>7, <1>8, <1>9, LinearStay
<1>. QED BY <1>4, <1>5, <1>10 DEF Batch, D, P

\* A pop that fails on the newest element joins its group.
LEMMA BatchFail ==
  ASSUME NEW dn, NEW st, NEW s \in Seq(Elements), NEW m \in 0 .. Len(s), Batch(dn, st, s, m),
         NEW dn2, NEW o, NEW r, OneMore(dn2, dn, o, r), m < Len(s),
         FailOn(r, s[Len(s)]), \A p \in 1 .. m : s[p] < s[Len(s)]
  PROVE  Batch(dn2, st, s, m)
<1>. DEFINE N == Len(s)
<1>1. PICK G : Groups(dn, s, m, G) /\ Linear(dn, Rest(dn, s, m, G), Contents(st), Bag(s, 1 .. m))
  BY DEF Batch
<1>2. N \in m + 1 .. N
  OBVIOUS
<1>. HIDE DEF N
<1>3. /\ G \in [m + 1 .. N -> SUBSET DOMAIN dn]
      /\ \A q, p \in m + 1 .. N : q # p => G[q] \cap G[p] = {}
      /\ \A q \in m + 1 .. N : Group(dn, s, m, q, G[q])
  BY <1>1 DEF Groups, N
<1>4. /\ DOMAIN dn2 = DOMAIN dn \cup {o} /\ o \notin DOMAIN dn /\ dn2[o] = r
      /\ \A d \in DOMAIN dn : dn2[d] = dn[d]
  BY DEF OneMore
<1>. DEFINE G2 == [q \in m + 1 .. N |-> IF q = N THEN G[N] \cup {o} ELSE G[q]]
<1>5. G2[N] = G[N] \cup {o} /\ \A q \in m + 1 .. N : (q # N => G2[q] = G[q]) /\ G[q] \subseteq DOMAIN dn
  BY <1>2, <1>3
<1>6. G2 \in [m + 1 .. N -> SUBSET DOMAIN dn2]
  <2>1. \A q \in m + 1 .. N : G2[q] \in SUBSET DOMAIN dn2
    <3>. HIDE DEF G2
    <3>. QED BY <1>2, <1>4, <1>5
  <2>2. G2 = [q \in m + 1 .. N |-> G2[q]]
    OBVIOUS
  <2>. HIDE DEF G2
  <2>. QED BY <2>1, <2>2
<1>. HIDE DEF G2
<1>7. \A q, p \in m + 1 .. N : q # p => G2[q] \cap G2[p] = {}
  <2>. SUFFICES ASSUME NEW q \in m + 1 .. N, NEW p \in m + 1 .. N, q # p PROVE G2[q] \cap G2[p] = {}
    OBVIOUS
  <2>1. G[q] \cap G[p] = {} /\ o \notin G[q] /\ o \notin G[p]
    BY <1>3, <1>4, <1>5
  <2>. QED BY <1>5, <2>1
<1>8. ASSUME NEW q \in m + 1 .. N PROVE Group(dn2, s, m, q, G2[q])
  <2>1. CASE q = N
    <3>1. PICK x \in G[N] : PushOf(dn[x], s[N]) /\ \A z \in G[N] \ {x} : FailOn(dn[z], s[N])
      BY <1>2, <1>3 DEF Group
    <3>2. PushOf(dn2[x], s[N]) /\ \A z \in G[N] \ {x} : FailOn(dn2[z], s[N])
      BY <1>2, <1>4, <1>5, <3>1
    <3>3. FailOn(dn2[o], s[N]) /\ \A p \in 1 .. m : s[p] < s[N]
      BY <1>4 DEF N
    <3>4. x \in G2[q] /\ \A z \in G2[q] \ {x} : z = o \/ z \in G[N] \ {x}
      BY <1>5, <2>1
    <3>. QED BY <2>1, <3>2, <3>3, <3>4 DEF Group
  <2>2. CASE q # N
    <3>1. G2[q] = G[q] /\ (\A d \in G[q] : dn2[d] = dn[d]) /\ Group(dn, s, m, q, G[q])
      BY <1>3, <1>4, <1>5, <2>2
    <3>. QED BY <3>1, GroupSame
  <2>. QED BY <2>1, <2>2
<1>9. Groups(dn2, s, m, G2)
  BY <1>6, <1>7, <1>8 DEF Groups, N
<1>10. Rest(dn2, s, m, G2) = Rest(dn, s, m, G)
  <2>1. \A x : x \in Rest(dn2, s, m, G2) <=>
                 x \in DOMAIN dn \cup {o} /\ \A q \in m + 1 .. N : x \notin G2[q]
    BY <1>4 DEF Rest, N
  <2>2. \A x : x \in Rest(dn, s, m, G) <=> x \in DOMAIN dn /\ \A q \in m + 1 .. N : x \notin G[q]
    BY DEF Rest, N
  <2>3. \A x \in DOMAIN dn : (\A q \in m + 1 .. N : x \notin G2[q]) <=> \A q \in m + 1 .. N : x \notin G[q]
    BY <1>2, <1>4, <1>5
  <2>4. ~ (\A q \in m + 1 .. N : o \notin G2[q])
    BY <1>2, <1>5
  <2>. QED BY <1>4, <2>1, <2>2, <2>3, <2>4
<1>11. Linear(dn2, Rest(dn, s, m, G), Contents(st), Bag(s, 1 .. m))
  <2>1. \A d \in Rest(dn, s, m, G) : dn2[d] = dn[d]
    BY <1>4 DEF Rest
  <2>. QED BY <1>1, <2>1, LinearSame
<1>. QED BY <1>9, <1>10, <1>11 DEF Batch

\* What one element leaves: its group goes, and what is left is as before.
LEMMA GroupGoes ==
  ASSUME NEW dn, IsFiniteSet(DOMAIN dn), NEW b0, NEW s, NEW m \in Nat, NEW G, Groups(dn, s, m, G),
         NEW q \in m + 1 .. Len(s), NEW D, NEW P, IsFiniteSet(P), q \notin P,
         \A i \in P \cup {q} : s[i] \in Elements, Linear(dn, D, b0, Bag(s, P)), D \cap G[q] = {},
         (\A p \in 1 .. m : s[p] < s[q]) => \A p \in P : s[p] <= s[q]
  PROVE  Linear(dn, D \cup G[q], b0, Bag(s, P \cup {q})) /\ IsFiniteSet(G[q])
<1>1. G[q] \subseteq DOMAIN dn /\ Group(dn, s, m, q, G[q])
  BY DEF Groups
<1>2. IsFiniteSet(G[q])
  BY <1>1, FS_Subset
<1>3. PICK x \in G[q] : /\ PushOf(dn[x], s[q])
                        /\ \A o \in G[q] \ {x} : FailOn(dn[o], s[q]) /\ \A p \in 1 .. m : s[p] < s[q]
  BY <1>1 DEF Group
<1>. DEFINE F == G[q]
<1>4. IsFiniteSet(F) /\ F \cap D = {} /\ x \in F /\ \A o \in F \ {x} : FailOn(dn[o], s[q]) /\ \A p \in P : s[p] <= s[q]
  BY <1>2, <1>3
<1>. HIDE DEF F
<1>5. Linear(dn, D \cup F, b0, Bag(s, P \cup {q}))
  BY <1>3, <1>4, LinearGroup
<1>. QED BY <1>2, <1>5 DEF F

\* Groups of elements that stay are kept.
LEMMA BatchKept ==
  ASSUME NEW dn, NEW st, NEW s, NEW m, NEW G, Groups(dn, s, m, G),
         Linear(dn, Rest(dn, s, m, G), Contents(st), Bag(s, 1 .. m)),
         NEW dn2, NEW o, NEW r, OneMore(dn2, dn, o, r)
  PROVE  /\ Groups(dn2, s, m, G) /\ o \notin Rest(dn, s, m, G)
         /\ Linear(dn2, Rest(dn, s, m, G), Contents(st), Bag(s, 1 .. m))
<1>1. /\ G \in [m + 1 .. Len(s) -> SUBSET DOMAIN dn]
      /\ \A q, p \in m + 1 .. Len(s) : q # p => G[q] \cap G[p] = {}
      /\ \A q \in m + 1 .. Len(s) : Group(dn, s, m, q, G[q])
  BY DEF Groups
<1>2. /\ DOMAIN dn2 = DOMAIN dn \cup {o} /\ o \notin DOMAIN dn
      /\ \A d \in DOMAIN dn : dn2[d] = dn[d]
  BY DEF OneMore
<1>3. G \in [m + 1 .. Len(s) -> SUBSET DOMAIN dn2]
  BY <1>1, <1>2
<1>4. ASSUME NEW q \in m + 1 .. Len(s) PROVE Group(dn2, s, m, q, G[q])
  <2>1. \A d \in G[q] : dn2[d] = dn[d]
    BY <1>1, <1>2
  <2>2. Group(dn, s, m, q, G[q])
    BY <1>1
  <2>. QED BY <2>1, <2>2, GroupSame
<1>5. Linear(dn2, Rest(dn, s, m, G), Contents(st), Bag(s, 1 .. m))
  <2>1. \A d \in Rest(dn, s, m, G) : dn2[d] = dn[d]
    BY <1>2 DEF Rest
  <2>. QED BY <2>1, LinearSame
<1>. QED BY <1>1, <1>2, <1>3, <1>4, <1>5 DEF Groups, Rest

\* The last element is gone, and its group with it.
Shrinks(s, u, m) ==
    /\ Len(u) = Len(s) - 1
    /\ \A q \in m + 1 .. Len(s) - 1 :
           u[q] = s[q] /\ ((\A i \in 1 .. m : s[i] < s[q]) => \A i \in 1 .. m : u[i] < s[q])

Shorter(G, s, m) == [q \in m + 1 .. Len(s) - 1 |-> G[q]]

LastGone(dn2, u, dn, s, m, G, o) ==
    /\ Groups(dn2, u, m, Shorter(G, s, m))
    /\ Rest(dn2, u, m, Shorter(G, s, m)) = (Rest(dn, s, m, G) \cup G[Len(s)]) \cup {o}

\* The group of the last element comes to the end of the order.
LEMMA LastGroupGone ==
  ASSUME NEW dn, NEW s \in Seq(Elements), NEW m \in Nat, m < Len(s), NEW G, Groups(dn, s, m, G),
         NEW dn2, NEW o, NEW r, OneMore(dn2, dn, o, r),
         NEW u, Shrinks(s, u, m)
  PROVE  LastGone(dn2, u, dn, s, m, G, o)
<1>. DEFINE N == Len(s)
            k == N - 1
<1>1. N \in m + 1 .. N /\ \A q \in m + 1 .. N : q = N \/ q \in m + 1 .. k
  OBVIOUS
<1>2. \A q \in m + 1 .. k : q \in m + 1 .. N /\ q # N
  OBVIOUS
<1>3. Len(u) = k /\ \A q \in m + 1 .. k : u[q] = s[q]
  BY DEF Shrinks
<1>a. \A q \in m + 1 .. k : (\A i \in 1 .. m : s[i] < s[q]) => \A i \in 1 .. m : u[i] < s[q]
  BY DEF Shrinks
<1>. HIDE DEF N, k
<1>4. /\ G \in [m + 1 .. N -> SUBSET DOMAIN dn]
      /\ \A q, p \in m + 1 .. N : q # p => G[q] \cap G[p] = {}
      /\ \A q \in m + 1 .. N : Group(dn, s, m, q, G[q])
  BY DEF Groups, N
<1>5. /\ DOMAIN dn2 = DOMAIN dn \cup {o} /\ o \notin DOMAIN dn
      /\ \A d \in DOMAIN dn : dn2[d] = dn[d]
  BY DEF OneMore
<1>. DEFINE G2 == [q \in m + 1 .. k |-> G[q]]
<1>6. G2 \in [m + 1 .. k -> SUBSET DOMAIN dn2] /\ \A q \in m + 1 .. k : G2[q] = G[q] /\ G[q] \subseteq DOMAIN dn
  BY <1>2, <1>4, <1>5
<1>. HIDE DEF G2
<1>7. \A q, p \in m + 1 .. k : q # p => G2[q] \cap G2[p] = {}
  BY <1>2, <1>4, <1>6
<1>8. ASSUME NEW q \in m + 1 .. k PROVE Group(dn2, u, m, q, G2[q])
  <2>1. (\A d \in G[q] : dn2[d] = dn[d]) /\ Group(dn, s, m, q, G[q]) /\ u[q] = s[q] /\ G2[q] = G[q]
    BY <1>2, <1>3, <1>4, <1>5, <1>6
  <2>2. (\A i \in 1 .. m : s[i] < s[q]) => \A i \in 1 .. m : u[i] < s[q]
    BY <1>a
  <2>. QED BY <2>1, <2>2, GroupSame
<1>9. Groups(dn2, u, m, G2)
  BY <1>3, <1>6, <1>7, <1>8 DEF Groups
<1>10. Rest(dn2, u, m, G2) = (Rest(dn, s, m, G) \cup G[N]) \cup {o}
  <2>1. \A x : x \in Rest(dn2, u, m, G2) <=> x \in DOMAIN dn \cup {o} /\ \A q \in m + 1 .. k : x \notin G[q]
    BY <1>3, <1>5, <1>6 DEF Rest
  <2>2. \A x : x \in Rest(dn, s, m, G) <=> x \in DOMAIN dn /\ \A q \in m + 1 .. N : x \notin G[q]
    BY DEF Rest, N
  <2>3. \A x \in G[N] : x \in DOMAIN dn /\ \A q \in m + 1 .. k : x \notin G[q]
    BY <1>1, <1>2, <1>4
  <2>4. \A q \in m + 1 .. k : o \notin G[q]
    BY <1>5, <1>6
  <2>5. \A x \in DOMAIN dn : (\A q \in m + 1 .. k : x \notin G[q])
            => x \in G[N] \/ \A q \in m + 1 .. N : x \notin G[q]
    BY <1>1
  <2>6. \A x : (\A q \in m + 1 .. N : x \notin G[q]) => \A q \in m + 1 .. k : x \notin G[q]
    BY <1>2
  <2>. QED BY <2>1, <2>2, <2>3, <2>4, <2>5, <2>6
<1>. QED BY <1>9, <1>10 DEF N, k, G2, Shorter, LastGone

\* A pop of the newest element puts its group in the order, and itself behind.
LEMMA BatchPopLast ==
  ASSUME NEW dn, IsFiniteSet(DOMAIN dn), NEW st, NEW s \in Seq(Elements), NEW m \in 0 .. Len(s),
         Batch(dn, st, s, m), NEW dn2, NEW o, NEW r, OneMore(dn2, dn, o, r),
         m < Len(s), PopOf(r, s[Len(s)]), \A p \in 1 .. m : s[p] < s[Len(s)],
         NEW u, Len(u) = Len(s) - 1, \A i \in 1 .. Len(s) - 1 : u[i] = s[i]
  PROVE  Batch(dn2, st, u, m)
<1>. DEFINE N == Len(s)
            P == 1 .. m
<1>1. PICK G : Groups(dn, s, m, G) /\ Linear(dn, Rest(dn, s, m, G), Contents(st), Bag(s, P))
  BY DEF Batch
<1>. DEFINE D == Rest(dn, s, m, G)
            b0 == Contents(st)
<1>2. /\ m \in Nat /\ N \in m + 1 .. N /\ N \notin P /\ \A i \in P \cup {N} : s[i] \in Elements
      /\ \A i \in P : u[i] = s[i]
  OBVIOUS
<1>3. IsFiniteSet(P) /\ IsFiniteSet(P \cup {N})
  <2>1. 1 \in Int /\ m \in Int
    OBVIOUS
  <2>2. IsFiniteSet(P)
    BY <2>1, FS_Interval
  <2>. HIDE DEF P
  <2>. QED BY <2>2, FS_AddElement
<1>4. /\ Groups(dn2, s, m, G) /\ o \notin D
      /\ Linear(dn2, D, b0, Bag(s, P))
  BY <1>1, BatchKept
<1>5. DOMAIN dn2 = DOMAIN dn \cup {o} /\ o \notin DOMAIN dn /\ dn2[o] = r
  BY DEF OneMore
<1>6. IsFiniteSet(DOMAIN dn2)
  BY <1>5, FS_AddElement
<1>7. D \cap G[N] = {} /\ o \notin G[N]
  BY <1>1, <1>2, <1>5 DEF Rest, Groups
<1>8. s[N] <= s[N] /\ \A p \in P : s[p] <= s[N]
  <2>1. \A p \in P \cup {N} : s[p] \in Int
    BY <1>2, QueueAssumption
  <2>2. \A p \in P : s[p] < s[N]
    OBVIOUS
  <2>. HIDE DEF P, N
  <2>. QED BY <2>1, <2>2
<1>. DEFINE G2 == Shorter(G, s, m)
<1>9. Groups(dn2, u, m, G2) /\ Rest(dn2, u, m, G2) = (D \cup G[N]) \cup {o}
  <2>1. \A q \in m + 1 .. Len(s) - 1 : u[q] = s[q]
    OBVIOUS
  <2>2. \A q \in m + 1 .. Len(s) - 1 : (\A i \in 1 .. m : s[i] < s[q]) => \A i \in 1 .. m : u[i] < s[q]
    BY <1>2
  <2>3. m < Len(s) /\ m \in Nat /\ Groups(dn, s, m, G)
    BY <1>1
  <2>5. Shrinks(s, u, m)
    BY <2>1, <2>2 DEF Shrinks
  <2>6. LastGone(dn2, u, dn, s, m, G, o)
    BY <2>3, <2>5, LastGroupGone, Zenon
  <2>. QED BY <2>6 DEF LastGone
<1>10. Bag(u, P) = Bag(s, P)
  BY <1>2, BagSame
<1>11. PopOf(dn2[o], s[N]) /\ (P \cup {N}) \ {N} = P /\ N \in P \cup {N} /\ o \notin D \cup G[N]
  BY <1>2, <1>4, <1>5, <1>7
<1>12. Linear(dn2, D \cup G[N], b0, Bag(s, P \cup {N}))
  <2>1. (\A p \in 1 .. m : s[p] < s[N]) => \A p \in P : s[p] <= s[N]
    BY <1>8
  <2>2. N \in m + 1 .. Len(s)
    BY <1>2
  <2>. HIDE DEF D, b0, P, N
  <2>. QED BY <1>2, <1>3, <1>4, <1>6, <1>7, <2>1, <2>2, GroupGoes
<1>13. \A i \in P \cup {N} : s[i] <= s[N]
  <2>. HIDE DEF P, N
  <2>. QED BY <1>8
<1>. HIDE DEF D, b0, N
<1>. DEFINE Q == P \cup {N}
            D1 == D \cup G[N]
<1>14. Linear(dn2, D1 \cup {o}, b0, Bag(s, Q \ {N}))
  <2>1. /\ IsFiniteSet(Q) /\ Linear(dn2, D1, b0, Bag(s, Q)) /\ N \in Q
        /\ \A i \in Q : s[i] \in Elements /\ s[i] <= s[N]
        /\ o \notin D1 /\ PopOf(dn2[o], s[N])
    BY <1>2, <1>3, <1>11, <1>12, <1>13
  <2>. HIDE DEF Q, D1
  <2>. QED BY <2>1, LinearPop
<1>15. Linear(dn2, (D \cup G[N]) \cup {o}, b0, Bag(u, P))
  BY <1>10, <1>11, <1>14
<1>. HIDE DEF G2
<1>. QED BY <1>9, <1>15 DEF Batch, b0

\* A pop of the root, when the last element takes a place in the heap,
LEMMA BatchPopRoot ==
  ASSUME NEW dn, IsFiniteSet(DOMAIN dn), NEW st, NEW s \in Seq(Elements), NEW m \in 1 .. Len(s), IsHeap(s, m),
         Batch(dn, st, s, m), NEW dn2, NEW o, NEW r, OneMore(dn2, dn, o, r),
         PopOf(r, s[1]), ~ (m < Len(s) /\ s[1] < s[Len(s)]),
         NEW u, Len(u) = Len(s) - 1, NEW k \in Nat, k = IF m > Len(s) - 1 THEN Len(s) - 1 ELSE m,
         \A i \in 1 .. k : u[i] \in Elements,
         Bag(u, 1 .. k) = Bag(s, ((1 .. m) \cup {Len(s)}) \ {1}),
         \A i \in k + 1 .. Len(s) - 1 : u[i] = s[i]
  PROVE  Batch(dn2, st, u, k)
<1>. DEFINE N == Len(s)
            P == 1 .. m
            Q == P \cup {N}
            b0 == Contents(st)
<1>1. PICK G : Groups(dn, s, m, G) /\ Linear(dn, Rest(dn, s, m, G), b0, Bag(s, P))
  BY DEF Batch
<1>. DEFINE D == Rest(dn, s, m, G)
<1>2. /\ m \in Nat /\ N \in Nat /\ m >= 1 /\ m <= N /\ 1 \in P /\ 1 \in Q /\ N \in Q
      /\ \A i \in Q : s[i] \in Elements
  OBVIOUS
<1>3. IsFiniteSet(P) /\ IsFiniteSet(Q)
  <2>1. 1 \in Int /\ m \in Int
    OBVIOUS
  <2>2. IsFiniteSet(P)
    BY <2>1, FS_Interval
  <2>. HIDE DEF P
  <2>. QED BY <2>2, FS_AddElement
<1>4. Groups(dn2, s, m, G) /\ o \notin D /\ Linear(dn2, D, b0, Bag(s, P))
  BY <1>1, BatchKept
<1>5. DOMAIN dn2 = DOMAIN dn \cup {o} /\ o \notin DOMAIN dn /\ dn2[o] = r
  BY DEF OneMore
<1>6. IsFiniteSet(DOMAIN dn2)
  BY <1>5, FS_AddElement
<1>7. \A i \in Q : s[i] \in Int /\ s[i] <= s[1]
  <2>1. \A i \in Q : s[i] \in Int
    BY <1>2, QueueAssumption
  <2>2. \A i \in P : s[i] <= s[1]
    <3>1. \A i \in 1 .. m : s[i] \in Int
      BY <2>1
    <3>. QED BY <1>2, <3>1, HeapTop
  <2>3. s[N] <= s[1]
    <3>1. CASE m < N
      <4>1. s[N] \in Int /\ s[1] \in Int
        BY <1>2, <2>1
      <4>. QED BY <3>1, <4>1
    <3>2. CASE m = N
      BY <1>2, <2>2, <3>2
    <3>. QED BY <1>2, <3>1, <3>2
  <2>. HIDE DEF P, N
  <2>. QED BY <2>1, <2>2, <2>3
<1>8. CASE m = N
  <2>1. k = N - 1 /\ Q = P /\ m + 1 .. N = {} /\ k + 1 .. N - 1 = {}
    BY <1>2, <1>8
  <2>2. D = DOMAIN dn
    BY <1>1, <2>1 DEF Rest
  <2>3. Linear(dn2, D \cup {o}, b0, Bag(s, Q \ {1}))
    <3>1. /\ IsFiniteSet(Q) /\ Linear(dn2, D, b0, Bag(s, Q)) /\ 1 \in Q
          /\ \A i \in Q : s[i] \in Elements /\ s[i] <= s[1]
          /\ o \notin D /\ PopOf(dn2[o], s[1])
      BY <1>2, <1>3, <1>4, <1>5, <1>7, <2>1
    <3>. HIDE DEF D, Q, b0
    <3>. QED BY <3>1, LinearPop
  <2>4. Linear(dn2, DOMAIN dn2, b0, Bag(u, 1 .. k))
    BY <1>5, <2>2, <2>3
  <2>. DEFINE G2 == [q \in k + 1 .. Len(u) |-> {}]
  <2>5. k + 1 .. Len(u) = {}
    BY <2>1
  <2>6. Groups(dn2, u, k, G2) /\ Rest(dn2, u, k, G2) = DOMAIN dn2
    BY <2>5 DEF Groups, Rest
  <2>. HIDE DEF G2
  <2>. QED BY <2>4, <2>6 DEF Batch
<1>9. CASE m < N
  <2>1. k = m /\ N \notin P /\ N \in m + 1 .. Len(s)
    BY <1>2, <1>9
  <2>2. D \cap G[N] = {} /\ o \notin G[N] /\ o \notin D \cup G[N]
    BY <1>1, <1>4, <1>5, <2>1 DEF Rest, Groups
  <2>3. Linear(dn2, D \cup G[N], b0, Bag(s, Q))
    <3>1. (\A p \in 1 .. m : s[p] < s[N]) => \A p \in P : s[p] <= s[N]
      <4>1. \A p \in P : s[p] < s[N] => s[p] <= s[N]
        BY <1>2, <1>7
      <4>. QED BY <4>1
    <3>. HIDE DEF D, b0, P, N
    <3>. QED BY <1>2, <1>3, <1>4, <1>6, <2>1, <2>2, <3>1, GroupGoes
  <2>. DEFINE D1 == D \cup G[N]
  <2>4. Linear(dn2, D1 \cup {o}, b0, Bag(s, Q \ {1}))
    <3>1. /\ IsFiniteSet(Q) /\ Linear(dn2, D1, b0, Bag(s, Q)) /\ 1 \in Q
          /\ \A i \in Q : s[i] \in Elements /\ s[i] <= s[1]
          /\ o \notin D1 /\ PopOf(dn2[o], s[1])
      BY <1>2, <1>3, <1>5, <1>7, <2>2, <2>3
    <3>. HIDE DEF D1, Q, b0
    <3>. QED BY <3>1, LinearPop
  <2>5. \A i \in P : \E j \in Q : u[i] = s[j]
    <3>1. IsFiniteSet(Q \ {1}) /\ \A i \in Q \ {1} : s[i] \in Elements
      BY <1>2, <1>3, FS_Subset
    <3>2. Bag(u, P) = Bag(s, Q \ {1}) /\ \A i \in P : u[i] \in Elements
      BY <2>1
    <3>. HIDE DEF P, Q
    <3>3. Held(Bag(u, P)) = {u[i] : i \in P}
      BY <1>3, <3>2, BagTop
    <3>4. Held(Bag(s, Q \ {1})) = {s[i] : i \in Q \ {1}}
      BY <3>1, BagTop
    <3>. QED BY <3>2, <3>3, <3>4
  <2>6. Shrinks(s, u, m)
    <3>1. \A q \in m + 1 .. N - 1 : u[q] = s[q] /\ s[q] \in Int
      <4>1. \A q \in m + 1 .. N - 1 : s[q] \in Elements
        BY <1>2
      <4>. QED BY <2>1, <4>1, QueueAssumption
    <3>2. ASSUME NEW q \in m + 1 .. N - 1, \A i \in 1 .. m : s[i] < s[q], NEW i \in 1 .. m PROVE u[i] < s[q]
      <4>1. PICK j \in Q : u[i] = s[j]
        BY <2>5
      <4>2. s[j] <= s[1] /\ s[j] \in Int /\ s[1] \in Int /\ s[q] \in Int /\ s[1] < s[q]
        BY <1>2, <1>7, <3>1, <3>2
      <4>. QED BY <4>1, <4>2
    <3>. QED BY <3>1, <3>2 DEF Shrinks
  <2>7. LastGone(dn2, u, dn, s, m, G, o)
    <3>1. m < Len(s) /\ m \in Nat /\ Groups(dn, s, m, G)
      BY <1>1, <1>2, <1>9
    <3>. QED BY <2>6, <3>1, LastGroupGone, Zenon
  <2>8. Linear(dn2, (D \cup G[N]) \cup {o}, b0, Bag(u, 1 .. m))
    BY <2>1, <2>4
  <2>9. /\ Groups(dn2, u, m, Shorter(G, s, m))
        /\ Rest(dn2, u, m, Shorter(G, s, m)) = (D \cup G[N]) \cup {o}
    BY <2>7 DEF LastGone
  <2>. HIDE DEF D, N, b0
  <2>. QED BY <2>1, <2>8, <2>9 DEF Batch, b0
<1>. QED BY <1>2, <1>8, <1>9

\* Without a heap the first element goes, and the last takes its place.
LEMMA BatchPopFirst ==
  ASSUME NEW dn, IsFiniteSet(DOMAIN dn), NEW st, NEW s \in Seq(Elements), s # <<>>,
         Batch(dn, st, s, 0), NEW dn2, NEW o, NEW r, OneMore(dn2, dn, o, r),
         PopOf(r, s[1]), NEW u, Len(u) = Len(s) - 1, Len(s) > 1 => u[1] = s[Len(s)],
         \A i \in 2 .. Len(s) - 1 : u[i] = s[i]
  PROVE  Batch(dn2, st, u, 0)
<1>. DEFINE N == Len(s)
            P == 1 .. 0
            b0 == Contents(st)
<1>1. PICK G : Groups(dn, s, 0, G) /\ Linear(dn, Rest(dn, s, 0, G), b0, Bag(s, P))
  BY DEF Batch
<1>. DEFINE D == Rest(dn, s, 0, G)
<1>2. /\ N \in Nat /\ N >= 1 /\ 1 \in 0 + 1 .. N /\ s[1] \in Elements /\ P = {} /\ IsFiniteSet(P)
      /\ 0 + 1 = 1
  BY FS_EmptySet
<1>3. Groups(dn2, s, 0, G) /\ o \notin D /\ Linear(dn2, D, b0, Bag(s, P))
  BY <1>1, BatchKept
<1>4. DOMAIN dn2 = DOMAIN dn \cup {o} /\ o \notin DOMAIN dn /\ dn2[o] = r
  BY DEF OneMore
<1>5. IsFiniteSet(DOMAIN dn2)
  BY <1>4, FS_AddElement
<1>6. D \cap G[1] = {} /\ o \notin G[1] /\ o \notin D \cup G[1]
  BY <1>1, <1>2, <1>3, <1>4 DEF Rest, Groups
<1>7. Linear(dn2, D \cup G[1], b0, Bag(s, P \cup {1}))
  <2>1. 0 \in Nat /\ 1 \in 0 + 1 .. Len(s) /\ 1 \notin P /\ \A i \in P \cup {1} : s[i] \in Elements
    BY <1>2
  <2>2. (\A p \in 1 .. 0 : s[p] < s[1]) => \A p \in P : s[p] <= s[1]
    BY <1>2
  <2>. HIDE DEF D, b0, P, N
  <2>. QED BY <1>2, <1>3, <1>5, <1>6, <2>1, <2>2, GroupGoes
<1>. DEFINE D1 == D \cup G[1]
            Q == P \cup {1}
<1>8. Linear(dn2, D1 \cup {o}, b0, Bag(s, Q \ {1}))
  <2>0. s[1] \in Int
    <3>1. s[1] \in Elements
      BY <1>2
    <3>. QED BY <3>1, QueueAssumption
  <2>1. Q = {1} /\ s[1] <= s[1]
    <3>1. P = {}
      BY <1>2
    <3>. HIDE DEF P
    <3>. QED BY <2>0, <3>1
  <2>3. IsFiniteSet(Q)
    <3>. HIDE DEF Q
    <3>1. IsFiniteSet({1})
      BY FS_Singleton
    <3>. QED BY <2>1, <3>1
  <2>4. Linear(dn2, D1, b0, Bag(s, Q)) /\ o \notin D1 /\ PopOf(dn2[o], s[1])
    BY <1>4, <1>6, <1>7
  <2>5. s[1] \in Elements
    BY <1>2
  <2>2. /\ IsFiniteSet(Q) /\ Linear(dn2, D1, b0, Bag(s, Q)) /\ 1 \in Q
        /\ \A i \in Q : s[i] \in Elements /\ s[i] <= s[1]
        /\ o \notin D1 /\ PopOf(dn2[o], s[1])
    <3>. HIDE DEF D1, Q, b0
    <3>. QED BY <2>1, <2>3, <2>4, <2>5
  <2>. HIDE DEF D1, Q, b0
  <2>. QED BY <2>2, LinearPop
<1>9. Bag(s, Q \ {1}) = Bag(u, 1 .. 0)
  <2>1. Q \ {1} = {} /\ 1 .. 0 = {}
    BY <1>2
  <2>. QED BY <2>1 DEF Bag
<1>. DEFINE G2 == [q \in 1 .. N - 1 |-> IF q = 1 THEN G[N] ELSE G[q]]
<1>10. /\ N \in 1 .. N /\ \A q \in 2 .. N - 1 : q \in 1 .. N /\ q # N /\ q # 1
       /\ \A q \in 1 .. N : q = 1 \/ q = N \/ q \in 2 .. N - 1
       /\ \A q \in 1 .. N - 1 : q = 1 \/ q \in 2 .. N - 1
       /\ 1 \in 1 .. N - 1 => N # 1 /\ u[1] = s[N]
       /\ N # 1 => 1 \in 1 .. N - 1
       /\ Len(u) = N - 1 /\ \A q \in 2 .. N - 1 : u[q] = s[q] /\ q \in 1 .. N - 1
  BY <1>2
<1>11. /\ G \in [1 .. N -> SUBSET DOMAIN dn]
       /\ \A q, p \in 1 .. N : q # p => G[q] \cap G[p] = {}
       /\ \A q \in 1 .. N : Group(dn, s, 0, q, G[q])
  BY <1>1, <1>2 DEF Groups
<1>12. /\ 1 \in 1 .. N - 1 => G2[1] = G[N]
       /\ \A q \in 2 .. N - 1 : G2[q] = G[q]
       /\ G2 = [q \in 1 .. N - 1 |-> G2[q]]
  BY <1>10
<1>. HIDE DEF G2, N, P, Q, b0
<1>13. \A q \in 1 .. N - 1 : G2[q] \in SUBSET DOMAIN dn2
  BY <1>4, <1>10, <1>11, <1>12
<1>14. G2 \in [1 .. N - 1 -> SUBSET DOMAIN dn2]
  BY <1>12, <1>13
<1>15. ASSUME NEW q \in 1 .. N - 1, NEW p \in 1 .. N - 1, q # p PROVE G2[q] \cap G2[p] = {}
  <2>1. CASE q = 1
    BY <1>10, <1>11, <1>12, <1>15, <2>1
  <2>2. CASE p = 1
    BY <1>10, <1>11, <1>12, <1>15, <2>2
  <2>3. CASE q # 1 /\ p # 1
    BY <1>10, <1>11, <1>12, <1>15, <2>3
  <2>. QED BY <2>1, <2>2, <2>3
<1>16. ASSUME NEW q \in 1 .. N - 1 PROVE Group(dn2, u, 0, q, G2[q])
  <2>. DEFINE p == IF q = 1 THEN N ELSE q
  <2>1. p \in 1 .. N /\ G2[q] = G[p] /\ u[q] = s[p]
    BY <1>10, <1>12
  <2>. HIDE DEF p
  <2>2. Group(dn, s, 0, p, G[p]) /\ \A d \in G[p] : dn2[d] = dn[d]
    BY <1>11, <2>1 DEF OneMore
  <2>3. (\A i \in 1 .. 0 : s[i] < s[p]) => \A i \in 1 .. 0 : u[i] < s[p]
    OBVIOUS
  <2>. QED BY <2>1, <2>2, <2>3, GroupSame
<1>17. Groups(dn2, u, 0, G2)
  BY <1>2, <1>10, <1>14, <1>15, <1>16 DEF Groups
<1>18. Rest(dn2, u, 0, G2) = (D \cup G[1]) \cup {o}
  <2>1. \A x : x \in Rest(dn2, u, 0, G2) <=> x \in DOMAIN dn \cup {o} /\ \A q \in 1 .. N - 1 : x \notin G2[q]
    BY <1>2, <1>4, <1>10 DEF Rest
  <2>2. \A x : x \in D <=> x \in DOMAIN dn /\ \A q \in 1 .. N : x \notin G[q]
    BY <1>2 DEF Rest, N
  <2>3. \A x : (\A q \in 1 .. N - 1 : x \notin G2[q]) <=> \A q \in 1 .. N : q # 1 => x \notin G[q]
    BY <1>10, <1>12
  <2>4. /\ \A x \in G[1] : x \in DOMAIN dn /\ \A q \in 1 .. N : q # 1 => x \notin G[q]
        /\ \A q \in 1 .. N : o \notin G[q]
    BY <1>2, <1>4, <1>11
  <2>5. \A x : (\A q \in 1 .. N : q # 1 => x \notin G[q]) => x \in G[1] \/ \A q \in 1 .. N : x \notin G[q]
    OBVIOUS
  <2>. HIDE DEF D
  <2>. QED BY <2>1, <2>2, <2>3, <2>4, <2>5
<1>. HIDE DEF D
<1>. QED BY <1>8, <1>9, <1>17, <1>18 DEF Batch, b0

\* At the end the elements after the heap are put in order, the least first.
LEMMA BatchEnd ==
  ASSUME NEW dn, IsFiniteSet(DOMAIN dn), NEW st, NEW s \in Seq(Elements), NEW m \in 0 .. Len(s),
         Batch(dn, st, s, m)
  PROVE  Linear(dn, DOMAIN dn, Contents(st), Contents(s))
<1>. DEFINE N == Len(s)
            I == 1 .. N
            b0 == Contents(st)
<1>1. PICK G : Groups(dn, s, m, G) /\ Linear(dn, Rest(dn, s, m, G), b0, Bag(s, 1 .. m))
  BY DEF Batch
<1>. DEFINE With(P) == {x \in DOMAIN dn : \A q \in I \ P : x \notin G[q]}
            Good(P) == /\ 1 .. m \subseteq P /\ Linear(dn, With(P), b0, Bag(s, P))
                       /\ \A q \in I \ P : \A p \in P : p > m => s[p] <= s[q]
            M == {Cardinality(I \ P) : P \in {P \in SUBSET I : Good(P)}}
<1>2. /\ m \in Nat /\ N \in Nat /\ 1 .. m \in SUBSET I /\ I \ (1 .. m) = m + 1 .. N
      /\ \A i \in I : s[i] \in Elements /\ i \in Nat
      /\ \A P \in SUBSET I : 1 .. m \subseteq P => I \ P \subseteq m + 1 .. N
  OBVIOUS
<1>3. IsFiniteSet(I)
  <2>1. 1 \in Int /\ N \in Int
    OBVIOUS
  <2>. QED BY <2>1, FS_Interval
<1>4. \A i \in I : s[i] \in Int
  BY <1>2, QueueAssumption
<1>5. /\ \A q \in m + 1 .. N : G[q] \in SUBSET DOMAIN dn
      /\ \A q, p \in m + 1 .. N : q # p => G[q] \cap G[p] = {}
  BY <1>1 DEF Groups
<1>6. \A P \in SUBSET I : IsFiniteSet(P) /\ IsFiniteSet(I \ P) /\ Cardinality(I \ P) \in Nat
  <2>. HIDE DEF I
  <2>. QED BY <1>3, FS_Subset, FS_CardinalityType
<1>7. 1 .. m \in SUBSET I /\ Good(1 .. m)
  <2>1. With(1 .. m) = Rest(dn, s, m, G)
    BY <1>2 DEF Rest
  <2>2. \A p \in 1 .. m : ~ (p > m)
    BY <1>2
  <2>. HIDE DEF With
  <2>. QED BY <1>1, <1>2, <2>1, <2>2
<1>8. ASSUME NEW P \in SUBSET I, Good(P), I \ P # {}
      PROVE  \E q \in I \ P : Good(P \cup {q})
  <2>. DEFINE T == I \ P
  <2>1. PICK q \in T : \A r \in T : s[q] <= s[r]
    <3>1. IsFiniteSet(T) /\ T # {} /\ \A i \in T : s[i] \in Int
      BY <1>4, <1>6, <1>8
    <3>. HIDE DEF T
    <3>. QED BY <3>1, LeastElement
  <2>2. /\ q \in I /\ q \notin P /\ q \in m + 1 .. Len(s) /\ T \subseteq m + 1 .. N
        /\ \A i \in P \cup {q} : s[i] \in Elements
    BY <1>2, <1>8
  <2>3. With(P) \cap G[q] = {}
    BY <2>2
  <2>4. (\A p \in 1 .. m : s[p] < s[q]) => \A p \in P : s[p] <= s[q]
    <3>. SUFFICES ASSUME \A p \in 1 .. m : s[p] < s[q], NEW p \in P PROVE s[p] <= s[q]
      OBVIOUS
    <3>1. p \in I /\ p \in Nat /\ p >= 1 /\ s[p] \in Int /\ s[q] \in Int
      BY <1>2, <1>4, <2>2
    <3>2. CASE p > m
      BY <1>8, <2>2, <3>2
    <3>3. CASE ~ (p > m)
      <4>1. p \in 1 .. m
        BY <1>2, <3>1, <3>3
      <4>2. s[p] < s[q]
        BY <4>1
      <4>. QED BY <3>1, <4>2
    <3>. QED BY <3>2, <3>3
  <2>5. Linear(dn, With(P) \cup G[q], b0, Bag(s, P \cup {q}))
    <3>1. Linear(dn, With(P), b0, Bag(s, P)) /\ IsFiniteSet(P)
      BY <1>6, <1>8
    <3>. HIDE DEF With, b0, I
    <3>. QED BY <1>1, <1>2, <2>2, <2>3, <2>4, <3>1, GroupGoes
  <2>6. With(P) \cup G[q] = With(P \cup {q})
    <3>1. \A x : x \in With(P) <=> x \in DOMAIN dn /\ \A r \in T : x \notin G[r]
      OBVIOUS
    <3>2. \A x : x \in With(P \cup {q}) <=> x \in DOMAIN dn /\ \A r \in T : r # q => x \notin G[r]
      OBVIOUS
    <3>3. \A x \in G[q] : x \in DOMAIN dn /\ \A r \in T : r # q => x \notin G[r]
      BY <1>5, <2>2
    <3>. HIDE DEF With, T
    <3>. QED BY <2>1, <3>1, <3>2, <3>3
  <2>7. \A r \in I \ (P \cup {q}) : \A p \in P \cup {q} : p > m => s[p] <= s[r]
    <3>. SUFFICES ASSUME NEW r \in I \ (P \cup {q}), NEW p \in P \cup {q}, p > m PROVE s[p] <= s[r]
      OBVIOUS
    <3>1. CASE p = q
      BY <2>1, <3>1
    <3>2. CASE p # q
      BY <1>8, <3>2
    <3>. QED BY <3>1, <3>2
  <2>. HIDE DEF With
  <2>8. Good(P \cup {q})
    BY <1>8, <2>5, <2>6, <2>7
  <2>. QED BY <2>8
<1>. HIDE DEF Good, I, With
<1>9. PICK k \in M : \A j \in M : k <= j
  <2>1. M \in SUBSET Nat
    BY <1>6
  <2>2. M # {}
    BY <1>7
  <2>. HIDE DEF M
  <2>. QED BY <2>1, <2>2, LeastNumber
<1>10. PICK P \in SUBSET I : Good(P) /\ k = Cardinality(I \ P)
  OBVIOUS
<1>11. I \ P = {}
  <2>. SUFFICES ASSUME I \ P # {} PROVE FALSE
    OBVIOUS
  <2>1. PICK q \in I \ P : Good(P \cup {q})
    BY <1>8, <1>10
  <2>2. P \cup {q} \in SUBSET I /\ I \ (P \cup {q}) = (I \ P) \ {q}
    OBVIOUS
  <2>3. Cardinality((I \ P) \ {q}) = k - 1
    BY <1>6, <1>10, FS_RemoveElement
  <2>4. Cardinality(I \ (P \cup {q})) \in M
    BY <2>1, <2>2
  <2>5. k - 1 \in M /\ k \in Nat
    BY <1>6, <1>10, <2>2, <2>3, <2>4
  <2>. HIDE DEF M
  <2>6. k <= k - 1
    BY <1>9, <2>5
  <2>. QED BY <2>5, <2>6
<1>12. P = I
  BY <1>11
<1>13. Linear(dn, With(I), b0, Bag(s, I))
  BY <1>10, <1>12 DEF Good
<1>14. With(I) = DOMAIN dn
  BY DEF With
<1>15. Contents(s) = Bag(s, I)
  BY ContentsBag DEF I
<1>. QED BY <1>13, <1>14, <1>15

-----------------------------------------------------------------------------
\* The order, as a sequence.
LEMMA LinearOrders ==
  ASSUME NEW dn, NEW b0, NEW b, Linear(dn, DOMAIN dn, b0, b)
  PROVE  \E order \in SetToAllKPermutations(DOMAIN dn) :
            LET held[n \in 0 .. Len(order)] ==
                    IF n = 0 THEN b0 ELSE Sequential(held[n - 1], dn[order[n]])
            IN  Len(order) = Cardinality(DOMAIN dn) /\ held[Len(order)] = b
<1>. DEFINE D == DOMAIN dn
<1>1. PICK N \in Nat : \E order \in Bijection(1 .. N, D), h \in [0 .. N -> Bags] :
        /\ h[0] = b0 /\ h[N] = b
        /\ \A k \in 1 .. N : h[k] = Sequential(h[k - 1], dn[order[k]])
  BY DEF Linear
<1>2. PICK order \in Bijection(1 .. N, D), h \in [0 .. N -> Bags] :
        /\ h[0] = b0 /\ h[N] = b
        /\ \A k \in 1 .. N : h[k] = Sequential(h[k - 1], dn[order[k]])
  BY <1>1
<1>. HIDE DEF D
<1>3. order \in [1 .. N -> D] /\ \A i, j \in 1 .. N : i # j => order[i] # order[j]
  BY DEF Bijection, Injection, IsInjective
<1>4. Cardinality(D) = N
  <2>1. IsFiniteSet(1 .. N) /\ Cardinality(1 .. N) = N
    <3>1. 1 \in Int /\ N \in Int /\ (1 > N => N = 0) /\ N - 1 + 1 = N
      OBVIOUS
    <3>2. IsFiniteSet(1 .. N) /\ Cardinality(1 .. N) = IF 1 > N THEN 0 ELSE N - 1 + 1
      BY <3>1, FS_Interval
    <3>. QED BY <3>1, <3>2
  <2>. QED BY <2>1, FS_Bijection DEF ExistsBijection
<1>5. order \in SetToAllKPermutations(D)
  <2>1. order \in SetToSeqs(D)
    BY <1>3, <1>4 DEF SetToSeqs
  <2>. QED BY <2>1 DEF SetToAllKPermutations
<1>6. Len(order) = N
  BY <1>3
<1>. DEFINE Is(f) == f = [n \in 0 .. Len(order) |-> IF n = 0 THEN b0 ELSE Sequential(f[n - 1], dn[order[n]])]
            held == CHOOSE f : Is(f)
<1>7. Is(h)
  <2>1. \A n \in 0 .. N : h[n] = IF n = 0 THEN b0 ELSE Sequential(h[n - 1], dn[order[n]])
    <3>. TAKE n \in 0 .. N
    <3>1. CASE n = 0
      BY <1>2, <3>1
    <3>2. CASE n # 0
      <4>1. n \in 1 .. N
        BY <3>2
      <4>. QED BY <1>2, <3>2, <4>1, Zenon
    <3>. QED BY <3>1, <3>2
  <2>2. h = [n \in 0 .. N |-> h[n]]
    OBVIOUS
  <2>. QED BY <1>6, <2>1, <2>2, Zenon
<1>8. Is(held)
  BY <1>7, Zenon
<1>9. \A n \in 0 .. N : held[n] = IF n = 0 THEN b0 ELSE Sequential(held[n - 1], dn[order[n]])
  <2>. HIDE DEF held
  <2>. QED BY <1>6, <1>8
<1>. HIDE DEF held
<1>. DEFINE K == {k \in Nat : k <= N => held[k] = h[k]}
<1>10. K = Nat
  <2>1. K \in SUBSET Nat /\ 0 \in K
    <3>1. 0 \in 0 .. N
      OBVIOUS
    <3>. QED BY <1>2, <1>9, <3>1
  <2>2. ASSUME NEW k \in K PROVE k + 1 \in K
    <3>1. k \in Nat /\ (k <= N => held[k] = h[k])
      OBVIOUS
    <3>. SUFFICES ASSUME k + 1 <= N PROVE held[k + 1] = h[k + 1]
      BY <3>1
    <3>2. k + 1 \in 0 .. N /\ k + 1 \in 1 .. N /\ k + 1 # 0 /\ (k + 1) - 1 = k /\ k <= N
      BY <3>1
    <3>3. held[k + 1] = Sequential(held[k], dn[order[k + 1]])
      BY <1>9, <3>2, Zenon
    <3>4. h[k + 1] = Sequential(h[k], dn[order[k + 1]])
      BY <1>2, <3>2, Zenon
    <3>. QED BY <3>1, <3>2, <3>3, <3>4
  <2>. HIDE DEF K
  <2>. QED BY <2>1, <2>2, SetInduction
<1>11. held[N] = b
  BY <1>2, <1>10
<1>12. Len(order) = Cardinality(D) /\ held[Len(order)] = b
  BY <1>4, <1>6, <1>11
<1>13. LET hd[n \in 0 .. Len(order)] == IF n = 0 THEN b0 ELSE Sequential(hd[n - 1], dn[order[n]])
       IN  Len(order) = Cardinality(D) /\ hd[Len(order)] = b
  BY <1>12 DEF held
<1>. QED BY <1>5, <1>13, Zenon DEF D

-----------------------------------------------------------------------------
(***************************************************************************)
(* What the handler does for one operation.                                *)
(***************************************************************************)
BatchFits == QueueFits /\ IsFiniteSet(DOMAIN done) /\ Batch(done, start, c, mark)
AnswerOf(o, k, e) == [op |-> op[o], ok |-> k, got |-> e]

\* An answer is one operation more,
LEMMA AnswerIs ==
  ASSUME NEW o, o \notin DOMAIN done, IsFiniteSet(DOMAIN done), NEW e
  PROVE  /\ Answer(o, "succeeded", e) => /\ OneMore(done', done, o, AnswerOf(o, TRUE, e))
                                         /\ IsFiniteSet(DOMAIN done')
         /\ Answer(o, "failed", e) => /\ OneMore(done', done, o, AnswerOf(o, FALSE, e))
                                      /\ IsFiniteSet(DOMAIN done')
<1>1. ASSUME NEW k, done' = [d \in DOMAIN done \cup {o} |-> IF d = o THEN AnswerOf(o, k, e) ELSE done[d]]
      PROVE  OneMore(done', done, o, AnswerOf(o, k, e)) /\ IsFiniteSet(DOMAIN done')
  <2>. DEFINE r == AnswerOf(o, k, e)
  <2>. HIDE DEF r
  <2>1. DOMAIN done' = DOMAIN done \cup {o} /\ done'[o] = r /\ \A d \in DOMAIN done : done'[d] = done[d]
    BY <1>1 DEF r
  <2>2. IsFiniteSet(DOMAIN done')
    BY <2>1, FS_AddElement
  <2>. QED BY <2>1, <2>2 DEF OneMore, r
<1>2. ASSUME Answer(o, "succeeded", e)
      PROVE  done' = [d \in DOMAIN done \cup {o} |-> IF d = o THEN AnswerOf(o, TRUE, e) ELSE done[d]]
  <2>1. ("succeeded" = "succeeded") = TRUE
    OBVIOUS
  <2>. QED BY <1>2, <2>1, Zenon DEF Answer, AnswerOf
<1>3. ASSUME Answer(o, "failed", e)
      PROVE  done' = [d \in DOMAIN done \cup {o} |-> IF d = o THEN AnswerOf(o, FALSE, e) ELSE done[d]]
  <2>1. ("failed" = "succeeded") = FALSE
    OBVIOUS
  <2>. QED BY <1>3, <2>1, Zenon DEF Answer, AnswerOf
<1>. QED BY <1>1, <1>2, <1>3

\* which says what the operation was, whether it succeeded, and on what.
LEMMA AnswerHas ==
  ASSUME NEW o, NEW k, NEW e
  PROVE  /\ AnswerOf(o, k, e).op = op[o] /\ AnswerOf(o, k, e).ok = k /\ AnswerOf(o, k, e).got = e
         /\ IsPop(o) /\ k = TRUE /\ e \in op[o].arg => PopOf(AnswerOf(o, k, e), e)
         /\ IsPop(o) /\ k = FALSE => \A x : x \notin op[o].arg => FailOn(AnswerOf(o, k, e), x)
<1>1. AnswerOf(o, k, e).op = op[o] /\ AnswerOf(o, k, e).ok = k /\ AnswerOf(o, k, e).got = e
  BY DEF AnswerOf
<1>. DEFINE r == AnswerOf(o, k, e)
<1>. HIDE DEF r
<1>2. r.op = op[o] /\ r.ok = k /\ r.got = e
  BY <1>1 DEF r
<1>3. ASSUME IsPop(o), k = TRUE, e \in op[o].arg PROVE PopOf(r, e)
  BY <1>2, <1>3, Zenon DEF IsPop, PopOf
<1>4. ASSUME IsPop(o), k = FALSE, NEW x, x \notin op[o].arg PROVE FailOn(r, x)
  BY <1>2, <1>4, Zenon DEF IsPop, FailOn
<1>. QED BY <1>1, <1>3, <1>4 DEF r

\* A push is answered,
LEMMA PushFits ==
  ASSUME BatchFits, NEW o, o \notin DOMAIN done, op[o] \in Operations, Push(o), start' = start
  PROVE  BatchFits'
<1>1. /\ c \in Seq(Elements) /\ mark \in 0 .. Len(c) /\ IsHeap(c, mark) /\ mark \in Nat
      /\ IsFiniteSet(DOMAIN done) /\ Batch(done, start, c, mark)
  BY DEF BatchFits, QueueFits
<1>2. CASE /\ op[o].kind = "push" /\ c' = Append(c, op[o].arg) /\ mark' = mark
           /\ Answer(o, "succeeded", op[o].arg)
  <2>. DEFINE e == op[o].arg
              r == AnswerOf(o, TRUE, e)
  <2>1. e \in Elements
    BY <1>2 DEF Operations
  <2>2. OneMore(done', done, o, r) /\ IsFiniteSet(DOMAIN done')
    BY <1>1, <1>2, AnswerIs
  <2>3. PushOf(r, e)
    <3>1. r.op = op[o] /\ r.ok = TRUE
      BY Zenon DEF AnswerOf
    <3>. HIDE DEF r
    <3>. QED BY <1>2, <3>1, Zenon DEF PushOf
  <2>. HIDE DEF e, r
  <2>4. Batch(done', start, Append(c, e), mark)
    BY <1>1, <2>1, <2>2, <2>3, BatchPush
  <2>5. Append(c, e) \in Seq(Elements) /\ mark \in 0 .. Len(Append(c, e)) /\ IsHeap(Append(c, e), mark)
    <3>1. /\ Append(c, e) \in Seq(Elements) /\ Len(Append(c, e)) = Len(c) + 1
          /\ \A i \in 1 .. Len(c) : Append(c, e)[i] = c[i]
      BY <1>1, <2>1
    <3>2. \A p \in 2 .. mark : p \in 1 .. Len(c) /\ p \div 2 \in 1 .. Len(c)
      BY <1>1
    <3>3. IsHeap(Append(c, e), mark)
      BY <1>1, <3>1, <3>2 DEF IsHeap
    <3>. QED BY <1>1, <3>1, <3>3
  <2>6. c' = Append(c, e) /\ mark' = mark
    BY <1>2 DEF e
  <2>. QED BY <2>2, <2>4, <2>5, <2>6 DEF BatchFits, QueueFits
<1>3. CASE op[o].kind = "badpush" /\ Answer(o, "failed", Nil) /\ UNCHANGED queueVars
  <2>. DEFINE r == AnswerOf(o, FALSE, Nil)
  <2>1. OneMore(done', done, o, r) /\ IsFiniteSet(DOMAIN done')
    BY <1>1, <1>3, AnswerIs
  <2>2. r.op = op[o] /\ r.ok = FALSE
    BY Zenon DEF AnswerOf
  <2>. HIDE DEF r
  <2>3. r.op.kind = "badpush" /\ ~ r.ok
    BY <1>3, <2>2
  <2>4. Batch(done', start, c, mark)
    BY <1>1, <2>1, <2>3, BatchStay
  <2>5. c' = c /\ mark' = mark
    BY <1>3 DEF queueVars
  <2>. QED BY <1>1, <2>1, <2>4, <2>5 DEF BatchFits, QueueFits
<1>. QED BY <1>2, <1>3 DEF Push

\* a pop that finds nothing,
LEMMA PopEmptyFits ==
  ASSUME BatchFits, NEW o, o \notin DOMAIN done, IsPop(o), c = <<>>, Answer(o, "failed", Nil),
         UNCHANGED queueVars, start' = start
  PROVE  BatchFits'
<1>1. /\ c \in Seq(Elements) /\ mark \in 0 .. Len(c) /\ mark = 0
      /\ IsFiniteSet(DOMAIN done) /\ Batch(done, start, c, mark)
  BY DEF BatchFits, QueueFits
<1>. DEFINE r == AnswerOf(o, FALSE, Nil)
<1>2. OneMore(done', done, o, r) /\ IsFiniteSet(DOMAIN done')
  BY <1>1, AnswerIs
<1>3. r.op = op[o] /\ r.ok = FALSE
  BY Zenon DEF AnswerOf
<1>. HIDE DEF r
<1>4. r.op.kind \in {"pop", "pop_if"} /\ ~ r.ok
  BY <1>3 DEF IsPop
<1>5. Batch(done', start, c, mark)
  BY <1>1, <1>2, <1>4, BatchStay
<1>6. c' = c /\ mark' = mark
  BY DEF queueVars
<1>. QED BY <1>2, <1>5, <1>6 DEF BatchFits, QueueFits

\* one that looks at the newest element,
LEMMA PopNewestFits ==
  ASSUME BatchFits, NEW o, o \notin DOMAIN done, IsPop(o), NewestIsTop, PopNewest(o), start' = start
  PROVE  BatchFits'
<1>. DEFINE N == Len(c)
<1>1. /\ c \in Seq(Elements) /\ mark \in 0 .. Len(c) /\ mark \in Nat /\ IsHeap(c, mark)
      /\ IsFiniteSet(DOMAIN done) /\ Batch(done, start, c, mark) /\ mark < Len(c) /\ c[1] < c[N]
      /\ N \in Nat /\ N >= 1
  BY DEF BatchFits, QueueFits, NewestIsTop
<1>2. \A i \in 1 .. N : c[i] \in Int
  <2>1. \A i \in 1 .. N : c[i] \in Elements
    BY <1>1
  <2>. QED BY <2>1, QueueAssumption
<1>3. \A p \in 1 .. mark : c[p] < c[Len(c)]
  <2>1. \A p \in 1 .. mark : c[p] \in Int
    BY <1>1, <1>2
  <2>2. \A p \in 1 .. mark : c[p] <= c[1]
    BY <1>1, <2>1, HeapTop
  <2>3. c[1] \in Int /\ c[N] \in Int
    BY <1>1, <1>2
  <2>. QED BY <1>1, <2>1, <2>2, <2>3
<1>4. Last(c) = c[N] /\ Front(c) = SubSeq(c, 1, N - 1)
  BY DEF Last, Front
<1>5. CASE Accepts(o, Last(c)) /\ Answer(o, "succeeded", Last(c)) /\ c' = Front(c) /\ mark' = mark
  <2>. DEFINE r == AnswerOf(o, TRUE, c[N])
  <2>1. OneMore(done', done, o, r) /\ IsFiniteSet(DOMAIN done')
    BY <1>1, <1>4, <1>5, AnswerIs
  <2>2. PopOf(r, c[Len(c)])
    <3>1. c[N] \in op[o].arg
      BY <1>4, <1>5 DEF Accepts
    <3>. QED BY <3>1, AnswerHas
  <2>. DEFINE u == Front(c)
  <2>3. /\ u \in Seq(Elements) /\ Len(u) = Len(c) - 1 /\ \A i \in 1 .. Len(c) - 1 : u[i] = c[i]
    <3>1. c # <<>>
      BY <1>1
    <3>. QED BY <1>1, <3>1, FrontFacts
  <2>. HIDE DEF r, u
  <2>4. Batch(done', start, u, mark)
    BY <1>1, <1>3, <2>1, <2>2, <2>3, BatchPopLast
  <2>5. mark \in 0 .. Len(u) /\ IsHeap(u, mark)
    <3>1. mark \in 0 .. Len(u)
      BY <1>1, <2>3
    <3>2. \A p \in 2 .. mark : p \in 1 .. Len(c) - 1 /\ p \div 2 \in 1 .. Len(c) - 1
      BY <1>1
    <3>. QED BY <1>1, <2>3, <3>1, <3>2 DEF IsHeap
  <2>6. c' = u /\ mark' = mark
    BY <1>5 DEF u
  <2>. QED BY <2>1, <2>3, <2>4, <2>5, <2>6 DEF BatchFits, QueueFits
<1>6. CASE ~ Accepts(o, Last(c)) /\ Answer(o, "failed", Last(c)) /\ UNCHANGED queueVars
  <2>. DEFINE r == AnswerOf(o, FALSE, c[N])
  <2>1. OneMore(done', done, o, r) /\ IsFiniteSet(DOMAIN done')
    BY <1>1, <1>4, <1>6, AnswerIs
  <2>2. FailOn(r, c[Len(c)])
    <3>1. c[N] \notin op[o].arg
      BY <1>4, <1>6 DEF Accepts
    <3>. QED BY <3>1, AnswerHas
  <2>. HIDE DEF r
  <2>3. Batch(done', start, c, mark)
    BY <1>1, <1>3, <2>1, <2>2, BatchFail
  <2>4. c' = c /\ mark' = mark
    BY <1>6 DEF queueVars
  <2>. QED BY <1>1, <2>1, <2>3, <2>4 DEF BatchFits, QueueFits
<1>. QED BY <1>5, <1>6 DEF PopNewest

\* and one that looks at the root.
LEMMA PopRootFits ==
  ASSUME BatchFits, NEW o, o \notin DOMAIN done, IsPop(o), c # <<>>, ~ NewestIsTop, PopRoot(o), start' = start
  PROVE  BatchFits'
<1>. DEFINE N == Len(c)
<1>1. /\ c \in Seq(Elements) /\ mark \in 0 .. Len(c) /\ mark \in Nat /\ IsHeap(c, mark) /\ QueueFits
      /\ IsFiniteSet(DOMAIN done) /\ Batch(done, start, c, mark) /\ ~ (mark < Len(c) /\ c[1] < c[Len(c)])
      /\ N \in Nat /\ N >= 1 /\ N = Len(c)
  <2>1. Len(c) \in Nat /\ Len(c) # 0
    BY DEF BatchFits, QueueFits
  <2>. QED BY <2>1 DEF BatchFits, QueueFits, NewestIsTop
<1>2. CASE Accepts(o, c[1]) /\ Answer(o, "succeeded", c[1]) /\ Reheap
  <2>. DEFINE r == AnswerOf(o, TRUE, c[1])
  <2>1. OneMore(done', done, o, r) /\ IsFiniteSet(DOMAIN done')
    BY <1>1, <1>2, AnswerIs
  <2>2. PopOf(r, c[1])
    <3>1. c[1] \in op[o].arg
      BY <1>2 DEF Accepts
    <3>. QED BY <3>1, AnswerHas
  <2>. HIDE DEF r
  <2>3. PICK l \in 1 .. Len(c) :
            /\ Ends(l)
            /\ c' = [p \in 1 .. Len(c) - 1 |-> c[From(l, p)]]
            /\ mark' = IF mark > Len(c) - 1 THEN Len(c) - 1 ELSE mark
    BY <1>1, <1>2, ReheapLands
  <2>. DEFINE u == c'
              k == mark'
  <2>4. /\ u = [p \in 1 .. N - 1 |-> u[p]] /\ \A p \in 1 .. N - 1 : u[p] = c[From(l, p)]
        /\ k = IF mark > N - 1 THEN N - 1 ELSE mark
    BY <2>3
  <2>5. k \in Nat /\ k <= N - 1 /\ k <= mark
    BY <1>1, <2>4
  <2>6. \A p \in 1 .. N - 1 : From(l, p) \in 1 .. N
    <3>1. /\ Path(l) \subseteq 1 .. l /\ From(l, l) = Len(c)
          /\ \A p \in Path(l) \ {l} : From(l, p) \in Path(l)
          /\ \A p \in Nat \ Path(l) : From(l, p) = p
      BY <1>1, <2>3, FromIs
    <3>2. 1 .. l \subseteq 1 .. N /\ N \in 1 .. N /\ \A p \in 1 .. N - 1 : p \in Nat /\ p \in 1 .. N
      BY <1>1
    <3>. HIDE DEF N
    <3>. QED BY <1>1, <3>1, <3>2
  <2>7. u \in Seq(Elements) /\ Len(u) = N - 1
    <3>1. \A p \in 1 .. N - 1 : u[p] \in Elements
      BY <1>1, <2>4, <2>6
    <3>2. N - 1 \in Nat
      BY <1>1
    <3>. HIDE DEF u, N
    <3>. QED BY <2>4, <3>1, <3>2
  <2>8. IsHeap(u, k)
    BY <1>1, <2>3, <2>4, <2>5, ReheapHeap
  <2>9. Batch(done', start, u, k)
    <3>1. CASE mark > 0
      <4>1. /\ Bag(u, 1 .. k) = Bag(c, ((1 .. mark) \cup {Len(c)}) \ {1})
            /\ \A p \in k + 1 .. Len(c) - 1 : u[p] = c[p]
        BY <1>1, <2>3, <2>4, <2>5, <3>1, ReheapBag
      <4>2. \A i \in 1 .. k : u[i] \in Elements
        BY <2>5, <2>7
      <4>3. mark \in 1 .. Len(c) /\ Len(u) = Len(c) - 1
        BY <1>1, <2>7, <3>1
      <4>. HIDE DEF u, k
      <4>. QED BY <1>1, <2>1, <2>2, <2>4, <2>5, <4>1, <4>2, <4>3, BatchPopRoot
    <3>2. CASE mark = 0
      <4>1. From(l, 1) = Len(c) /\ \A p \in 2 .. Len(c) - 1 : From(l, p) = p
        BY <1>1, <2>3, <3>2, ReheapNone
      <4>2. Len(c) > 1 => u[1] = c[Len(c)]
        BY <1>1, <2>4, <4>1
      <4>3. \A i \in 2 .. Len(c) - 1 : u[i] = c[i]
        BY <1>1, <2>4, <4>1
      <4>4. k = 0 /\ Len(u) = Len(c) - 1 /\ Batch(done, start, c, 0)
        BY <1>1, <2>5, <2>7, <3>2
      <4>. HIDE DEF u, k, N
      <4>5. Batch(done', start, u, 0)
        BY <1>1, <2>1, <2>2, <4>2, <4>3, <4>4, BatchPopFirst
      <4>. QED BY <4>4, <4>5
    <3>. QED BY <1>1, <3>1, <3>2
  <2>10. k \in 0 .. Len(u)
    BY <1>1, <2>5, <2>7
  <2>. QED BY <2>1, <2>7, <2>8, <2>9, <2>10 DEF BatchFits, QueueFits
<1>3. CASE ~ Accepts(o, c[1]) /\ Answer(o, "failed", c[1]) /\ UNCHANGED queueVars
  <2>. DEFINE r == AnswerOf(o, FALSE, c[1])
  <2>1. OneMore(done', done, o, r) /\ IsFiniteSet(DOMAIN done')
    BY <1>1, <1>3, AnswerIs
  <2>2. r.op = op[o] /\ r.ok = FALSE
    BY Zenon DEF AnswerOf
  <2>. HIDE DEF r
  <2>3. r.op.kind \in {"pop", "pop_if"} /\ ~ r.ok /\ c[1] \notin r.op.arg
    BY <1>3, <2>2 DEF IsPop, Accepts
  <2>4. Batch(done', start, c, mark)
    BY <1>1, <2>1, <2>3, BatchStay
  <2>5. c' = c /\ mark' = mark
    BY <1>3 DEF queueVars
  <2>. QED BY <1>1, <2>1, <2>4, <2>5 DEF BatchFits, QueueFits
<1>. QED BY <1>2, <1>3 DEF PopRoot

-----------------------------------------------------------------------------
(***************************************************************************)
(* Every batch acts as its operations would in some order.                 *)
(***************************************************************************)
OperationsFit ==
    /\ op \in [Threads -> Operations \cup {NoOperation}]
    /\ \A t \in Threads : pc[t] # "idle" => op[t] \in Operations
BatchInv ==
    /\ QueueFits /\ IsFiniteSet(DOMAIN done)
    /\ (\A t \in Threads : pc[t] # "pass1") => mark = Len(c)
    /\ \A t \in Threads : pc[t] = "pass1" => Batch(done, start, c, mark)
    /\ \A t \in Threads : pc[t] = "handled" => Linear(done, DOMAIN done, Contents(start), Contents(c))
LinearInv == QueueInv /\ OperationsFit /\ BatchInv

\* An empty queue has had no batch.
LEMMA LinearInitial == QueueInit => LinearInv
<1>. SUFFICES ASSUME QueueInit PROVE LinearInv
  OBVIOUS
<1>1. c = <<>> /\ mark = 0 /\ done = <<>> /\ \A t \in Threads : pc[t] = "idle"
  BY DEF QueueInit
<1>2. QueueFits /\ mark = Len(c)
  <2>1. c \in Seq(Elements) /\ Len(c) = 0
    BY <1>1
  <2>. QED BY <1>1, <2>1 DEF QueueFits, IsHeap
<1>3. IsFiniteSet(DOMAIN done)
  <2>1. DOMAIN done = {}
    BY <1>1
  <2>. QED BY <2>1, FS_EmptySet
<1>4. OperationsFit
  BY <1>1 DEF QueueInit, OperationsFit
<1>. QED BY <1>1, <1>2, <1>3, <1>4, QueueInitial DEF LinearInv, BatchInv

\* A step that leaves the queue and the batch alone.
LEMMA BatchAlone ==
  ASSUME BatchInv, UNCHANGED <<queueVars, done, start>>,
         \A t \in Threads : pc[t] = "pass1" <=> pc'[t] = "pass1",
         \A t \in Threads : pc'[t] = "handled" => pc[t] = "handled"
  PROVE  BatchInv'
<1>1. c' = c /\ mark' = mark /\ done' = done /\ start' = start
  BY DEF queueVars
<1>2. QueueFits' /\ IsFiniteSet(DOMAIN done')
  BY <1>1 DEF BatchInv, QueueFits
<1>3. (\A t \in Threads : pc'[t] # "pass1") => mark' = Len(c')
  BY <1>1 DEF BatchInv
<1>4. ASSUME NEW t \in Threads, pc'[t] = "pass1" PROVE Batch(done', start', c', mark')
  BY <1>1, <1>4 DEF BatchInv
<1>5. ASSUME NEW t \in Threads, pc'[t] = "handled"
      PROVE  Linear(done', DOMAIN done', Contents(start'), Contents(c'))
  BY <1>1, <1>5 DEF BatchInv
<1>. QED BY <1>2, <1>3, <1>4, <1>5 DEF BatchInv

\* A thread that is in a call has one of the operations.
LEMMA OperationsStep ==
  ASSUME LinearInv, QueueNext
  PROVE  OperationsFit'
<1>1. /\ op \in [Threads -> Operations \cup {NoOperation}]
      /\ \A t \in Threads : pc[t] # "idle" => op[t] \in Operations
      /\ pc \in [Threads -> {"idle", "waiting", "first", "free", "claimed", "pass1", "handled"}]
  BY DEF LinearInv, OperationsFit, QueueInv, QueueTypeOK
<1>2. ASSUME NEW t \in Threads, NEW o \in Operations, AggregatorExecute(t, o) PROVE OperationsFit'
  <2>1. op' = [op EXCEPT ![t] = o] /\ \A u \in Threads : u # t => pc'[u] = pc[u]
    BY <1>1, <1>2 DEF AggregatorExecute
  <2>. QED BY <1>1, <2>1 DEF OperationsFit
<1>3. ASSUME NEW t \in Threads, ReturnFrom(t) PROVE OperationsFit'
  BY <1>1, <1>3 DEF ReturnFrom, OperationsFit
<1>4. ASSUME NEW t \in Threads, op' = op, pc[t] # "idle", \E x : pc' = [pc EXCEPT ![t] = x] PROVE OperationsFit'
  BY <1>1, <1>4 DEF OperationsFit
<1>5. ASSUME NEW t \in Threads, FirstPass(t) \/ SecondPass(t) PROVE OperationsFit'
  BY <1>1, <1>5 DEF FirstPass, SecondPass, OperationsFit
<1>6. ASSUME NEW t \in Threads, Step(t) PROVE OperationsFit'
  <2>1. CASE Answered(t) \/ ReleaseAggregator(t)
    BY <1>3, <2>1 DEF Answered, ReleaseAggregator
  <2>2. CASE SeeFree(t) \/ Claim(t) \/ Grab(t) \/ Heapify(t)
    <3>1. op' = op /\ pc[t] # "idle" /\ \E x : pc' = [pc EXCEPT ![t] = x]
      BY <2>2 DEF SeeFree, Claim, Grab, Heapify
    <3>. QED BY <1>4, <3>1
  <2>. QED BY <1>5, <1>6, <2>1, <2>2 DEF Step
<1>. QED BY <1>2, <1>6 DEF QueueNext

\* The handler takes a batch, of which it has answered nothing yet.
LEMMA BatchGrab ==
  ASSUME LinearInv, NEW t \in Threads, Grab(t)
  PROVE  BatchInv'
<1>1. /\ QueueTypeOK /\ OneHandles /\ QueueFits /\ ((\A u \in Threads : pc[u] # "pass1") => mark = Len(c))
      /\ pc[t] = "claimed" /\ pc' = [pc EXCEPT ![t] = "pass1"] /\ start' = c /\ done' = <<>>
      /\ c' = c /\ mark' = mark
  BY DEF LinearInv, QueueInv, BatchInv, Grab, queueVars
<1>2. pc'[t] = "pass1" /\ \A u \in Threads : pc[u] # "pass1" /\ pc'[u] # "handled"
  BY <1>1 DEF QueueTypeOK, OneHandles, Handling
<1>3. mark = Len(c) /\ c \in Seq(Elements) /\ Len(c) \in Nat
  BY <1>1, <1>2 DEF QueueFits
<1>4. DOMAIN done' = {} /\ IsFiniteSet(DOMAIN done')
  <2>1. DOMAIN done' = {}
    BY <1>1
  <2>. QED BY <2>1, FS_EmptySet
<1>5. Batch(done', c, c, Len(c))
  <2>1. \A q : q \notin Len(c) + 1 .. Len(c)
    BY <1>3
  <2>. DEFINE G == [q \in Len(c) + 1 .. Len(c) |-> {}]
  <2>2. Groups(done', c, Len(c), G)
    BY <2>1 DEF Groups
  <2>3. Rest(done', c, Len(c), G) = {}
    BY <1>4 DEF Rest
  <2>4. Linear(done', {}, Contents(c), Bag(c, 1 .. Len(c)))
    BY <1>3, ContentsBag, LinearNone
  <2>. HIDE DEF G
  <2>. QED BY <2>2, <2>3, <2>4 DEF Batch
<1>6. QueueFits'
  BY <1>1 DEF QueueFits
<1>7. Batch(done', start', c', mark')
  BY <1>1, <1>3, <1>5
<1>. QED BY <1>2, <1>4, <1>6, <1>7 DEF BatchInv

\* What the handler works on is unanswered.
LEMMA Unanswered ==
  ASSUME LinearInv, NEW t \in Threads, pc[t] = "pass1"
  PROVE  /\ list[t] # Nil => list[t] \notin DOMAIN done /\ op[list[t]] \in Operations
         /\ pops[t] # Nil => pops[t] \notin DOMAIN done /\ IsPop(pops[t])
<1>1. PICK P : ListsOf(t, P)
  BY DEF LinearInv, QueueInv, ListsApart, Apart
<1>2. PICK L, Q \in SUBSET Taken :
          /\ IsList(next, list[t], L) /\ IsList(next, pops[t], Q)
          /\ (L \cup Q) \cap DOMAIN done = {} /\ \A n \in Q : IsPop(n)
  BY <1>1 DEF ListsOf
<1>3. (list[t] # Nil => list[t] \in L) /\ (pops[t] # Nil => pops[t] \in Q)
  BY <1>2 DEF IsList
<1>4. \A n \in L : n \in Threads /\ pc[n] # "idle"
  BY <1>2 DEF Taken
<1>5. \A n \in L : op[n] \in Operations
  BY <1>4 DEF LinearInv, OperationsFit
<1>. QED BY <1>2, <1>3, <1>5

\* Each operation of the two passes keeps what is answered explained.
LEMMA BatchPasses ==
  ASSUME LinearInv, NEW t \in Threads, FirstPass(t) \/ SecondPass(t)
  PROVE  BatchInv'
<1>1. pc[t] = "pass1" /\ pc' = pc /\ start' = start
  BY DEF FirstPass, SecondPass
<1>2. BatchFits /\ OneHandles
  BY <1>1 DEF LinearInv, QueueInv, BatchInv, BatchFits
<1>3. \A u \in Threads : pc'[u] # "handled"
  BY <1>1, <1>2 DEF OneHandles, Handling
<1>4. BatchFits'
  <2>1. CASE FirstPass(t)
    <3>1. list[t] \notin DOMAIN done /\ op[list[t]] \in Operations
      BY <1>1, <2>1, Unanswered DEF FirstPass
    <3>2. CASE Push(list[t])
      BY <1>1, <1>2, <3>1, <3>2, PushFits
    <3>3. CASE IsPop(list[t]) /\ NewestIsTop /\ PopNewest(list[t])
      BY <1>1, <1>2, <3>1, <3>3, PopNewestFits
    <3>4. CASE UNCHANGED <<queueVars, status, done>>
      BY <1>1, <1>2, <3>4 DEF BatchFits, QueueFits, queueVars
    <3>. QED BY <2>1, <3>2, <3>3, <3>4 DEF FirstPass
  <2>2. CASE SecondPass(t)
    <3>. DEFINE o == pops[t]
    <3>1. o \notin DOMAIN done /\ IsPop(o)
      BY <1>1, <2>2, Unanswered DEF SecondPass
    <3>2. \/ c = <<>> /\ Answer(o, "failed", Nil) /\ UNCHANGED queueVars
          \/ NewestIsTop /\ PopNewest(o)
          \/ c # <<>> /\ ~ NewestIsTop /\ PopRoot(o)
      BY <2>2 DEF SecondPass
    <3>. HIDE DEF o
    <3>3. CASE c = <<>> /\ Answer(o, "failed", Nil) /\ UNCHANGED queueVars
      BY <1>1, <1>2, <3>1, <3>3, PopEmptyFits
    <3>4. CASE NewestIsTop /\ PopNewest(o)
      BY <1>1, <1>2, <3>1, <3>4, PopNewestFits
    <3>5. CASE c # <<>> /\ ~ NewestIsTop /\ PopRoot(o)
      BY <1>1, <1>2, <3>1, <3>5, PopRootFits
    <3>. QED BY <3>2, <3>3, <3>4, <3>5
  <2>. QED BY <2>1, <2>2
<1>. QED BY <1>1, <1>3, <1>4 DEF BatchFits, BatchInv

\* The heap is made whole, and holds what an order of the batch has left.
LEMMA BatchHeapified ==
  ASSUME LinearInv, NEW t \in Threads, Heapify(t)
  PROVE  BatchInv'
<1>1. /\ QueueTypeOK /\ OneHandles /\ QueueFits /\ IsFiniteSet(DOMAIN done)
      /\ pc[t] = "pass1" /\ pc' = [pc EXCEPT ![t] = "handled"]
      /\ start' = start /\ done' = done /\ mark' = Len(c) /\ c' = Heapified
      /\ Batch(done, start, c, mark)
  BY DEF LinearInv, QueueInv, BatchInv, Heapify, history
<1>2. \A u \in Threads : pc'[u] # "pass1"
  BY <1>1 DEF QueueTypeOK, OneHandles, Handling
<1>3. c \in Seq(Elements) /\ mark \in 0 .. Len(c) /\ Len(c) \in Nat
  BY <1>1 DEF QueueFits
<1>4. SortedTo(c', Len(c))
  BY <1>1, HeapifiedIs
<1>5. /\ c' \in Seq(Elements) /\ Len(c') = Len(c) /\ IsHeap(c', Len(c))
      /\ Bag(c', 1 .. Len(c')) = Bag(c, 1 .. Len(c))
  BY <1>4 DEF SortedTo
<1>6. Contents(c') = Contents(c)
  BY <1>3, <1>5, ContentsBag
<1>7. Linear(done, DOMAIN done, Contents(start), Contents(c))
  BY <1>1, <1>3, BatchEnd
<1>8. Linear(done', DOMAIN done', Contents(start'), Contents(c'))
  BY <1>1, <1>6, <1>7
<1>9. QueueFits' /\ mark' = Len(c')
  BY <1>1, <1>3, <1>5 DEF QueueFits
<1>. QED BY <1>1, <1>2, <1>8, <1>9 DEF BatchInv

\* Every step of the aggregator does.
LEMMA BatchStep ==
  ASSUME LinearInv, QueueNext
  PROVE  BatchInv'
<1>1. BatchInv /\ QueueTypeOK /\ OneHandles
  BY DEF LinearInv, QueueInv
<1>2. ASSUME NEW t \in Threads, NEW o \in Operations, AggregatorExecute(t, o) PROVE BatchInv'
  <2>1. /\ pc[t] = "idle" /\ UNCHANGED <<queueVars, done, start>>
        /\ \E x \in {"first", "waiting"} : pc' = [pc EXCEPT ![t] = x]
    BY <1>2 DEF AggregatorExecute, history
  <2>. QED BY <1>1, <2>1, BatchAlone DEF QueueTypeOK
<1>3. ASSUME NEW t \in Threads, Answered(t) \/ SeeFree(t) \/ Claim(t) PROVE BatchInv'
  <2>1. /\ pc[t] \in {"waiting", "first", "free"} /\ UNCHANGED <<queueVars, done, start>>
        /\ \E x \in {"idle", "free", "claimed"} : pc' = [pc EXCEPT ![t] = x]
    BY <1>3 DEF Answered, SeeFree, Claim, ReturnFrom, history
  <2>. QED BY <1>1, <2>1, BatchAlone DEF QueueTypeOK
<1>4. ASSUME NEW t \in Threads, ReleaseAggregator(t) PROVE BatchInv'
  <2>1. /\ pc[t] = "handled" /\ pc' = [pc EXCEPT ![t] = "idle"] /\ c' = c /\ mark' = mark /\ done' = <<>>
    BY <1>4 DEF ReleaseAggregator, ReturnFrom, queueVars
  <2>2. \A u \in Threads : pc[u] # "pass1" /\ pc'[u] # "pass1" /\ pc'[u] # "handled"
    BY <1>1, <2>1 DEF QueueTypeOK, OneHandles, Handling
  <2>3. IsFiniteSet(DOMAIN done')
    <3>1. DOMAIN done' = {}
      BY <2>1
    <3>. QED BY <3>1, FS_EmptySet
  <2>4. QueueFits' /\ mark' = Len(c')
    BY <1>1, <2>1, <2>2 DEF BatchInv, QueueFits
  <2>. QED BY <2>2, <2>3, <2>4 DEF BatchInv
<1>5. ASSUME NEW t \in Threads, Step(t) PROVE BatchInv'
  BY <1>3, <1>4, <1>5, BatchGrab, BatchPasses, BatchHeapified DEF Step
<1>. QED BY <1>2, <1>5 DEF QueueNext

\* LinearInv is an inductive invariant of the queue: it is a heap followed by
\* elements whose pushes, and the pops that failed on them, can still be put
\* last of the operations answered so far.
THEOREM LinearInvariance == QueueSpec => []LinearInv
<1>1. LinearInv /\ [QueueNext]_cpqVars => LinearInv'
  <2>. SUFFICES ASSUME LinearInv, [QueueNext]_cpqVars PROVE LinearInv'
    OBVIOUS
  <2>1. QueueInv'
    BY QueueStep DEF LinearInv
  <2>2. CASE QueueNext
    BY <2>1, <2>2, OperationsStep, BatchStep DEF LinearInv
  <2>3. CASE UNCHANGED cpqVars
    <3>1. UNCHANGED <<queueVars, pc, op, start, done>>
      BY <2>3 DEF cpqVars, history
    <3>2. BatchInv'
      BY <3>1, BatchAlone DEF LinearInv
    <3>3. OperationsFit'
      BY <3>1 DEF LinearInv, OperationsFit
    <3>. QED BY <2>1, <3>2, <3>3 DEF LinearInv
  <2>. QED BY <2>2, <2>3
<1>. QED BY <1>1, LinearInitial, PTL DEF QueueSpec

\* Whatever operations a handler has taken together, and in whatever order it
\* answers them, each has the answer, and the queue at the end the contents,
\* that a priority queue used by one caller gives in some order of them.
THEOREM BatchesAlwaysLinearize == QueueSpec => []BatchesLinearize
<1>1. LinearInv => BatchesLinearize
  <2>. SUFFICES ASSUME LinearInv, NEW t \in Threads, pc[t] = "handled"
                PROVE  \E order \in SetToAllKPermutations(DOMAIN done) :
                           LET held[n \in 0 .. Len(order)] ==
                                   IF n = 0 THEN Contents(start) ELSE Sequential(held[n - 1], done[order[n]])
                           IN  Len(order) = Cardinality(DOMAIN done) /\ held[Len(order)] = Contents(c)
    BY DEF BatchesLinearize
  <2>1. Linear(done, DOMAIN done, Contents(start), Contents(c))
    BY DEF LinearInv, BatchInv
  <2>. QED BY <2>1, LinearOrders
<1>. QED BY <1>1, LinearInvariance, PTL
=============================================================================
