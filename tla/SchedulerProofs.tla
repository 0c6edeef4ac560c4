---------------------------- MODULE SchedulerProofs ----------------------------
(***************************************************************************)
(* Theorems about Scheduler, for every pool size, every set of event       *)
(* types, ticks and delays, and about CompareTimer, whose events it keeps, *)
(* for every size of the registers and of a block.                         *)
(***************************************************************************)
EXTENDS Scheduler, CompareTimer, SequenceTheorems, TLAPS

(***************************************************************************)
(* What the library's operators on sequences return.                       *)
(***************************************************************************)
LEMMA InsertAtProperties ==
  ASSUME NEW S, NEW s \in Seq(S), NEW i \in 1..(Len(s) + 1), NEW e \in S
  PROVE  /\ InsertAt(s, i, e) \in Seq(S)
         /\ Len(InsertAt(s, i, e)) = Len(s) + 1
         /\ \A j \in 1..(Len(s) + 1) :
              InsertAt(s, i, e)[j] = IF j < i THEN s[j] ELSE IF j = i THEN e ELSE s[j - 1]
<1> DEFINE a == SubSeq(s, 1, i - 1)
           b == SubSeq(s, i, Len(s))
           c == a \o <<e>>
<1>1. Len(s) \in Nat
  BY LenProperties
<1>2. /\ a \in Seq(S)
      /\ Len(a) = i - 1
      /\ \A j \in 1..(i - 1) : a[j] = s[j]
  BY <1>1, SubSeqProperties
<1>3. /\ b \in Seq(S)
      /\ Len(b) = Len(s) - i + 1
      /\ \A j \in 1..(Len(s) - i + 1) : b[j] = s[i + j - 1]
  BY <1>1, SubSeqProperties
<1>4. /\ c \in Seq(S)
      /\ Len(c) = i
      /\ \A j \in 1..i : c[j] = IF j < i THEN s[j] ELSE e
  <2> HIDE DEF a
  <2>1. <<e>> \in Seq(S) /\ Len(<<e>>) = 1 /\ <<e>>[1] = e
    OBVIOUS
  <2>2. QED
    BY <1>2, <2>1, ConcatProperties
<1>5. InsertAt(s, i, e) = c \o b
  BY DEF InsertAt
<1> HIDE DEF a, b, c
<1>6. /\ c \o b \in Seq(S)
      /\ Len(c \o b) = Len(s) + 1
      /\ \A j \in 1..(Len(s) + 1) :
           (c \o b)[j] = IF j <= i THEN c[j] ELSE b[j - i]
  <2>1. c \in Seq(S) /\ b \in Seq(S)
    BY <1>3, <1>4
  <2>2. /\ c \o b \in Seq(S)
        /\ Len(c \o b) = Len(c) + Len(b)
        /\ \A j \in 1..(Len(c) + Len(b)) :
             (c \o b)[j] = IF j <= Len(c) THEN c[j] ELSE b[j - Len(c)]
    BY <2>1, ConcatProperties
  <2>3. Len(c) = i /\ Len(c) + Len(b) = Len(s) + 1
    BY <1>1, <1>3, <1>4
  <2>4. QED
    BY <2>2, <2>3
<1>7. QED
  BY <1>1, <1>3, <1>4, <1>5, <1>6

LEMMA InsertAtElements ==
  ASSUME NEW S, NEW s \in Seq(S), NEW i \in 1..(Len(s) + 1), NEW e \in S,
         NEW j \in 1..(Len(s) + 1)
  PROVE  InsertAt(s, i, e)[j] = IF j < i THEN s[j] ELSE IF j = i THEN e ELSE s[j - 1]
  BY InsertAtProperties

LEMMA InsertAtTyped ==
  ASSUME NEW S, NEW s \in Seq(S), NEW i \in 1..(Len(s) + 1), NEW e \in S
  PROVE  InsertAt(s, i, e) \in Seq(S) /\ Len(InsertAt(s, i, e)) = Len(s) + 1
  BY InsertAtProperties

LEMMA RemoveAtProperties ==
  ASSUME NEW S, NEW s \in Seq(S), NEW i \in 1..Len(s)
  PROVE  /\ RemoveAt(s, i) \in Seq(S)
         /\ Len(RemoveAt(s, i)) = Len(s) - 1
         /\ \A j \in 1..(Len(s) - 1) :
              RemoveAt(s, i)[j] = IF j < i THEN s[j] ELSE s[j + 1]
<1> DEFINE a == SubSeq(s, 1, i - 1)
           b == SubSeq(s, i + 1, Len(s))
<1>1. Len(s) \in Nat
  BY LenProperties
<1>2. /\ a \in Seq(S)
      /\ Len(a) = i - 1
      /\ \A j \in 1..(i - 1) : a[j] = s[j]
  BY <1>1, SubSeqProperties
<1>3. /\ b \in Seq(S)
      /\ Len(b) = Len(s) - i
      /\ \A j \in 1..(Len(s) - i) : b[j] = s[i + j]
  BY <1>1, SubSeqProperties
<1>4. RemoveAt(s, i) = a \o b
  BY DEF RemoveAt
<1> HIDE DEF a, b
<1>5. /\ a \o b \in Seq(S)
      /\ Len(a \o b) = Len(a) + Len(b)
      /\ \A j \in 1..(Len(a) + Len(b)) :
           (a \o b)[j] = IF j <= Len(a) THEN a[j] ELSE b[j - Len(a)]
  <2>1. a \in Seq(S) /\ b \in Seq(S)
    BY <1>2, <1>3
  <2>2. QED
    BY <2>1, ConcatProperties
<1>6. Len(a) = i - 1 /\ Len(a) + Len(b) = Len(s) - 1
  BY <1>1, <1>2, <1>3
<1>7. QED
  BY <1>1, <1>2, <1>3, <1>4, <1>5, <1>6

LEMMA FrontLastProperties ==
  ASSUME NEW S, NEW s \in Seq(S), s # << >>
  PROVE  /\ Len(s) \in Nat \ {0}
         /\ Front(s) \in Seq(S)
         /\ Len(Front(s)) = Len(s) - 1
         /\ \A j \in 1..(Len(s) - 1) : Front(s)[j] = s[j]
         /\ Last(s) = s[Len(s)]
         /\ Last(s) \in S
<1>1. Len(s) \in Nat \ {0}
  BY EmptySeq
<1>2. \A j \in 1..Len(s) : s[j] \in S
  BY ElementOfSeq
<1>3. /\ SubSeq(s, 1, Len(s) - 1) \in Seq(S)
      /\ Len(SubSeq(s, 1, Len(s) - 1)) = Len(s) - 1
      /\ \A j \in 1..(Len(s) - 1) : SubSeq(s, 1, Len(s) - 1)[j] = s[j]
  <2> DEFINE n == Len(s) - 1
  <2>1. n \in Nat /\ \A j \in 1..n : s[j] \in S
    BY <1>1, <1>2
  <2> HIDE DEF n
  <2>2. /\ SubSeq(s, 1, n) \in Seq(S)
        /\ Len(SubSeq(s, 1, n)) = IF 1 <= n THEN n - 1 + 1 ELSE 0
        /\ \A j \in 1..(n - 1 + 1) : SubSeq(s, 1, n)[j] = s[1 + j - 1]
    BY <2>1, SubSeqProperties
  <2>3. /\ Len(SubSeq(s, 1, n)) = n
        /\ \A j \in 1..n : SubSeq(s, 1, n)[j] = s[j]
    BY <2>1, <2>2
  <2>4. QED
    BY <2>2, <2>3 DEF n
<1>4. QED
  BY <1>1, <1>2, <1>3 DEF Front, Last

--------------------------------------------------------------------------------
(***************************************************************************)
(* The inductive invariant.                                                *)
(***************************************************************************)
IInv == TypeOK /\ Sorted /\ NodesConserved

Top == free_event_nodes[Len(free_event_nodes)]
NewEntry(at_ticks, type) == [node |-> Top, time |-> at_ticks, type |-> type]

(***************************************************************************)
(* What scheduler_enqueue_absolute does to the pool and the list, index by *)
(* index.                                                                  *)
(***************************************************************************)
LEMMA EnqueueEffect ==
  ASSUME TypeOK, NEW at_ticks \in Nat, NEW type \in EventType,
         EnqueueAbsolute(at_ticks, type)
  PROVE  /\ Len(scheduler_list) \in Nat
         /\ Len(free_event_nodes) \in Nat \ {0}
         /\ Top \in Nodes
         /\ NewEntry(at_ticks, type) \in ListEntry
         /\ free_event_nodes' \in Seq(Nodes)
         /\ Len(free_event_nodes') = Len(free_event_nodes) - 1
         /\ \A j \in 1..(Len(free_event_nodes) - 1) :
              free_event_nodes'[j] = free_event_nodes[j]
         /\ scheduler_list' \in Seq(ListEntry)
         /\ Len(scheduler_list') = Len(scheduler_list) + 1
         /\ \E p \in 1..(Len(scheduler_list) + 1) :
              /\ InsertsAt(at_ticks, p)
              /\ \A j \in 1..(Len(scheduler_list) + 1) :
                   scheduler_list'[j] = IF j < p THEN scheduler_list[j]
                                        ELSE IF j = p THEN NewEntry(at_ticks, type)
                                        ELSE scheduler_list[j - 1]
<1> DEFINE entry == NewEntry(at_ticks, type)
<1>1. /\ free_event_nodes \in Seq(Nodes)
      /\ scheduler_list \in Seq(ListEntry)
      /\ Len(free_event_nodes) \in Nat \ {0}
      /\ Len(scheduler_list) \in Nat
  BY FrontLastProperties, LenProperties DEF TypeOK, EnqueueAbsolute
<1>2. /\ Last(free_event_nodes) = Top
      /\ Top \in Nodes
      /\ free_event_nodes' \in Seq(Nodes)
      /\ Len(free_event_nodes') = Len(free_event_nodes) - 1
      /\ \A j \in 1..(Len(free_event_nodes) - 1) : free_event_nodes'[j] = free_event_nodes[j]
  BY <1>1, FrontLastProperties DEF EnqueueAbsolute, Top
<1>3. entry \in ListEntry
  BY <1>2 DEF ListEntry, NewEntry
<1>4. PICK p \in 1..(Len(scheduler_list) + 1) :
        /\ InsertsAt(at_ticks, p)
        /\ scheduler_list' = InsertAt(scheduler_list, p, entry)
  BY <1>2 DEF EnqueueAbsolute, NewEntry
<1> HIDE DEF entry
<1>5. /\ InsertAt(scheduler_list, p, entry) \in Seq(ListEntry)
      /\ Len(InsertAt(scheduler_list, p, entry)) = Len(scheduler_list) + 1
      /\ \A j \in 1..(Len(scheduler_list) + 1) :
           InsertAt(scheduler_list, p, entry)[j] =
             IF j < p THEN scheduler_list[j]
             ELSE IF j = p THEN entry ELSE scheduler_list[j - 1]
  <2>1. scheduler_list \in Seq(ListEntry) /\ entry \in ListEntry
    BY <1>1, <1>3
  <2>2. /\ InsertAt(scheduler_list, p, entry) \in Seq(ListEntry)
        /\ Len(InsertAt(scheduler_list, p, entry)) = Len(scheduler_list) + 1
    BY ONLY <2>1, p \in 1..(Len(scheduler_list) + 1), InsertAtTyped
  <2>3. ASSUME NEW j \in 1..(Len(scheduler_list) + 1)
        PROVE  InsertAt(scheduler_list, p, entry)[j] =
                 IF j < p THEN scheduler_list[j]
                 ELSE IF j = p THEN entry ELSE scheduler_list[j - 1]
    BY ONLY <2>1, p \in 1..(Len(scheduler_list) + 1),
            j \in 1..(Len(scheduler_list) + 1), InsertAtElements
  <2>4. QED
    BY <2>2, <2>3
<1>6. QED
  BY <1>1, <1>2, <1>3, <1>4, <1>5 DEF entry

LEMMA EnqueuePreserves ==
  ASSUME IInv, NEW at_ticks \in Nat, NEW type \in EventType,
         EnqueueAbsolute(at_ticks, type)
  PROVE  IInv'
<1> DEFINE top == Top
           entry == NewEntry(at_ticks, type)
<1>1. Len(scheduler_list) \in Nat /\ Len(free_event_nodes) \in Nat \ {0}
  BY EnqueueEffect DEF IInv
<1>2. /\ top \in Nodes
      /\ free_event_nodes' \in Seq(Nodes)
      /\ Len(free_event_nodes') = Len(free_event_nodes) - 1
      /\ \A j \in 1..(Len(free_event_nodes) - 1) : free_event_nodes'[j] = free_event_nodes[j]
  BY EnqueueEffect DEF IInv
<1>3. scheduler_list \in Seq(ListEntry)
  BY DEF IInv, TypeOK
<1>4. PICK p \in 1..(Len(scheduler_list) + 1) :
        /\ InsertsAt(at_ticks, p)
        /\ \A j \in 1..(Len(scheduler_list) + 1) :
             scheduler_list'[j] = IF j < p THEN scheduler_list[j]
                                  ELSE IF j = p THEN entry ELSE scheduler_list[j - 1]
  BY EnqueueEffect DEF IInv
<1>5. /\ scheduler_list' \in Seq(ListEntry)
      /\ Len(scheduler_list') = Len(scheduler_list) + 1
  BY EnqueueEffect DEF IInv
<1>6. entry.node = top /\ entry.time = at_ticks
  BY DEF NewEntry
<1> HIDE DEF top, entry
<1>7. TypeOK'
  BY <1>2, <1>5 DEF IInv, TypeOK, EnqueueAbsolute
<1>8. Sorted'
  <2> DEFINE time(i) == scheduler_list[i].time
             time2(i) == scheduler_list'[i].time
             len == Len(scheduler_list)
  <2>1. len \in Nat /\ p \in 1..(len + 1) /\ \A i \in 1..len : time(i) \in Nat
    <3>1. \A i \in 1..Len(scheduler_list) : scheduler_list[i] \in ListEntry
      BY <1>3, ElementOfSeq
    <3>2. QED
      BY <1>1, <3>1 DEF ListEntry
  <2>2. \A i, j \in 1..len : i < j => time(i) <= time(j)
    BY DEF IInv, Sorted
  <2>3. \A j \in 1..(len + 1) :
          time2(j) = IF j < p THEN time(j) ELSE IF j = p THEN at_ticks ELSE time(j - 1)
    BY <1>4, <1>6
  <2>4. \/ p = 1 /\ ~(len # 0 /\ time(1) <= at_ticks)
        \/ /\ p \in 2..(len + 1)
           /\ time(1) <= at_ticks
           /\ \A i \in 2..(p - 1) : time(i) < at_ticks
           /\ p <= len => time(p) >= at_ticks
    BY <1>1, <1>3, <1>4, EmptySeq DEF InsertsAt
  <2>5. Sorted' <=> \A i, j \in 1..(len + 1) : i < j => time2(i) <= time2(j)
    BY <1>5 DEF Sorted
  <2> HIDE DEF time, time2, len
  <2>6. \A i \in 1..(p - 1) : time(i) <= at_ticks
    BY <2>1, <2>4
  <2>7. \A i \in p..len : at_ticks <= time(i)
    BY <2>1, <2>2, <2>4
  <2>8. ASSUME NEW i \in 1..(len + 1), NEW j \in 1..(len + 1), i < j
        PROVE  time2(i) <= time2(j)
    <3>1. CASE j < p
      BY <2>1, <2>2, <2>3, <2>8, <3>1
    <3>2. CASE j = p
      BY <2>1, <2>3, <2>6, <2>8, <3>2
    <3>3. CASE j > p
      BY <2>1, <2>2, <2>3, <2>7, <2>8, <3>3
    <3>4. QED
      BY <2>1, <3>1, <3>2, <3>3
  <2>9. QED
    BY <2>5, <2>8
<1>9. NodesConserved'
  <2> DEFINE free(i) == free_event_nodes[i]
             free2(i) == free_event_nodes'[i]
             node(i) == scheduler_list[i].node
             node2(i) == scheduler_list'[i].node
             len == Len(scheduler_list)
             size == Len(free_event_nodes)
             onStack(n) == \E i \in 1..size : free(i) = n
             inList(n) == \E i \in 1..len : node(i) = n
  <2>1. len \in Nat /\ p \in 1..(len + 1) /\ size \in Nat \ {0} /\ top \in Nodes
    BY <1>1, <1>2
  <2>2. /\ \A i, j \in 1..size : free(i) = free(j) => i = j
        /\ \A i, j \in 1..len : node(i) = node(j) => i = j
        /\ \A n \in Nodes : onStack(n) <=> ~inList(n)
    BY DEF IInv, NodesConserved
  <2>3. \A j \in 1..(len + 1) :
          node2(j) = IF j < p THEN node(j) ELSE IF j = p THEN top ELSE node(j - 1)
    BY <1>4, <1>6
  <2>4. free(size) = top /\ \A i \in 1..(size - 1) : free2(i) = free(i)
    BY <1>2 DEF top, Top
  <2>5. NodesConserved' <=>
          /\ \A i, j \in 1..(size - 1) : free2(i) = free2(j) => i = j
          /\ \A i, j \in 1..(len + 1) : node2(i) = node2(j) => i = j
          /\ \A n \in Nodes : (\E i \in 1..(size - 1) : free2(i) = n)
                             <=> ~(\E i \in 1..(len + 1) : node2(i) = n)
    BY <1>2, <1>5 DEF NodesConserved, Nodes
  <2> HIDE DEF free, free2, node, node2, len, size
  <2>6. ~inList(top)
    BY <2>1, <2>2, <2>4
  <2>7. \A i, j \in 1..(size - 1) : free2(i) = free2(j) => i = j
    BY <2>1, <2>2, <2>4
  <2>8. \A i, j \in 1..(len + 1) : node2(i) = node2(j) => i = j
    BY <2>1, <2>2, <2>3, <2>6
  <2>9. ASSUME NEW n \in Nodes
        PROVE  (\E i \in 1..(size - 1) : free2(i) = n) <=> onStack(n) /\ n # top
    BY <2>1, <2>2, <2>4
  <2>10. ASSUME NEW n \in Nodes
         PROVE  (\E i \in 1..(len + 1) : node2(i) = n) <=> inList(n) \/ n = top
    <3>1. (\E i \in 1..(len + 1) : node2(i) = n) => inList(n) \/ n = top
      BY <2>1, <2>3
    <3>2. n = top => node2(p) = n
      BY <2>1, <2>3
    <3>3. ASSUME NEW i \in 1..len, node(i) = n
          PROVE  \E j \in 1..(len + 1) : node2(j) = n
      <4>1. CASE i < p
        BY <2>1, <2>3, <3>3, <4>1
      <4>2. CASE i >= p
        <5>1. i + 1 \in 1..(len + 1) /\ node2(i + 1) = n
          BY <2>1, <2>3, <3>3, <4>2
        <5>2. QED
          BY <5>1
      <4>3. QED
        BY <2>1, <4>1, <4>2
    <3>4. QED
      BY <2>1, <3>1, <3>2, <3>3
  <2>11. QED
    BY <2>2, <2>5, <2>7, <2>8, <2>9, <2>10
<1>10. QED
  BY <1>7, <1>8, <1>9 DEF IInv

(***************************************************************************)
(* Unlinking a node and pushing it on the stack, as scheduler_tick and     *)
(* scheduler_remove_event do.                                              *)
(***************************************************************************)
LEMMA UnlinkPreserves ==
  ASSUME IInv, NEW n \in 1..Len(scheduler_list),
         scheduler_list' = RemoveAt(scheduler_list, n),
         free_event_nodes' = Append(free_event_nodes, scheduler_list[n].node)
  PROVE  /\ free_event_nodes' \in Seq(Nodes)
         /\ scheduler_list' \in Seq(ListEntry)
         /\ Sorted'
         /\ NodesConserved'
<1> DEFINE len == Len(scheduler_list)
           size == Len(free_event_nodes)
           time(i) == scheduler_list[i].time
           time2(i) == scheduler_list'[i].time
           free(i) == free_event_nodes[i]
           free2(i) == free_event_nodes'[i]
           node(i) == scheduler_list[i].node
           node2(i) == scheduler_list'[i].node
<1>1. /\ free_event_nodes \in Seq(Nodes) /\ size \in Nat
      /\ scheduler_list \in Seq(ListEntry) /\ len \in Nat
  BY LenProperties DEF IInv, TypeOK
<1>2. \A i \in 1..len : time(i) \in Nat /\ node(i) \in Nodes
  <2>1. \A i \in 1..len : scheduler_list[i] \in ListEntry
    BY <1>1, ElementOfSeq
  <2>2. QED
    BY <2>1 DEF ListEntry
<1>3. /\ scheduler_list' \in Seq(ListEntry)
      /\ Len(scheduler_list') = len - 1
      /\ \A j \in 1..(len - 1) :
           scheduler_list'[j] = IF j < n THEN scheduler_list[j] ELSE scheduler_list[j + 1]
  BY <1>1, RemoveAtProperties
<1>4. /\ free_event_nodes' \in Seq(Nodes)
      /\ Len(free_event_nodes') = size + 1
      /\ \A i \in 1..size : free2(i) = free(i)
      /\ free2(size + 1) = node(n)
  <2>1. scheduler_list[n].node \in Nodes
    BY <1>2
  <2>2. QED
    BY <1>1, <2>1, AppendProperties
<1>5. \A j \in 1..(len - 1) :
        /\ time2(j) = IF j < n THEN time(j) ELSE time(j + 1)
        /\ node2(j) = IF j < n THEN node(j) ELSE node(j + 1)
  BY <1>3
<1>6. /\ \A i, j \in 1..len : i < j => time(i) <= time(j)
      /\ \A i, j \in 1..size : free(i) = free(j) => i = j
      /\ \A i, j \in 1..len : node(i) = node(j) => i = j
      /\ \A x \in Nodes : (\E i \in 1..size : free(i) = x) <=> ~(\E i \in 1..len : node(i) = x)
  BY DEF IInv, Sorted, NodesConserved
<1>7. Sorted' <=> \A i, j \in 1..(len - 1) : i < j => time2(i) <= time2(j)
  BY <1>3 DEF Sorted
<1>8. NodesConserved' <=>
        /\ \A i, j \in 1..(size + 1) : free2(i) = free2(j) => i = j
        /\ \A i, j \in 1..(len - 1) : node2(i) = node2(j) => i = j
        /\ \A x \in Nodes : (\E i \in 1..(size + 1) : free2(i) = x)
                           <=> ~(\E i \in 1..(len - 1) : node2(i) = x)
  BY <1>3, <1>4 DEF NodesConserved, Nodes
<1>9. n \in 1..len
  OBVIOUS
<1> HIDE DEF len, size, time, time2, free, free2, node, node2
<1>10. \A i, j \in 1..(len - 1) : i < j => time2(i) <= time2(j)
  BY <1>1, <1>5, <1>6, <1>9
<1>11. \A i, j \in 1..(len - 1) : node2(i) = node2(j) => i = j
  BY <1>1, <1>5, <1>6, <1>9
<1>12. ~(\E i \in 1..size : free(i) = node(n))
  BY <1>2, <1>6, <1>9
<1>13. \A i, j \in 1..(size + 1) : free2(i) = free2(j) => i = j
  <2>1. \A i \in 1..(size + 1) : i \in 1..size \/ i = size + 1
    BY <1>1
  <2>2. QED
    BY <1>1, <1>4, <1>6, <1>12, <2>1
<1>14. ASSUME NEW x \in Nodes
       PROVE  (\E i \in 1..(size + 1) : free2(i) = x)
                <=> (\E i \in 1..size : free(i) = x) \/ x = node(n)
  BY <1>1, <1>4
<1>15. ASSUME NEW x \in Nodes
       PROVE  (\E i \in 1..(len - 1) : node2(i) = x)
                <=> (\E i \in 1..len : node(i) = x) /\ x # node(n)
  <2>1. ASSUME NEW i \in 1..(len - 1), node2(i) = x
        PROVE  (\E j \in 1..len : node(j) = x) /\ x # node(n)
    BY <1>1, <1>5, <1>6, <1>9, <2>1
  <2>2. ASSUME NEW i \in 1..len, node(i) = x, x # node(n)
        PROVE  \E j \in 1..(len - 1) : node2(j) = x
    <3>1. CASE i < n
      BY <1>1, <1>5, <1>9, <2>2, <3>1
    <3>2. CASE i > n
      <4>1. i - 1 \in 1..(len - 1) /\ node2(i - 1) = x
        BY <1>1, <1>5, <1>9, <2>2, <3>2
      <4>2. QED
        BY <4>1
    <3>3. QED
      BY <1>9, <2>2, <3>1, <3>2
  <2>3. QED
    BY <2>1, <2>2
<1>16. QED
  BY <1>3, <1>4, <1>6, <1>7, <1>8, <1>10, <1>11, <1>13, <1>14, <1>15

(***************************************************************************)
(* scheduler_tick takes the head off: the first index is unlinked.         *)
(***************************************************************************)
LEMMA TailIsRemoveAt ==
  ASSUME NEW S, NEW s \in Seq(S), s # << >>
  PROVE  RemoveAt(s, 1) = Tail(s) /\ Head(s) = s[1] /\ 1 \in 1..Len(s)
<1>1. Len(s) \in Nat \ {0}
  BY EmptySeq
<1>2. SubSeq(s, 1, 0) = << >>
  BY SubSeqEmpty
<1>3. Tail(s) = SubSeq(s, 2, Len(s)) /\ Tail(s) \in Seq(S)
  BY TailIsSubSeq, HeadTailProperties
<1>4. << >> \o Tail(s) = Tail(s)
  BY <1>3, ConcatEmptySeq
<1>5. QED
  BY <1>1, <1>2, <1>3, <1>4 DEF RemoveAt

LEMMA InitIInv == Init => IInv
<1> SUFFICES ASSUME Init PROVE IInv
  OBVIOUS
<1>1. NUM_EVENT_NODES \in Nat \ {0}
  BY SchedulerConstants
<1>2. AllFree \in [1..NUM_EVENT_NODES -> Nodes]
  BY DEF AllFree, Nodes
<1>3. AllFree \in Seq(Nodes) /\ Len(AllFree) = NUM_EVENT_NODES
  BY <1>1, <1>2
<1>4. \A n \in Nodes : AllFree[n] = n
  BY DEF AllFree
<1>5. Len(<< >>) = 0 /\ << >> \in Seq(ListEntry)
  OBVIOUS
<1>6. TypeOK
  BY <1>3, <1>5 DEF Init, TypeOK
<1>7. Sorted
  BY <1>5 DEF Init, Sorted
<1>8. NodesConserved
  BY <1>1, <1>3, <1>4, <1>5 DEF Init, NodesConserved, Nodes
<1>9. QED
  BY <1>6, <1>7, <1>8 DEF IInv

(***************************************************************************)
(* An empty list and a full pool, as scheduler_reset leaves them.          *)
(***************************************************************************)
LEMMA ResetPreserves ==
  ASSUME IInv, Reset
  PROVE  IInv'
<1>1. NUM_EVENT_NODES \in Nat \ {0}
  BY SchedulerConstants
<1>2. AllFree \in [1..NUM_EVENT_NODES -> Nodes]
  BY DEF AllFree, Nodes
<1>3. AllFree \in Seq(Nodes) /\ Len(AllFree) = NUM_EVENT_NODES
  BY <1>1, <1>2
<1>4. \A n \in Nodes : AllFree[n] = n
  BY DEF AllFree
<1>5. Len(<< >>) = 0 /\ << >> \in Seq(ListEntry)
  OBVIOUS
<1>6. TypeOK'
  BY <1>3, <1>5 DEF Reset, IInv, TypeOK
<1>7. Sorted'
  BY <1>5 DEF Reset, Sorted
<1>8. NodesConserved'
  BY <1>1, <1>3, <1>4, <1>5 DEF Reset, NodesConserved, Nodes
<1>9. QED
  BY <1>6, <1>7, <1>8 DEF IInv

LEMMA TickPreserves ==
  ASSUME IInv, NEW ticks \in Nat, Tick(ticks)
  PROVE  IInv'
<1>1. scheduler_ticks' \in Nat /\ fatal' \in BOOLEAN
  BY DEF IInv, TypeOK, Tick
<1>2. CASE HeadIsDue
  <2>1. scheduler_list # << >> /\ scheduler_list \in Seq(ListEntry)
    BY <1>2 DEF HeadIsDue, IInv, TypeOK
  <2>2. /\ 1 \in 1..Len(scheduler_list)
        /\ scheduler_list' = RemoveAt(scheduler_list, 1)
        /\ free_event_nodes' = Append(free_event_nodes, scheduler_list[1].node)
        /\ event' = EventOf(scheduler_list[1])
    BY <1>2, <2>1, TailIsRemoveAt DEF Tick
  <2>3. scheduler_list[1] \in ListEntry
    BY <2>1, <2>2, ElementOfSeq
  <2>4. event' \in [time : Nat, type : EventType]
    BY <2>2, <2>3 DEF EventOf, ListEntry
  <2>5. /\ free_event_nodes' \in Seq(Nodes)
        /\ scheduler_list' \in Seq(ListEntry)
        /\ Sorted'
        /\ NodesConserved'
    BY <2>2, UnlinkPreserves
  <2>6. QED
    BY <1>1, <2>4, <2>5 DEF IInv, TypeOK
<1>3. CASE ~HeadIsDue
  BY <1>1, <1>3 DEF Tick, IInv, TypeOK, Sorted, NodesConserved
<1>4. QED
  BY <1>2, <1>3

LEMMA RemovePreserves ==
  ASSUME IInv, NEW type \in EventType, RemoveEvent(type)
  PROVE  IInv'
<1>1. PICK n \in 1..Len(scheduler_list) :
        /\ scheduler_list' = RemoveAt(scheduler_list, n)
        /\ free_event_nodes' = Append(free_event_nodes, scheduler_list[n].node)
  BY DEF RemoveEvent
<1>2. /\ free_event_nodes' \in Seq(Nodes)
      /\ scheduler_list' \in Seq(ListEntry)
      /\ Sorted'
      /\ NodesConserved'
  BY <1>1, UnlinkPreserves
<1>3. QED
  BY <1>2 DEF RemoveEvent, IInv, TypeOK

LEMMA NextIInv == IInv /\ [Next]_vars => IInv'
<1> SUFFICES ASSUME IInv, [Next]_vars PROVE IInv'
  OBVIOUS
<1>1. ASSUME NEW ticks \in Ticks, Tick(ticks) PROVE IInv'
  BY <1>1, TickPreserves, SchedulerConstants
<1>2. ASSUME NEW delay \in Delays, NEW type \in EventType, EnqueueRelative(delay, type)
      PROVE  IInv'
  <2>1. scheduler_ticks + delay \in Nat
    BY <1>2, SchedulerConstants DEF EnqueueRelative, IInv, TypeOK
  <2>2. QED
    BY <1>2, <2>1, EnqueuePreserves DEF EnqueueRelative
<1>3. ASSUME NEW type \in EventType, RemoveEvent(type) PROVE IInv'
  BY <1>3, RemovePreserves
<1>4. ASSUME NEW type \in EventType, RemoveNothing(type) PROVE IInv'
  BY <1>4 DEF RemoveNothing, IInv, TypeOK, Sorted, NodesConserved
<1>5. CASE PoolExhausted
  BY <1>5 DEF PoolExhausted, IInv, TypeOK, Sorted, NodesConserved
<1>6. CASE Reset
  BY <1>6, ResetPreserves
<1>7. CASE UNCHANGED vars
  BY <1>7 DEF vars, IInv, TypeOK, Sorted, NodesConserved
<1>8. QED
  BY <1>1, <1>2, <1>3, <1>4, <1>5, <1>6, <1>7 DEF Next

LEMMA Inductive == Spec => []IInv
  BY InitIInv, NextIInv, PTL DEF Spec

(***************************************************************************)
(* Every variable keeps its type: in particular the pool and the list hold *)
(* only nodes of the pool, whatever calls the emulator makes.              *)
(***************************************************************************)
THEOREM TypeCorrect == Spec => []TypeOK
<1>1. IInv => TypeOK
  BY DEF IInv
<1>2. QED
  BY <1>1, Inductive, PTL

(***************************************************************************)
(* scheduler_list stays sorted by time, so that looking at its head only,  *)
(* as scheduler_tick does, is enough.                                      *)
(***************************************************************************)
THEOREM ListStaysSorted == Spec => []Sorted
<1>1. IInv => Sorted
  BY DEF IInv
<1>2. QED
  BY <1>1, Inductive, PTL

(***************************************************************************)
(* No node of the pool is ever lost, handed out twice or freed twice.      *)
(***************************************************************************)
THEOREM NodesStayConserved == Spec => []NodesConserved
<1>1. IInv => NodesConserved
  BY DEF IInv
<1>2. QED
  BY <1>1, Inductive, PTL

(***************************************************************************)
(* An idle loop replaced by one jump of the clock (idle_loop_replacement)  *)
(* never jumps over an event.                                              *)
(***************************************************************************)
THEOREM IdleSkipStaysExact == Spec => []IdleSkipIsExact
<1>1. IInv => IdleSkipIsExact
  <2> SUFFICES ASSUME IInv PROVE IdleSkipIsExact
    OBVIOUS
  <2>1. /\ scheduler_ticks \in Nat
        /\ scheduler_list \in Seq(ListEntry)
        /\ Len(scheduler_list) \in Nat
    BY LenProperties DEF IInv, TypeOK
  <2>2. \A i \in 1..Len(scheduler_list) : scheduler_list[i].time \in Nat
    <3>1. \A i \in 1..Len(scheduler_list) : scheduler_list[i] \in ListEntry
      BY <2>1, ElementOfSeq
    <3>2. QED
      BY <3>1 DEF ListEntry
  <2>3. CASE scheduler_list = << >>
    BY <2>1, <2>3 DEF IdleSkipIsExact
  <2>4. CASE scheduler_list # << >>
    <3>1. 1 \in 1..Len(scheduler_list)
      BY <2>1, <2>4, EmptySeq
    <3>2. \A i \in 1..Len(scheduler_list) : scheduler_list[1].time <= scheduler_list[i].time
      BY <2>1, <2>2, <3>1 DEF IInv, Sorted
    <3>3. QED
      BY <2>1, <2>2, <2>4, <3>1, <3>2 DEF IdleSkipIsExact, IdleSkip, TicksUntilNextEvent
  <2>5. QED
    BY <2>3, <2>4
<1>2. QED
  BY <1>1, Inductive, PTL

--------------------------------------------------------------------------------
(***************************************************************************)
(* The refinement of EventQueue.  PendingEvents looks an event up by its   *)
(* node, which NodesConserved makes unique.                                *)
(***************************************************************************)
EventsByNode ==
  /\ DOMAIN PendingEvents = InUse
  /\ \A i \in 1..Len(scheduler_list) :
       /\ scheduler_list[i].node \in InUse
       /\ PendingEvents[scheduler_list[i].node] = EventOf(scheduler_list[i])

LEMMA PendingByNode == IInv => EventsByNode
<1> SUFFICES ASSUME IInv PROVE EventsByNode
  OBVIOUS
<1>1. DOMAIN PendingEvents = InUse
  BY DEF PendingEvents
<1>2. ASSUME NEW i \in 1..Len(scheduler_list)
      PROVE  /\ scheduler_list[i].node \in InUse
             /\ PendingEvents[scheduler_list[i].node] = EventOf(scheduler_list[i])
  <2> DEFINE n == scheduler_list[i].node
  <2>1. n \in InUse
    BY DEF InUse
  <2>2. IndexOf(n) \in 1..Len(scheduler_list) /\ scheduler_list[IndexOf(n)].node = n
    BY DEF IndexOf
  <2>3. IndexOf(n) = i
    BY <2>2 DEF IInv, NodesConserved
  <2> HIDE DEF n
  <2>4. PendingEvents[n] = EventOf(scheduler_list[IndexOf(n)])
    BY <2>1 DEF PendingEvents
  <2>5. QED
    BY <2>1, <2>3, <2>4 DEF n
<1>3. QED
  BY <1>1, <1>2 DEF EventsByNode

LEMMA PendingStaysByNode == IInv' => EventsByNode'
  BY PendingByNode, PTL

(***************************************************************************)
(* The entries of the list are typed, index by index.                      *)
(***************************************************************************)
LEMMA EntriesTyped ==
  ASSUME TypeOK
  PROVE  /\ Len(scheduler_list) \in Nat
         /\ \A i \in 1..Len(scheduler_list) :
              /\ scheduler_list[i].node \in Nodes
              /\ scheduler_list[i].time \in Nat
              /\ EventOf(scheduler_list[i]) \in [time : Nat, type : EventType]
              /\ EventOf(scheduler_list[i]).time = scheduler_list[i].time
              /\ EventOf(scheduler_list[i]).type = scheduler_list[i].type
<1>1. Len(scheduler_list) \in Nat
  BY LenProperties DEF TypeOK
<1>2. \A i \in 1..Len(scheduler_list) : scheduler_list[i] \in ListEntry
  BY ElementOfSeq DEF TypeOK
<1>3. QED
  BY <1>1, <1>2 DEF ListEntry, EventOf

(***************************************************************************)
(* An unlinked node takes its event, and no other, out of the queue.       *)
(***************************************************************************)
LEMMA UnlinkForgets ==
  ASSUME IInv, IInv', NEW n \in 1..Len(scheduler_list),
         scheduler_list' = RemoveAt(scheduler_list, n)
  PROVE  PendingEvents' = Queue!Without(scheduler_list[n].node)
<1> DEFINE len == Len(scheduler_list)
           node == scheduler_list[n].node
<1>1. /\ scheduler_list \in Seq(ListEntry) /\ len \in Nat
      /\ Len(scheduler_list') = len - 1
      /\ \A j \in 1..(len - 1) :
           scheduler_list'[j] = IF j < n THEN scheduler_list[j] ELSE scheduler_list[j + 1]
  BY RemoveAtProperties, LenProperties DEF IInv, TypeOK
<1>2. EventsByNode /\ EventsByNode'
  BY PendingByNode, PendingStaysByNode
<1>3. ASSUME NEW j \in 1..(len - 1)
      PROVE  \E i \in 1..len : i # n /\ scheduler_list'[j] = scheduler_list[i]
  <2>1. CASE j < n
    BY <1>1, <2>1
  <2>2. CASE ~(j < n)
    <3>1. j + 1 \in 1..len /\ j + 1 # n
      BY <1>1, <2>2
    <3>2. QED
      BY <1>1, <2>2, <3>1
  <2>3. QED
    BY <2>1, <2>2
<1>4. ASSUME NEW i \in 1..len, i # n
      PROVE  \E j \in 1..(len - 1) : scheduler_list'[j] = scheduler_list[i]
  <2>1. CASE i < n
    <3>1. i \in 1..(len - 1)
      BY <1>1, <2>1
    <3>2. QED
      BY <1>1, <2>1, <3>1
  <2>2. CASE ~(i < n)
    <3>1. i - 1 \in 1..(len - 1) /\ ~(i - 1 < n) /\ (i - 1) + 1 = i
      BY <1>1, <1>4, <2>2
    <3>2. scheduler_list'[i - 1] = scheduler_list[(i - 1) + 1]
      BY <1>1, <3>1
    <3>3. QED
      BY <3>1, <3>2
  <2>3. QED
    BY <2>1, <2>2
<1>5. \A i \in 1..len : i # n => scheduler_list[i].node # node
  BY DEF IInv, NodesConserved
<1>6. InUse' = InUse \ {node}
  <2>1. ASSUME NEW m \in InUse' PROVE m \in InUse \ {node}
    <3>1. PICK j \in 1..(len - 1) : scheduler_list'[j].node = m
      BY <1>1, <2>1 DEF InUse
    <3>2. QED
      BY <1>3, <1>5, <3>1 DEF InUse
  <2>2. ASSUME NEW m \in InUse, m # node PROVE m \in InUse'
    <3>1. PICK i \in 1..len : scheduler_list[i].node = m
      BY DEF InUse
    <3>2. QED
      BY <1>1, <1>4, <2>2, <3>1 DEF InUse
  <2>3. QED
    BY <2>1, <2>2
<1>7. ASSUME NEW m \in InUse' PROVE PendingEvents'[m] = PendingEvents[m]
  <2>1. PICK j \in 1..(len - 1) : scheduler_list'[j].node = m
    BY <1>1, <1>7 DEF InUse
  <2>2. PICK i \in 1..len : scheduler_list'[j] = scheduler_list[i]
    BY <1>3
  <2>3. PendingEvents'[m] = EventOf(scheduler_list'[j])
    BY <1>1, <1>2, <2>1 DEF EventsByNode, EventOf
  <2>4. PendingEvents[m] = EventOf(scheduler_list[i])
    BY <1>2, <2>1, <2>2 DEF EventsByNode
  <2>5. QED
    BY <2>2, <2>3, <2>4 DEF EventOf
<1>8. PendingEvents' = [m \in InUse' |-> PendingEvents'[m]]
  BY DEF PendingEvents
<1>9. DOMAIN PendingEvents = InUse
  BY <1>2 DEF EventsByNode
<1>10. Queue!Without(node) = [m \in InUse \ {node} |-> PendingEvents[m]]
  BY <1>9 DEF Queue!Without
<1>11. QED
  BY <1>6, <1>7, <1>8, <1>10

LEMMA TickRefines ==
  ASSUME IInv, IInv', NEW ticks \in Nat, Tick(ticks)
  PROVE  Queue!Next
<1>1. scheduler_ticks \in Nat /\ scheduler_ticks' = scheduler_ticks + ticks
  BY DEF Tick, IInv, TypeOK
<1>2. scheduler_ticks' >= scheduler_ticks
  BY <1>1
<1>3. EventsByNode
  BY PendingByNode
<1>4. /\ Len(scheduler_list) \in Nat
      /\ \A i \in 1..Len(scheduler_list) :
           /\ scheduler_list[i].node \in Nodes
           /\ scheduler_list[i].time \in Nat
           /\ EventOf(scheduler_list[i]).time = scheduler_list[i].time
  BY EntriesTyped DEF IInv
<1>5. ASSUME NEW s \in DOMAIN PendingEvents
      PROVE  \E i \in 1..Len(scheduler_list) :
               PendingEvents[s].time = scheduler_list[i].time
  <2>1. PICK i \in 1..Len(scheduler_list) : scheduler_list[i].node = s
    BY <1>3, <1>5 DEF EventsByNode, InUse
  <2>2. QED
    BY <1>3, <1>4, <2>1 DEF EventsByNode
<1>6. scheduler_list # << >> => 1 \in 1..Len(scheduler_list)
  BY <1>4, EmptySeq DEF IInv, TypeOK
<1>7. scheduler_list = << >> => Len(scheduler_list) = 0
  BY EmptySeq
<1>8. scheduler_list # << >> =>
        \A i \in 1..Len(scheduler_list) : scheduler_list[1].time <= scheduler_list[i].time
  BY <1>4, <1>6 DEF IInv, Sorted
<1>9. CASE HeadIsDue
  <2> DEFINE s == scheduler_list[1].node
  <2>1. scheduler_list # << >> /\ 1 \in 1..Len(scheduler_list)
    BY <1>6, <1>9 DEF HeadIsDue
  <2>2. s \in Nodes /\ s \in DOMAIN PendingEvents
    BY <1>3, <1>4, <2>1 DEF EventsByNode
  <2>3. PendingEvents[s] = EventOf(scheduler_list[1])
        /\ PendingEvents[s].time = scheduler_list[1].time
    BY <1>3, <1>4, <2>1 DEF EventsByNode
  <2>4. scheduler_list' = RemoveAt(scheduler_list, 1) /\ event' = EventOf(scheduler_list[1])
    BY <1>9, <2>1, TailIsRemoveAt DEF Tick, IInv, TypeOK
  <2>5. PendingEvents' = Queue!Without(s)
    BY <2>1, <2>4, UnlinkForgets
  <2>6. \A other \in DOMAIN PendingEvents : PendingEvents[s].time <= PendingEvents[other].time
    BY <1>5, <1>8, <2>1, <2>3
  <2>7. PendingEvents[s].time <= scheduler_ticks'
    BY <1>9, <2>3 DEF HeadIsDue
  <2> HIDE DEF s
  <2>8. Queue!Deliver(s)
    BY <1>2, <2>2, <2>3, <2>4, <2>5, <2>6, <2>7 DEF Queue!Deliver
  <2>9. QED
    BY <2>2, <2>8 DEF Queue!Next
<1>10. CASE ~HeadIsDue
  <2>1. UNCHANGED scheduler_list /\ event' = NoEvent
    BY <1>10 DEF Tick
  <2>2. UNCHANGED PendingEvents
    BY <2>1 DEF PendingEvents, InUse, IndexOf, EventOf
  <2>3. ASSUME NEW s \in DOMAIN PendingEvents PROVE PendingEvents[s].time > scheduler_ticks'
    <3>1. PICK i \in 1..Len(scheduler_list) : PendingEvents[s].time = scheduler_list[i].time
      BY <1>5
    <3>2. scheduler_list # << >>
      BY <1>7, <3>1
    <3>3. 1 \in 1..Len(scheduler_list) /\ ~(scheduler_list[1].time <= scheduler_ticks')
      BY <1>6, <1>10, <3>2 DEF HeadIsDue
    <3>4. scheduler_list[1].time <= scheduler_list[i].time
      BY <1>8, <3>2
    <3>5. QED
      BY <1>1, <1>4, <3>1, <3>3, <3>4
  <2>4. QED
    BY <1>2, <2>1, <2>2, <2>3 DEF Queue!Quiet, Queue!Next
<1>11. QED
  BY <1>9, <1>10

LEMMA EnqueueRefines ==
  ASSUME IInv, IInv', NEW at_ticks \in Nat, NEW type \in EventType,
         EnqueueAbsolute(at_ticks, type)
  PROVE  Queue!Next
<1> DEFINE len == Len(scheduler_list)
           new == NewEntry(at_ticks, type)
<1>1. /\ len \in Nat /\ Top \in Nodes /\ Len(free_event_nodes) \in Nat \ {0}
      /\ Len(scheduler_list') = len + 1
  BY EnqueueEffect DEF IInv
<1>2. PICK p \in 1..(len + 1) :
        \A j \in 1..(len + 1) :
          scheduler_list'[j] = IF j < p THEN scheduler_list[j]
                               ELSE IF j = p THEN new ELSE scheduler_list[j - 1]
  BY EnqueueEffect DEF IInv
<1>3. EventsByNode /\ EventsByNode'
  BY PendingByNode, PendingStaysByNode
<1>4. new.node = Top /\ EventOf(new) \in [time : Nat, type : EventType]
  BY DEF NewEntry, EventOf
<1>5. Top \notin InUse
  <2>1. free_event_nodes[Len(free_event_nodes)] = Top
        /\ Len(free_event_nodes) \in 1..Len(free_event_nodes)
    BY <1>1 DEF Top
  <2>2. QED
    BY <1>1, <2>1 DEF IInv, NodesConserved, InUse
<1> HIDE DEF new
<1>6. ASSUME NEW j \in 1..(len + 1)
      PROVE  scheduler_list'[j] = new \/ \E i \in 1..len : scheduler_list'[j] = scheduler_list[i]
  <2>1. CASE j < p
    BY <1>1, <1>2, <2>1
  <2>2. CASE j > p
    <3>1. j - 1 \in 1..len /\ scheduler_list'[j] = scheduler_list[j - 1]
      BY <1>1, <1>2, <2>2
    <3>2. QED
      BY <3>1
  <2>3. QED
    BY <1>2, <2>1, <2>2
<1>7. ASSUME NEW i \in 1..len
      PROVE  \E j \in 1..(len + 1) : scheduler_list'[j] = scheduler_list[i]
  <2>1. CASE i < p
    BY <1>1, <1>2, <2>1
  <2>2. CASE i >= p
    <3>1. i + 1 \in 1..(len + 1) /\ scheduler_list'[i + 1] = scheduler_list[i]
      BY <1>1, <1>2, <2>2
    <3>2. QED
      BY <3>1
  <2>3. QED
    BY <2>1, <2>2
<1>8. scheduler_list'[p] = new /\ p \in 1..Len(scheduler_list')
  BY <1>1, <1>2
<1>9. InUse' = InUse \cup {Top}
  <2>1. ASSUME NEW m \in InUse' PROVE m \in InUse \cup {Top}
    <3>1. PICK j \in 1..(len + 1) : scheduler_list'[j].node = m
      BY <1>1, <2>1 DEF InUse
    <3>2. QED
      BY <1>4, <1>6, <3>1 DEF InUse
  <2>2. ASSUME NEW m \in InUse PROVE m \in InUse'
    <3>1. PICK i \in 1..len : scheduler_list[i].node = m
      BY DEF InUse
    <3>2. QED
      BY <1>1, <1>7, <3>1 DEF InUse
  <2>3. Top \in InUse'
    BY <1>4, <1>8 DEF InUse
  <2>4. QED
    BY <2>1, <2>2, <2>3
<1>10. ASSUME NEW m \in InUse PROVE PendingEvents'[m] = PendingEvents[m]
  <2>1. PICK i \in 1..len : scheduler_list[i].node = m
    BY DEF InUse
  <2>2. PICK j \in 1..(len + 1) : scheduler_list'[j] = scheduler_list[i]
    BY <1>7
  <2>3. PendingEvents'[m] = EventOf(scheduler_list'[j])
    BY <1>1, <1>3, <2>1, <2>2 DEF EventsByNode, EventOf
  <2>4. PendingEvents[m] = EventOf(scheduler_list[i])
    BY <1>3, <2>1 DEF EventsByNode
  <2>5. QED
    BY <2>2, <2>3, <2>4 DEF EventOf
<1>11. PendingEvents'[Top] = EventOf(new)
  BY <1>3, <1>4, <1>8 DEF EventsByNode, EventOf
<1>12. DOMAIN PendingEvents = InUse /\ DOMAIN PendingEvents' = InUse'
  BY <1>3 DEF EventsByNode
<1>13. event' = NoEvent /\ UNCHANGED scheduler_ticks
  BY DEF EnqueueAbsolute
<1>14. Queue!Schedule(Top)
  BY <1>4, <1>5, <1>9, <1>10, <1>11, <1>12, <1>13 DEF Queue!Schedule, Queue!Event
<1>15. QED
  BY <1>1, <1>14 DEF Queue!Next

LEMMA RemoveRefines ==
  ASSUME IInv, IInv', NEW type \in EventType, RemoveEvent(type)
  PROVE  Queue!Next
<1>1. PICK n \in 1..Len(scheduler_list) :
        /\ FirstOfType(n, type)
        /\ scheduler_list' = RemoveAt(scheduler_list, n)
  BY DEF RemoveEvent
<1> DEFINE s == scheduler_list[n].node
<1>2. EventsByNode
  BY PendingByNode
<1>3. /\ Len(scheduler_list) \in Nat
      /\ \A i \in 1..Len(scheduler_list) :
           /\ scheduler_list[i].node \in Nodes
           /\ scheduler_list[i].time \in Nat
           /\ EventOf(scheduler_list[i]).time = scheduler_list[i].time
           /\ EventOf(scheduler_list[i]).type = scheduler_list[i].type
  BY EntriesTyped DEF IInv
<1>4. s \in Nodes /\ s \in DOMAIN PendingEvents
      /\ PendingEvents[s].time = scheduler_list[n].time
      /\ PendingEvents[s].type = type
  BY <1>1, <1>2, <1>3 DEF EventsByNode, FirstOfType
<1>5. ASSUME NEW other \in DOMAIN PendingEvents,
             PendingEvents[other].type = PendingEvents[s].type
      PROVE  PendingEvents[s].time <= PendingEvents[other].time
  <2>1. PICK i \in 1..Len(scheduler_list) : scheduler_list[i].node = other
    BY <1>2, <1>5 DEF EventsByNode, InUse
  <2>2. PendingEvents[other].time = scheduler_list[i].time
        /\ PendingEvents[other].type = scheduler_list[i].type
    BY <1>2, <1>3, <2>1 DEF EventsByNode
  <2>3. ~(i \in 1..(n - 1))
    BY <1>1, <1>4, <1>5, <2>2 DEF FirstOfType
  <2>4. n = i \/ n < i
    BY <1>1, <1>3, <2>1, <2>3
  <2>5. scheduler_list[n].time <= scheduler_list[i].time
    BY <1>1, <1>3, <2>1, <2>4 DEF IInv, Sorted
  <2>6. QED
    BY <1>4, <2>2, <2>5
<1>6. PendingEvents' = Queue!Without(s)
  BY <1>1, UnlinkForgets
<1>7. event' = NoEvent /\ UNCHANGED scheduler_ticks
  BY DEF RemoveEvent
<1> HIDE DEF s
<1>8. Queue!Cancel(s)
  BY <1>4, <1>5, <1>6, <1>7 DEF Queue!Cancel
<1>9. QED
  BY <1>4, <1>8 DEF Queue!Next

LEMMA EmptyIsEmpty == scheduler_list = << >> => PendingEvents = << >>
<1> SUFFICES ASSUME scheduler_list = << >> PROVE PendingEvents = << >>
  OBVIOUS
<1>1. Len(scheduler_list) = 0
  BY EmptySeq
<1>2. InUse = {}
  BY <1>1 DEF InUse
<1>3. PendingEvents = [n \in {} |-> EventOf(scheduler_list[IndexOf(n)])]
  BY <1>2 DEF PendingEvents
<1>4. QED
  BY <1>3

LEMMA EmptyStaysEmpty == (scheduler_list = << >>)' => (PendingEvents = << >>)'
  BY EmptyIsEmpty, PTL

LEMMA NextRefines == IInv /\ IInv' /\ [Next]_vars => [Queue!Next]_(Queue!vars)
<1> SUFFICES ASSUME IInv, IInv', [Next]_vars PROVE [Queue!Next]_(Queue!vars)
  OBVIOUS
<1>1. ASSUME NEW ticks \in Ticks, Tick(ticks) PROVE Queue!Next
  BY <1>1, TickRefines, SchedulerConstants
<1>2. ASSUME NEW delay \in Delays, NEW type \in EventType, EnqueueRelative(delay, type)
      PROVE  Queue!Next
  <2>1. scheduler_ticks + delay \in Nat
    BY <1>2, SchedulerConstants DEF EnqueueRelative, IInv, TypeOK
  <2>2. QED
    BY <1>2, <2>1, EnqueueRefines DEF EnqueueRelative
<1>3. ASSUME NEW type \in EventType, RemoveEvent(type) PROVE Queue!Next
  BY <1>3, RemoveRefines
<1>4. ASSUME UNCHANGED <<scheduler_ticks, scheduler_list>>, event' = NoEvent
      PROVE  Queue!Next
  <2>1. UNCHANGED PendingEvents
    BY <1>4 DEF PendingEvents, InUse, IndexOf, EventOf
  <2>2. QED
    BY <1>4, <2>1 DEF Queue!CancelNothing, Queue!Next
<1>5. CASE Reset
  <2>1. PendingEvents' = << >> /\ scheduler_ticks' = 0 /\ event' = NoEvent
    BY <1>5, EmptyStaysEmpty DEF Reset
  <2>2. QED
    BY <2>1 DEF Queue!Clear, Queue!Next
<1>6. CASE UNCHANGED vars
  BY <1>6 DEF vars, Queue!vars, PendingEvents, InUse, IndexOf, EventOf
<1>7. QED
  BY <1>1, <1>2, <1>3, <1>4, <1>5, <1>6 DEF Next, RemoveNothing, PoolExhausted

(***************************************************************************)
(* The pool, the list and its walks are a queue of events: each event is   *)
(* delivered at most once, when it is due, earliest first, and leaves the  *)
(* queue in no other way than being delivered, removed or cleared.         *)
(***************************************************************************)
THEOREM SchedulerIsAnEventQueue == Spec => ImplementsEventQueue
<1>1. Init => Queue!Init
  BY EmptyIsEmpty DEF Init, Queue!Init
<1>2. QED
  BY <1>1, NextRefines, Inductive, PTL DEF Spec, ImplementsEventQueue, Queue!Spec

--------------------------------------------------------------------------------
(***************************************************************************)
(* CompareTimer.  First remainders, for any divisor.                       *)
(***************************************************************************)
LEMMA DivMod ==
  ASSUME NEW w \in Nat \ {0}, NEW x \in Int
  PROVE  x \div w \in Int /\ x % w \in 0..(w - 1) /\ x = w * (x \div w) + (x % w)
  BY SMTT(30)

LEMMA SmallMultiple ==
  ASSUME NEW w \in Nat \ {0}, NEW d \in Int, w * d < w, w * d > -w
  PROVE  d = 0
  BY SMTT(30)

LEMMA ModUnique ==
  ASSUME NEW w \in Nat \ {0}, NEW q \in Int, NEW r \in 0..(w - 1)
  PROVE  (w * q + r) % w = r
<1> DEFINE x == w * q + r
           p == x \div w
           s == x % w
<1>1. p \in Int /\ s \in 0..(w - 1) /\ w * q + r = w * p + s
  <2>1. x \in Int
    BY SMTT(30)
  <2> HIDE DEF x
  <2>2. p \in Int /\ s \in 0..(w - 1) /\ x = w * p + s
    BY <2>1, DivMod
  <2>3. QED
    BY <2>2 DEF x
<1> HIDE DEF p, s
<1> DEFINE d == q - p
<1>2. d \in Int /\ w * d = s - r
  BY <1>1, SMTT(30)
<1> HIDE DEF d
<1>3. d = 0
  <2>1. w * d < w /\ w * d > -w
    BY <1>1, <1>2
  <2>2. QED
    BY <1>2, <2>1, SmallMultiple
<1>4. s = r
  BY <1>1, <1>2, <1>3, SMTT(30)
<1>5. QED
  BY <1>4 DEF s

LEMMA ModPlus ==
  ASSUME NEW w \in Nat \ {0}, NEW x \in Int, NEW y \in Int
  PROVE  ((x % w) + y) % w = (x + y) % w
<1> DEFINE q == x \div w
           z == (x % w) + y
           p == z \div w
           r == z % w
<1>1. q \in Int /\ x = w * q + (x % w) /\ x % w \in 0..(w - 1)
  BY DivMod
<1>2. z \in Int /\ x + y = w * q + z
  BY <1>1
<1>3. p \in Int /\ z = w * p + r /\ r \in 0..(w - 1)
  <2> HIDE DEF z
  <2>1. QED
    BY <1>2, DivMod
<1> HIDE DEF q, z, p, r
<1>4. x + y = w * (q + p) + r /\ q + p \in Int
  <2>1. w * q \in Int /\ w * p \in Int /\ w * (q + p) = w * q + w * p
    BY <1>1, <1>3, SMTT(30)
  <2>2. QED
    BY <1>1, <1>2, <1>3, <2>1
<1>5. (w * (q + p) + r) % w = r
  BY <1>3, <1>4, ModUnique
<1>6. QED
  BY <1>4, <1>5 DEF r, z

LEMMA ModSmall == ASSUME NEW w \in Nat \ {0}, NEW x \in 0..(w - 1) PROVE x % w = x
  BY SMTT(30)

LEMMA Twice ==
  ASSUME NEW c \in Int
  PROVE  2 * c = c + c /\ (2 * c) \div 2 = c
  OBVIOUS

LEMMA ZeroOrOne == ASSUME NEW r \in Int, r >= 0, r - 1 <= 0 PROVE r \in {0, 1}
  OBVIOUS

LEMMA TwiceSmall ==
  ASSUME NEW s \in Nat \ {0}, NEW c \in 0..(s - 1), 2 * c < s
  PROVE  2 * c \in 0..(s - 1) /\ (2 * c) % s = 2 * c
<1>1. 2 * c \in 0..(s - 1)
  OBVIOUS
<1>2. QED
  BY <1>1, ModSmall

(***************************************************************************)
(* The inductive invariant.  ShiftedMatch says for which moment the code   *)
(* queues the event: the match of Compare without its top bit.  MatchSeen  *)
(* carries Ip7OnlyAfterMatch: when the event becomes due, the registers    *)
(* were equal.                                                             *)
(***************************************************************************)
ShiftedMatch ==
  queued => \E early \in 0..(Block - 1) :
              (count + remaining + early) % Wrap = (2 * compare) % Size

MatchSeen ==
  use_interpreter /\ 2 * compare < Size =>
    /\ queued /\ remaining - index <= 0 => matched
    /\ ip7 => matched

TimerInv == TimerTypeOK /\ ShiftedMatch /\ MatchSeen

LEMMA TimerNumbers ==
  /\ Size \in Nat \ {0} /\ Wrap \in Nat \ {0} /\ Wrap = 2 * Size
  /\ Block \in Nat \ {0}
  /\ use_interpreter => Block = 1
  BY CompareTimerConstants DEF Wrap, Block

(***************************************************************************)
(* reschedule_compare_interrupt computes the distance to the match, seen   *)
(* from the instruction it is told.                                        *)
(***************************************************************************)
LEMMA RescheduleMatches ==
  ASSUME NEW i \in Int, count' \in 0..(Wrap - 1), compare' \in 0..(Size - 1), Reschedule(i)
  PROVE  /\ queued' = TRUE
         /\ remaining' \in 0..(Wrap - 1)
         /\ (count' + remaining' + i) % Wrap = (2 * compare') % Size
<1> DEFINE target == (2 * compare') % Size
           seen == count' + i
           x == target - seen
<1>1. queued' = TRUE /\ remaining' = x % Wrap
  BY DEF Reschedule, InCycles, CompareShifted
<1>2. target \in 0..(Size - 1)
  <2>1. compare' + compare' \in Int
    BY TimerNumbers
  <2>2. 2 * compare' = compare' + compare'
    BY TimerNumbers, Twice
  <2>3. QED
    BY <2>1, <2>2, TimerNumbers, DivMod
<1>3. seen \in Int /\ count' \in Int
  BY TimerNumbers
<1> HIDE DEF target, seen
<1>4. x \in Int /\ x + seen = target /\ target \in 0..(Wrap - 1)
  BY <1>2, <1>3, TimerNumbers
<1> HIDE DEF x
<1>5. x % Wrap \in 0..(Wrap - 1) /\ ((x % Wrap) + seen) % Wrap = target
  <2>1. x % Wrap \in 0..(Wrap - 1)
    BY <1>4, TimerNumbers, DivMod
  <2>2. ((x % Wrap) + seen) % Wrap = (x + seen) % Wrap
    BY <1>3, <1>4, TimerNumbers, ModPlus
  <2>3. target % Wrap = target
    BY <1>4, TimerNumbers, ModSmall
  <2>4. QED
    BY <1>4, <2>1, <2>2, <2>3
<1>6. count' + remaining' + i = (x % Wrap) + seen
  <2>1. remaining' \in Int
    BY <1>1, <1>5, TimerNumbers
  <2>2. QED
    BY <1>1, <1>3, <2>1 DEF seen
<1>7. QED
  BY <1>1, <1>5, <1>6 DEF target

(***************************************************************************)
(* A write to Compare or Count, in either engine: what the four actions    *)
(* have in common.                                                         *)
(***************************************************************************)
LEMMA WritePreserves ==
  ASSUME TimerInv, NEW i \in 0..(Block - 1),
         count' \in 0..(Wrap - 1), compare' \in 0..(Size - 1),
         index \in 0..(Block - 1), index' = index + 1,
         UNCHANGED use_interpreter, Reschedule(i), ip7' \in BOOLEAN, matched' \in BOOLEAN,
         NowMatches => matched', ip7' => ip7 /\ (matched => matched') /\ compare' = compare,
         use_interpreter => i = 0
  PROVE  TimerInv'
<1>0. i \in Int
  BY TimerNumbers
<1>1. /\ queued' = TRUE
      /\ remaining' \in 0..(Wrap - 1)
      /\ (count' + remaining' + i) % Wrap = (2 * compare') % Size
  BY <1>0, RescheduleMatches
<1>2. Block' = Block
  BY DEF Block
<1>3. TimerTypeOK'
  BY <1>1, <1>2, TimerNumbers, CompareTimerConstants DEF TimerInv, TimerTypeOK
<1>4. ShiftedMatch'
  BY <1>1, <1>2 DEF ShiftedMatch
<1>5. MatchSeen'
  <2> SUFFICES ASSUME use_interpreter', 2 * compare' < Size
               PROVE  /\ remaining' - index' <= 0 => matched'
                      /\ ip7' => matched'
    BY DEF MatchSeen
  <2>1. i = 0 /\ index = 0 /\ index' = 1
    BY TimerNumbers
  <2>2. count' \in Int /\ compare' \in Int /\ remaining' \in Int /\ count' >= 0 /\ compare' >= 0
    BY <1>1, TimerNumbers
  <2>3. (count' + remaining') % Wrap = 2 * compare'
    <3>1. (2 * compare') % Size = 2 * compare'
      BY TimerNumbers, TwiceSmall
    <3>2. count' + remaining' + i = count' + remaining'
      BY <2>1, <2>2
    <3>3. QED
      BY <1>1, <3>1, <3>2
  <2>4. ASSUME remaining' - index' <= 0 PROVE matched'
    <3>1. remaining' \in {0, 1}
      <4>1. remaining' >= 0
        BY <1>1, TimerNumbers
      <4>2. remaining' - 1 <= 0
        BY <2>1, <2>4
      <4>3. QED
        BY <2>2, <4>1, <4>2, ZeroOrOne
    <3>2. CASE remaining' = 1
      <4>1. (count' + index') % Wrap = 2 * compare'
        BY <2>1, <2>3, <3>2
      <4>2. Now' = 2 * compare'
        BY <4>1, TimerNumbers DEF Now, Wrap
      <4>3. QED
        BY <4>2 DEF NowMatches
    <3>3. CASE remaining' = 0
      <4>1. (count' + index) % Wrap = 2 * compare'
        BY <2>1, <2>2, <2>3, <3>3
      <4>2. (2 * compare') \div 2 = compare'
        BY <2>2, Twice
      <4>3. QED
        BY <4>1, <4>2 DEF NowMatches
    <3>4. QED
      BY <3>1, <3>2, <3>3
  <2>5. ASSUME ip7' PROVE matched'
    BY <2>5 DEF TimerInv, MatchSeen
  <2>6. QED
    BY <2>4, <2>5
<1>6. QED
  BY <1>3, <1>4, <1>5 DEF TimerInv

\* index as Fits leaves it.
LEMMA FitsInBlock == ASSUME TimerInv, Fits PROVE index \in 0..(Block - 1)
  BY TimerNumbers DEF TimerInv, TimerTypeOK, Fits

LEMMA NowMatchesBool == NowMatches \in BOOLEAN
  BY DEF NowMatches

LEMMA WriteCompareKeeps ==
  ASSUME TimerInv, NEW value \in Compares, WriteCompare(value) \/ WriteCompareCompiled(value)
  PROVE  TimerInv'
<1>1. Fits /\ index' = index + 1 /\ UNCHANGED <<use_interpreter, count>> /\ ip7' = FALSE
      /\ compare' = value /\ matched' = NowMatches
  BY DEF WriteCompare, WriteCompareCompiled, Fits
<1>2. index \in 0..(Block - 1)
  BY <1>1, FitsInBlock
<1>3. count' \in 0..(Wrap - 1) /\ compare' \in 0..(Size - 1)
  BY <1>1, CompareTimerConstants DEF TimerInv, TimerTypeOK
<1>4. PICK i \in 0..(Block - 1) : Reschedule(i) /\ (use_interpreter => i = 0)
  BY <1>2, TimerNumbers DEF WriteCompare, WriteCompareCompiled
<1>5. QED
  BY <1>1, <1>2, <1>3, <1>4, NowMatchesBool, WritePreserves

\* The lower half of a 64-bit count that has one bit more than a register.
LEMMA LowerHalfTyped ==
  ASSUME NEW c \in 0..(Wrap - 1), NEW value \in 0..(Size - 1)
  PROVE  Size * (c \div Size) + ((2 * value) % Size) \in 0..(Wrap - 1)
<1>1. (2 * value) % Size \in 0..(Size - 1)
  <2>1. 2 * value \in Int
    BY TimerNumbers
  <2>2. QED
    BY <2>1, TimerNumbers, DivMod
<1>2. c \div Size \in Int /\ c % Size \in 0..(Size - 1) /\ c = Size * (c \div Size) + (c % Size)
  BY TimerNumbers, DivMod
<1> DEFINE q == c \div Size
           m == Size * q
<1>3. q = 0 \/ q = 1
  <2> HIDE DEF q
  <2>1. q \in Int /\ Size * q > -Size /\ Size * q < 2 * Size
    BY <1>2, TimerNumbers DEF q
  <2>2. q > -1
    BY <2>1, TimerNumbers, SMTT(30)
  <2>3. q < 2
    BY <2>1, TimerNumbers, SMTT(30)
  <2>4. QED
    BY <2>1, <2>2, <2>3
<1>4. m = 0 \/ m = Size
  BY <1>3, TimerNumbers
<1> HIDE DEF q
<1>5. QED
  BY <1>1, <1>4, TimerNumbers DEF m, q

LEMMA WriteCountKeeps ==
  ASSUME TimerInv, NEW value \in Counts, WriteCount(value) \/ WriteCountCompiled(value)
  PROVE  TimerInv'
<1>1. Fits /\ index' = index + 1 /\ UNCHANGED <<use_interpreter, compare, ip7>>
      /\ matched' = (matched \/ NowMatches)
  BY DEF WriteCount, WriteCountCompiled, Fits
<1>2. index \in 0..(Block - 1)
  BY <1>1, FitsInBlock
<1>3. count' \in 0..(Wrap - 1)
  <2>1. value \in 0..(Size - 1) /\ count \in 0..(Wrap - 1)
    BY CompareTimerConstants DEF TimerInv, TimerTypeOK
  <2>2. CASE WriteCount(value)
    BY <2>1, <2>2, TimerNumbers DEF WriteCount
  <2>3. CASE WriteCountCompiled(value)
    BY <2>1, <2>3, LowerHalfTyped DEF WriteCountCompiled
  <2>4. QED
    BY <2>2, <2>3
<1>4. compare' \in 0..(Size - 1) /\ ip7' \in BOOLEAN /\ matched' \in BOOLEAN
  BY <1>1, NowMatchesBool DEF TimerInv, TimerTypeOK
<1>5. PICK i \in 0..(Block - 1) : Reschedule(i) /\ (use_interpreter => i = 0)
  BY <1>2, TimerNumbers DEF WriteCount, WriteCountCompiled
<1>6. QED
  BY <1>1, <1>2, <1>3, <1>4, <1>5, WritePreserves

LEMMA OtherKeeps ==
  ASSUME TimerInv, Other
  PROVE  TimerInv'
<1>1. /\ Fits /\ index' = index + 1
      /\ UNCHANGED <<use_interpreter, count, compare, queued, remaining, ip7>>
      /\ matched' = (matched \/ NowMatches)
  BY DEF Other, Fits
<1>2. index \in 0..(Block - 1) /\ Block' = Block
  BY <1>1, FitsInBlock DEF Block
<1>3. TimerTypeOK'
  BY <1>1, <1>2, NowMatchesBool, TimerNumbers DEF TimerInv, TimerTypeOK
<1>4. ShiftedMatch'
  BY <1>1, <1>2 DEF TimerInv, ShiftedMatch
<1>5. MatchSeen'
  <2> SUFFICES ASSUME use_interpreter, 2 * compare < Size,
                      queued, remaining - index' <= 0, ~matched
               PROVE  NowMatches
    BY <1>1, NowMatchesBool DEF TimerInv, TimerTypeOK, MatchSeen
  <2>1. index = 0 /\ index' = 1
    BY <1>1, <1>2, TimerNumbers
  <2>2. remaining \in Int /\ count \in Int /\ compare \in Nat
    BY TimerNumbers, CompareTimerConstants DEF TimerInv, TimerTypeOK
  <2>3. remaining = 1
    BY <2>1, <2>2 DEF TimerInv, MatchSeen
  <2>4. (count + remaining + 0) % Wrap = (2 * compare) % Size
    BY TimerNumbers DEF TimerInv, ShiftedMatch
  <2>5. (2 * compare) % Size = 2 * compare
    BY TimerNumbers, TwiceSmall DEF TimerInv, TimerTypeOK
  <2>6. (count' + index') % Wrap = 2 * compare'
    <3>1. count + remaining + 0 = count' + index'
      BY <1>1, <2>1, <2>2, <2>3
    <3>2. QED
      BY <1>1, <2>4, <2>5, <3>1
  <2>7. QED
    BY <2>6 DEF NowMatches, Now, Wrap
<1>6. QED
  BY <1>3, <1>4, <1>5 DEF TimerInv

(***************************************************************************)
(* count and the clock move together, so the distance stays right.         *)
(***************************************************************************)
LEMMA EndBlockKeeps ==
  ASSUME TimerInv, EndBlock
  PROVE  TimerInv'
<1>1. /\ index > 0 /\ count' = (count + index) % Wrap /\ index' = 0
      /\ UNCHANGED <<use_interpreter, compare, matched, queued, ip7>>
      /\ queued => remaining - index > -MaxLate
      /\ remaining' = (IF queued THEN remaining - index ELSE remaining)
  BY DEF EndBlock, Advance
<1>2. Block' = Block
  BY <1>1 DEF Block
<1>3. /\ count \in 0..(Wrap - 1) /\ index \in Nat /\ count + index \in Int
      /\ remaining \in (-MaxLate)..(Wrap - 1) /\ MaxLate \in Nat
  BY TimerNumbers, CompareTimerConstants DEF TimerInv, TimerTypeOK
<1>4. count' \in 0..(Wrap - 1)
  BY <1>1, <1>3, TimerNumbers, DivMod
<1>5. remaining' \in (-MaxLate)..(Wrap - 1)
  BY <1>1, <1>3, TimerNumbers
<1>6. TimerTypeOK'
  BY <1>1, <1>2, <1>4, <1>5, TimerNumbers DEF TimerInv, TimerTypeOK
<1>7. ShiftedMatch'
  <2> SUFFICES ASSUME queued
               PROVE  \E early \in 0..(Block - 1) :
                        (count' + remaining' + early) % Wrap = (2 * compare) % Size
    BY <1>1, <1>2 DEF ShiftedMatch
  <2>1. PICK early \in 0..(Block - 1) :
          (count + remaining + early) % Wrap = (2 * compare) % Size
    BY DEF TimerInv, ShiftedMatch
  <2> DEFINE y == remaining - index + early
  <2>2. y \in Int
    BY <1>3, <2>1, TimerNumbers
  <2>3. (((count + index) % Wrap) + y) % Wrap = (count + index + y) % Wrap
    <3> HIDE DEF y
    <3>1. QED
      BY <1>3, <2>2, TimerNumbers, ModPlus
  <2>4. count + index + y = count + remaining + early
    BY <1>3, <2>1, TimerNumbers
  <2>5. ((count + index) % Wrap) + y = count' + remaining' + early
    <3>1. remaining' = remaining - index
      BY <1>1
    <3>2. count' \in Int /\ early \in Int /\ remaining' \in Int
      BY <1>4, <1>5, <2>1, TimerNumbers, CompareTimerConstants
    <3>3. QED
      BY <1>1, <3>1, <3>2
  <2>6. QED
    BY <2>1, <2>3, <2>4, <2>5
<1>8. MatchSeen'
  BY <1>1, <1>3, TimerNumbers DEF TimerInv, MatchSeen
<1>9. QED
  BY <1>6, <1>7, <1>8 DEF TimerInv

LEMMA CompareEventKeeps ==
  ASSUME TimerInv, CompareEvent
  PROVE  TimerInv'
<1>1. /\ queued /\ remaining - index <= 0 /\ index > 0
      /\ count' = (count + index) % Wrap /\ index' = 0
      /\ UNCHANGED <<use_interpreter, compare, matched>>
      /\ ip7' = TRUE /\ Reschedule(0)
  BY DEF CompareEvent, Advance
<1>2. Block' = Block
  BY <1>1 DEF Block
<1>3. count' \in 0..(Wrap - 1) /\ compare' \in 0..(Size - 1)
  <2>1. count + index \in Int
    BY TimerNumbers DEF TimerInv, TimerTypeOK
  <2>2. QED
    BY <1>1, <2>1, TimerNumbers, DivMod DEF TimerInv, TimerTypeOK
<1>4. /\ queued' = TRUE /\ remaining' \in 0..(Wrap - 1)
      /\ (count' + remaining' + 0) % Wrap = (2 * compare') % Size
  <2>1. 0 \in Int
    OBVIOUS
  <2>2. QED
    BY <1>1, <1>3, <2>1, RescheduleMatches
<1>5. TimerTypeOK'
  BY <1>1, <1>2, <1>3, <1>4, TimerNumbers, CompareTimerConstants DEF TimerInv, TimerTypeOK
<1>6. ShiftedMatch'
  BY <1>2, <1>4, TimerNumbers DEF ShiftedMatch
<1>7. MatchSeen'
  BY <1>1 DEF TimerInv, MatchSeen
<1>8. QED
  BY <1>5, <1>6, <1>7 DEF TimerInv

LEMMA TimerInitInv == TimerInit => TimerInv
<1> SUFFICES ASSUME TimerInit PROVE TimerInv
  OBVIOUS
<1>1. 0 \in 0..(Size - 1) /\ 0 \in 0..(Wrap - 1) /\ 0 \in 0..Block
      /\ 0 \in (-MaxLate)..(Wrap - 1)
  BY TimerNumbers, CompareTimerConstants
<1>2. TimerTypeOK
  BY <1>1 DEF TimerInit, TimerTypeOK
<1>3. ShiftedMatch /\ MatchSeen
  BY DEF TimerInit, ShiftedMatch, MatchSeen
<1>4. QED
  BY <1>2, <1>3 DEF TimerInv

LEMMA TimerNextInv == TimerInv /\ [TimerNext]_timer_vars => TimerInv'
<1> SUFFICES ASSUME TimerInv, [TimerNext]_timer_vars PROVE TimerInv'
  OBVIOUS
<1>1. CASE Other
  BY <1>1, OtherKeeps
<1>2. ASSUME NEW value \in Compares, WriteCompare(value) \/ WriteCompareCompiled(value)
      PROVE  TimerInv'
  BY <1>2, WriteCompareKeeps
<1>3. ASSUME NEW value \in Counts, WriteCount(value) \/ WriteCountCompiled(value)
      PROVE  TimerInv'
  BY <1>3, WriteCountKeeps
<1>4. CASE EndBlock
  BY <1>4, EndBlockKeeps
<1>5. CASE CompareEvent
  BY <1>5, CompareEventKeeps
<1>6. CASE UNCHANGED timer_vars
  BY <1>6 DEF timer_vars, TimerInv, TimerTypeOK, Block, ShiftedMatch, MatchSeen
<1>7. QED
  BY <1>1, <1>2, <1>3, <1>4, <1>5, <1>6 DEF TimerNext

LEMMA TimerInductive == TimerSpec => []TimerInv
  BY TimerInitInv, TimerNextInv, PTL DEF TimerSpec

(***************************************************************************)
(* Every variable keeps its type: the distance to the event stays a 33-bit *)
(* number however the registers are written and wrap around.               *)
(***************************************************************************)
THEOREM TimerTyped == TimerSpec => []TimerTypeOK
<1>1. TimerInv => TimerTypeOK
  BY DEF TimerInv
<1>2. QED
  BY <1>1, TimerInductive, PTL

(***************************************************************************)
(* For a Compare whose top bit is clear, the queued event is due when      *)
(* Count equals it, less than a block early at most: for every size of the *)
(* registers, every block and every order of writes, events and delays.    *)
(***************************************************************************)
THEOREM TimerIsOnTime == TimerSpec => []EventAtMatch
<1>1. TimerInv => EventAtMatch
  <2> SUFFICES ASSUME TimerTypeOK, ShiftedMatch, queued, 2 * compare < Size
               PROVE  \E early \in 0..(Block - 1) :
                        (count + remaining + early) % Wrap = 2 * compare
    BY DEF TimerInv, EventAtMatch
  <2>1. (2 * compare) % Size = 2 * compare
    BY TimerNumbers, TwiceSmall DEF TimerTypeOK
  <2>2. QED
    BY <2>1 DEF ShiftedMatch
<1>2. QED
  BY <1>1, TimerInductive, PTL

(***************************************************************************)
(* With the interpreter, the interrupt of a Compare whose top bit is clear *)
(* is not pending before the two registers were equal.                     *)
(***************************************************************************)
THEOREM NoTimerInterruptBeforeMatch == TimerSpec => []Ip7OnlyAfterMatch
<1>1. TimerInv => Ip7OnlyAfterMatch
  BY DEF TimerInv, MatchSeen, Ip7OnlyAfterMatch
<1>2. QED
  BY <1>1, TimerInductive, PTL

(***************************************************************************)
(* A due event that other events delay is not lost: it sets ip7, stays due,*)
(* or one of the two registers is written.                                 *)
(***************************************************************************)
THEOREM DueTimerEventStays == TimerSpec => DueEventNotDropped
<1> DEFINE Step == queued /\ remaining <= 0 => ip7' \/ (queued' /\ remaining' <= 0) \/ Writes
<1>1. TimerInv /\ [TimerNext]_timer_vars => [Step]_timer_vars
  <2> SUFFICES ASSUME TimerInv, TimerNext, queued, remaining <= 0, ~Writes
               PROVE  ip7' \/ (queued' /\ remaining' <= 0)
    OBVIOUS
  <2>1. remaining \in Int /\ index \in Nat
    BY TimerNumbers, CompareTimerConstants DEF TimerInv, TimerTypeOK
  <2>2. Other \/ EndBlock \/ CompareEvent
    BY DEF TimerNext, Writes
  <2>3. CASE Other
    BY <2>3 DEF Other
  <2>4. CASE EndBlock
    <3>1. queued' = queued /\ remaining' = remaining - index
      BY <2>4 DEF EndBlock
    <3>2. QED
      BY <2>1, <3>1
  <2>5. CASE CompareEvent
    BY <2>5 DEF CompareEvent
  <2>6. QED
    BY <2>2, <2>3, <2>4, <2>5
<1>2. QED
  BY <1>1, TimerInductive, PTL DEF TimerSpec, DueEventNotDropped
===============================================================================
