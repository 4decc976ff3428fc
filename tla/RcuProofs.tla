----------------------------- MODULE RcuProofs -----------------------------
(***************************************************************************)
(* Proofs about Rcu, for every number of nodes: the lock, the deferred     *)
(* free, the shape of the list and what the reader loops print.            *)
(***************************************************************************)
EXTENDS Rcu, WellFoundedInduction, TLAPS

-----------------------------------------------------------------------------
(* The lock and the grace period *)

Early == {"kmalloc", "add", "read0", "update", "read1", "load_failed"}
Late  == {"read2", "live", "gone"}

\* Where start() stands decides who holds mylist_lock and whether the deleted
\* node has been found.
LockInv ==
  /\ pc \in Early \cup Late \cup {"delete", "call_rcu", "advance"}
  /\ flag \in {0, 1}
  /\ locked \in BOOLEAN
  /\ pc \in Early => flag = 0 /\ callback = "none"
  /\ pc \in {"call_rcu", "advance"} => flag = 1
  /\ locked <=> pc = "delete" /\ flag = 0

\* Without preemption no grace period ends before start() has returned, so that
\* nothing is freed under its feet.
GraceInv ==
  /\ preempt \in BOOLEAN
  /\ callback \in {"none", "queued", "ready", "done"}
  /\ ~preempt /\ pc \notin {"live", "gone"} => callback \in {"none", "queued"} /\ freed = {}
  /\ NoUseAfterFree

\* Every step keeps the lock to where it belongs.
LEMMA LockStep == ASSUME LockInv, [Next]_vars PROVE LockInv'
<1> USE DEF LockInv, Early, Late
<1>1. CASE Kmalloc
  BY <1>1 DEF Kmalloc
<1>2. CASE ListAddRcu
  BY <1>2 DEF ListAddRcu
<1>3. CASE Read0
  BY <1>3 DEF Read0, Reader
<1>4. CASE Update \/ UpdateEnds
  BY <1>4 DEF Update, UpdateEnds
<1>5. CASE Read1
  BY <1>5 DEF Read1, Reader
<1>6. CASE Delete
  BY <1>6 DEF Delete, SpinUnlock
<1>7. CASE CallRcu \/ Advance
  BY <1>7 DEF CallRcu, Advance
<1>8. CASE DeleteEnds
  BY <1>8 DEF DeleteEnds, SpinUnlock
<1>9. CASE Read2 \/ End
  BY <1>9 DEF Read2, Reader, End
<1>10. CASE Softirq
  BY <1>10 DEF Softirq, GracePeriod, Quiescent, DestroyOldStructure, Kfree
<1>11. CASE UNCHANGED vars
  BY <1>11 DEF vars
<1>12. QED
  BY <1>1, <1>2, <1>3, <1>4, <1>5, <1>6, <1>7, <1>8, <1>9, <1>10, <1>11 DEF Next, Start

\* Every step keeps nodes unfreed while a non-preemptible start() runs.
LEMMA GraceStep == ASSUME LockInv, GraceInv, [Next]_vars PROVE GraceInv'
<1> USE DEF GraceInv, NoUseAfterFree
<1>1. CASE UNCHANGED vars
  BY <1>1 DEF vars
<1>2. ASSUME Next, Softirq PROVE GraceInv'
  BY <1>2 DEF Next, Softirq, GracePeriod, Quiescent, DestroyOldStructure, Kfree
<1>3. ASSUME Next, Start \/ End PROVE GraceInv'
  <2>1. preempt' = preempt /\ freed' = freed /\ pc # "gone"
    BY <1>3 DEF Next, Start, End, Kmalloc, ListAddRcu, Read0, Read1, Read2, Reader, Update,
           UpdateEnds, Delete, SpinUnlock, CallRcu, Advance, DeleteEnds
  <2>2. callback' = callback \/ callback' = "queued"
    BY <1>3 DEF Start, End, Kmalloc, ListAddRcu, Read0, Read1, Read2, Reader, Update,
           UpdateEnds, Delete, SpinUnlock, CallRcu, Advance, DeleteEnds
  <2>3. fault' \in {fault, "double_unlock"} \/ (tmp1 \in freed /\ pc # "live")
    BY <1>3 DEF Start, End, Kmalloc, ListAddRcu, Read0, Read1, Read2, Reader, Update,
           UpdateEnds, Delete, SpinUnlock, CallRcu, Advance, DeleteEnds
  <2>4. pc \in {"live", "gone"} => pc' \in {"live", "gone"}
    BY <1>3 DEF Start, End, Kmalloc, ListAddRcu, Read0, Read1, Read2, Reader, Update,
           UpdateEnds, Delete, SpinUnlock, CallRcu, Advance, DeleteEnds
  <2>5. QED
    BY <1>3, <2>1, <2>2, <2>3, <2>4 DEF Next
<1>4. QED
  BY <1>1, <1>2, <1>3 DEF Next

\* Both invariants hold in every reachable state.
LEMMA Invariance == Spec => [](LockInv /\ GraceInv)
<1>1. Init => LockInv /\ GraceInv
  BY DEF Init, LockInv, GraceInv, NoUseAfterFree, Early, Late
<1>2. QED
  BY <1>1, LockStep, GraceStep, PTL DEF Spec

\* Without kernel preemption no loop of start() touches the freed node, for every
\* length of the list (code.c:204-240).
THEOREM UseCorrect == Spec => []NoUseAfterFree
<1>1. GraceInv => NoUseAfterFree
  BY DEF GraceInv
<1>2. QED
  BY <1>1, Invariance, PTL

-----------------------------------------------------------------------------
(* The shape of the list *)

\* The head and the nodes: everything that has list pointers.
Entries == Nodes \cup {HEAD}

\* The entry in place m of a list of c nodes: the nodes are in the order opposite to
\* that of their creation, new_node stands for node 1 once its data v is 1400, and node 2
\* is left out once f, the flag of the deletion, is set.  The head is on either side.
Spot(c, v, f, m) ==
  IF m < 1 \/ m > c THEN HEAD
  ELSE IF c - m = 1 /\ v = 1400 THEN NewNode
  ELSE IF f = 1 /\ c - m > 1 THEN c - m + 1
  ELSE c - m

\* The two rows of pointers run along these places in both directions and meet in the head.
Circle(nx, pv, c, v, f) ==
  \A m \in 0..c : /\ nx[Spot(c, v, f, m)] = Spot(c, v, f, m + 1)
                  /\ pv[Spot(c, v, f, m + 1)] = Spot(c, v, f, m)

\* How many nodes are in the list, and the entry in its place m.
Count == IF pc \in {"kmalloc", "load_failed"} THEN 0 ELSE i - flag
Place(m) == Spot(Count, data[NewNode], flag, m)

\* Where start() stands when every node is in the list, when new_node has replaced node 1
\* and when node 2 has been removed.
Built == {"read0", "update", "read1", "delete", "call_rcu", "advance", "read2", "live", "gone"}
Updated == Built \ {"read0", "update"}
Removed == {"read2", "live", "gone"}

\* The pointers and the data at every statement of start().
ListInv ==
  /\ i \in 0..element
  /\ pc \in {"kmalloc", "add"} => i < element
  /\ pc \in Built => i = element
  /\ next \in [Entries -> Int]
  /\ prev \in [Entries -> Int]
  /\ data \in [Nodes -> Int]
  /\ \A n \in 0..element-1 : pc \in Built \cup {"add"} \/ n < i => data[n] = 10 * n
  /\ data[NewNode] \in {0, 1400}
  /\ data[NewNode] = 1400 => element > 1 /\ pc \in Built \ {"read0"}
  /\ pc \in Updated /\ element > 1 => data[NewNode] = 1400
  /\ flag = 1 => element > 2
  /\ pc \in Removed /\ element > 2 => flag = 1
  /\ Circle(next, prev, Count, data[NewNode], flag)

\* The cursor of the updating and of the deleting loop is at an entry of the list that is
\* not yet beyond the node the loop looks for.
CursorInv ==
  /\ pc = "update" => \E p \in 1..element+1 :
        tmp1 = Place(p) /\ (element > 1 /\ data[NewNode] # 1400 => p < element)
  /\ pc = "delete" => \E p \in 1..element+1 :
        tmp1 = Place(p) /\ (element > 2 /\ flag = 0 => p < element - 1)
  /\ pc \in {"call_rcu", "advance"} => tmp1 = 2 /\ next[2] = NewNode

\* The statement of reader loop r + 1, and the statements before that loop.
Loop == <<"read0", "read1", "read2">>
Before(r) == IF r = 0 THEN {"kmalloc", "load_failed", "add"}
             ELSE IF r = 1 THEN {"kmalloc", "load_failed", "add", "read0", "update"}
             ELSE {"kmalloc", "load_failed", "add"} \cup (Built \ Removed)

\* What loop r has printed while it runs is what is behind its cursor.
Reading(r) ==
  /\ Len(out[r]) <= Count
  /\ tmp1 = Place(Len(out[r]) + 1)
  /\ out[r] = SubSeq(Expected(r), 1, Len(out[r]))

\* A reader loop prints nothing before it runs, and has printed the whole list after it.
OutAt(r) ==
  /\ pc \in Before(r) => out[r] = <<>>
  /\ pc = Loop[r+1] => Reading(r)
  /\ pc \notin Before(r) \cup {Loop[r+1]} => out[r] = Expected(r)
OutInv == out \in [0..2 -> Seq(Int)] /\ \A r \in 0..2 : OutAt(r)

-----------------------------------------------------------------------------
(* The list operations on a circle *)

\* A place holds an entry, and every place but the outer two holds a node.
LEMMA SpotType ==
  ASSUME NEW c \in 0..element, NEW v \in {0, 1400}, NEW f \in {0, 1}, NEW m \in Int,
         f = 1 => c < element
  PROVE  /\ Spot(c, v, f, m) \in Entries
         /\ m \in 1..c => Spot(c, v, f, m) \in Nodes
BY ElementAssumption DEF Spot, Entries, Nodes, HEAD, NewNode

\* One, two and three assignments to the pointers of entries.
Set1(f, a, x) == [f EXCEPT ![a] = x]
Set2(f, a, x, b, y) == [f EXCEPT ![a] = x, ![b] = y]
Set3(f, a, x, b, y, c, z) == [f EXCEPT ![a] = x, ![b] = y, ![c] = z]

\* What two assignments in a row leave.
LEMMA TwoSet ==
  ASSUME NEW f \in [Entries -> Int], NEW a \in Entries, NEW b \in Entries, NEW x \in Int, NEW y \in Int
  PROVE  /\ Set2(f, a, x, b, y) \in [Entries -> Int]
         /\ Set2(f, a, x, b, y)[b] = y
         /\ a # b => Set2(f, a, x, b, y)[a] = x
         /\ \A d \in Entries : d # a /\ d # b => Set2(f, a, x, b, y)[d] = f[d]
BY DEF Set2

\* What three assignments in a row leave.
LEMMA ThreeSet ==
  ASSUME NEW f \in [Entries -> Int], NEW a \in Entries, NEW b \in Entries, NEW c \in Entries,
         NEW x \in Int, NEW y \in Int, NEW z \in Int
  PROVE  /\ Set3(f, a, x, b, y, c, z) \in [Entries -> Int]
         /\ Set3(f, a, x, b, y, c, z)[c] = z
         /\ b # c => Set3(f, a, x, b, y, c, z)[b] = y
         /\ a # b /\ a # c => Set3(f, a, x, b, y, c, z)[a] = x
         /\ \A d \in Entries : d # a /\ d # b /\ d # c => Set3(f, a, x, b, y, c, z)[d] = f[d]
BY DEF Set3

\* list_add_rcu() of node c in front of nodes c-1, ..., 0 (code.c:119-123).
LEMMA CircleAdd ==
  ASSUME NEW nx \in [Entries -> Int], NEW pv \in [Entries -> Int],
         NEW c \in 0..element-1, Circle(nx, pv, c, 0, 0),
         NEW nn, nn = Set2(nx, c, nx[HEAD], HEAD, c),
         NEW pp, pp = Set2(pv, c, HEAD, nx[HEAD], c)
  PROVE  /\ nn \in [Entries -> Int]
         /\ pp \in [Entries -> Int]
         /\ Circle(nn, pp, c + 1, 0, 0)
<1>0. element \in Nat \ {0} /\ c \in Nat /\ c < element /\ c + 1 \in 0..element
  BY ElementAssumption
<1>1. nx[HEAD] = Spot(c, 0, 0, 1)
  BY <1>0 DEF Circle, Spot
<1>a. nx[HEAD] \in Entries /\ nx[HEAD] # c
  BY <1>0, <1>1 DEF Spot, Entries, Nodes, HEAD, NewNode
<1>b. HEAD \in Int /\ nx[HEAD] \in Int /\ c \in Int /\ c \in Entries /\ c # HEAD /\ HEAD \in Entries /\ HEAD \notin Nodes /\ Nodes \subseteq Entries
  BY <1>0 DEF HEAD, Entries, Nodes
<1>t. nn \in [Entries -> Int] /\ pp \in [Entries -> Int]
  BY <1>a, <1>b, TwoSet
<1>2. SUFFICES ASSUME NEW m \in 0..c+1
               PROVE  /\ nn[Spot(c+1, 0, 0, m)] = Spot(c+1, 0, 0, m + 1)
                      /\ pp[Spot(c+1, 0, 0, m + 1)] = Spot(c+1, 0, 0, m)
  BY <1>t DEF Circle
<1>3. nn[HEAD] = c /\ nn[c] = nx[HEAD] /\ pp[c] = HEAD /\ pp[nx[HEAD]] = c
  BY <1>a, <1>b, TwoSet
<1>4. \A n \in Nodes \ {c} : nn[n] = nx[n]
  BY <1>a, <1>b, TwoSet
<1>5. \A n \in Entries : n # c /\ n # nx[HEAD] => pp[n] = pv[n]
  BY <1>a, <1>b, TwoSet
<1>6. CASE m = 0
  BY <1>6, <1>0, <1>3 DEF Spot
<1>7. CASE m = 1
  BY <1>7, <1>0, <1>1, <1>3 DEF Spot
<1>8. CASE m > 1
  <2>0. m - 1 \in 0..c /\ m - 1 >= 1 /\ m \in Int
    BY <1>8, <1>0
  <2>1. nx[Spot(c, 0, 0, m-1)] = Spot(c, 0, 0, m) /\ pv[Spot(c, 0, 0, m)] = Spot(c, 0, 0, m-1)
    BY <2>0 DEF Circle
  <2>2. Spot(c+1, 0, 0, m) = Spot(c, 0, 0, m-1) /\ Spot(c+1, 0, 0, m+1) = Spot(c, 0, 0, m)
    BY <2>0, <1>0 DEF Spot
  <2>3. Spot(c, 0, 0, m-1) \in Nodes \ {c}
    BY <2>0, <1>0 DEF Spot, Nodes
  <2>4. Spot(c, 0, 0, m) \in Entries /\ Spot(c, 0, 0, m) # c /\ Spot(c, 0, 0, m) # nx[HEAD]
    BY <2>0, <1>0, <1>1, <1>8 DEF Spot, Entries, Nodes, HEAD
  <2> QED
    BY <2>1, <2>2, <2>3, <2>4, <1>4, <1>5
<1> QED
  BY <1>0, <1>6, <1>7, <1>8

\* list_replace_rcu() of node 1 by new_node (code.c:171).
LEMMA CircleReplace ==
  ASSUME NEW nx \in [Entries -> Int], NEW pv \in [Entries -> Int],
         element > 1, Circle(nx, pv, element, 0, 0),
         NEW nn, nn = Set2(nx, NewNode, nx[1], pv[1], NewNode),
         NEW pp, pp = Set3(pv, NewNode, pv[1], nx[1], NewNode, 1, NULL)
  PROVE  /\ nn \in [Entries -> Int]
         /\ pp \in [Entries -> Int]
         /\ Circle(nn, pp, element, 1400, 0)
<1> DEFINE e == element
           Old(m) == Spot(e, 0, 0, m)
           New(m) == Spot(e, 1400, 0, m)
<1>0. e \in Nat /\ e > 1 /\ e - 1 \in 0..e /\ e - 2 \in 0..e
  BY ElementAssumption
<1>1. Old(e-1) = 1 /\ Old(e) = 0 /\ New(e-1) = NewNode /\ New(e) = 0
  BY <1>0 DEF Spot, NewNode
<1>2. nx[1] = 0 /\ pv[1] = Old(e-2)
  <2>1. nx[Old(e-1)] = Old(e-1+1) /\ pv[Old(e-2+1)] = Old(e-2)
    BY <1>0 DEF Circle
  <2> QED
    BY <2>1, <1>1, <1>0
<1>3. Old(e-2) \in Entries /\ Old(e-2) # 0 /\ Old(e-2) # 1 /\ Old(e-2) # NewNode
  BY <1>0 DEF Spot, Entries, Nodes, HEAD, NewNode
<1>4. \A m \in Int : m # e - 1 => New(m) = Old(m) /\ Old(m) # 1 /\ Old(m) # NewNode /\ Old(m) \in Entries
  BY <1>0 DEF Spot, HEAD, NewNode, Entries, Nodes
<1>n. /\ 0 \in Entries /\ 1 \in Entries /\ NewNode \in Entries /\ NewNode # 0 /\ NewNode # 1
      /\ nx[1] \in Int /\ pv[1] \in Int /\ NewNode \in Int /\ NULL \in Int
  BY <1>0 DEF Entries, Nodes, NewNode, NULL
<1>5. nn[NewNode] = 0 /\ nn[Old(e-2)] = NewNode
  BY <1>2, <1>3, <1>n, TwoSet
<1>6. pp[NewNode] = Old(e-2) /\ pp[0] = NewNode
  BY <1>2, <1>n, ThreeSet
<1>7. \A n \in Entries : n # NewNode /\ n # Old(e-2) => nn[n] = nx[n]
  BY <1>2, <1>3, <1>n, TwoSet
<1>8. \A n \in Entries : n # NewNode /\ n # 0 /\ n # 1 => pp[n] = pv[n]
  BY <1>2, <1>n, ThreeSet
<1>t. nn \in [Entries -> Int] /\ pp \in [Entries -> Int]
  BY <1>2, <1>3, <1>n, TwoSet, ThreeSet
<1>9. SUFFICES ASSUME NEW m \in 0..e
               PROVE  nn[New(m)] = New(m+1) /\ pp[New(m+1)] = New(m)
  BY <1>t DEF Circle
<1>10. nx[Old(m)] = Old(m+1) /\ pv[Old(m+1)] = Old(m)
  BY DEF Circle
<1>11. CASE m = e - 1
  BY <1>0, <1>1, <1>5, <1>6, <1>11
<1>12. CASE m = e - 2
  <2>1. m # e - 1 /\ m + 1 = e - 1
    BY <1>0, <1>12
  <2> QED
    BY <2>1, <1>1, <1>4, <1>5, <1>6, <1>12
<1>13. CASE m # e - 1 /\ m # e - 2
  <2>1. m \in Int /\ m + 1 \in Int /\ m + 1 # e - 1
    BY <1>0, <1>13
  <2>2. Old(m) # Old(e-2) /\ Old(m+1) # 0
    BY <1>0, <1>13 DEF Spot, HEAD, NewNode
  <2>3. New(m) = Old(m) /\ New(m+1) = Old(m+1) /\ Old(m) # NewNode /\ Old(m+1) # NewNode /\ Old(m+1) # 1
        /\ Old(m) \in Entries /\ Old(m+1) \in Entries
    BY <1>4, <1>13, <2>1
  <2> HIDE DEF Old, New
  <2> QED
    BY <2>2, <2>3, <1>7, <1>8, <1>10
<1> QED
  BY <1>11, <1>12, <1>13

\* list_del_rcu() of node 2, which keeps its own next pointer (code.c:214).
LEMMA CircleDelete ==
  ASSUME NEW nx \in [Entries -> Int], NEW pv \in [Entries -> Int],
         element > 2, Circle(nx, pv, element, 1400, 0),
         NEW nn, nn = Set1(nx, pv[2], nx[2]),
         NEW pp, pp = Set2(pv, nx[2], pv[2], 2, NULL)
  PROVE  /\ nn \in [Entries -> Int]
         /\ pp \in [Entries -> Int]
         /\ Circle(nn, pp, element - 1, 1400, 1)
         /\ nn[2] = NewNode
<1> DEFINE e == element
           Old(m) == Spot(e, 1400, 0, m)
           New(m) == Spot(e-1, 1400, 1, m)
<1>0. e \in Nat /\ e > 2 /\ e - 2 \in 0..e /\ e - 3 \in 0..e
  BY ElementAssumption
<1>1. Old(e-2) = 2 /\ Old(e-1) = NewNode
  BY <1>0 DEF Spot, NewNode
<1>2. nx[2] = NewNode /\ pv[2] = Old(e-3)
  <2>1. nx[Old(e-2)] = Old(e-2+1) /\ pv[Old(e-3+1)] = Old(e-3)
    BY <1>0 DEF Circle
  <2> QED
    BY <2>1, <1>1, <1>0
<1>3. Old(e-3) \in Entries /\ Old(e-3) # 2 /\ Old(e-3) # NewNode
  BY <1>0 DEF Spot, Entries, Nodes, HEAD, NewNode
<1>4. \A m \in Int : m <= e - 3 => New(m) = Old(m)
  BY <1>0 DEF Spot
<1>5. \A m \in Int : m > e - 3 => New(m) = Old(m+1)
  BY <1>0 DEF Spot
<1>n. 2 \in Entries /\ NewNode \in Entries /\ NewNode # 2 /\ nx[2] \in Int /\ pv[2] \in Int /\ NULL \in Int
  BY <1>0 DEF Entries, Nodes, NewNode, NULL
<1>p. pv[2] \in Entries
  BY <1>2, <1>3
<1>q. nn \in [Entries -> Int] /\ nn[pv[2]] = nx[2] /\ \A n \in Entries : n # pv[2] => nn[n] = nx[n]
  BY <1>n, <1>p DEF Set1
<1>6. nn[Old(e-3)] = NewNode /\ pp[NewNode] = Old(e-3)
  <2>1. pp[nx[2]] = pv[2]
    BY <1>2, <1>n, TwoSet
  <2> QED
    BY <1>2, <1>q, <2>1
<1>7. \A n \in Entries : n # Old(e-3) => nn[n] = nx[n]
  BY <1>2, <1>q
<1>8. \A n \in Entries : n # NewNode /\ n # 2 => pp[n] = pv[n]
  BY <1>2, <1>n, TwoSet
<1>9. \A k \in 0..e : nx[Old(k)] = Old(k+1) /\ pv[Old(k+1)] = Old(k)
  BY DEF Circle
<1>10. ASSUME NEW m \in 0..e-1 PROVE nn[New(m)] = New(m+1) /\ pp[New(m+1)] = New(m)
  <2>11. CASE m = e - 3
    <3>1. New(m) = Old(e-3) /\ New(m+1) = NewNode
      BY <1>0, <2>11 DEF Spot
    <3> QED
      BY <3>1, <1>6
  <2>12. CASE m < e - 3
    <3>1. New(m) = Old(m) /\ New(m+1) = Old(m+1)
      BY <1>0, <1>4, <2>12
    <3>2. Old(m) # Old(e-3) /\ Old(m+1) # NewNode /\ Old(m+1) # 2
          /\ Old(m) \in Entries /\ Old(m+1) \in Entries
      BY <1>0, <2>12 DEF Spot, HEAD, NewNode, Entries, Nodes
    <3>3. nx[Old(m)] = Old(m+1) /\ pv[Old(m+1)] = Old(m)
      BY <1>0, <1>9
    <3> HIDE DEF Old, New
    <3> QED
      BY <3>1, <3>2, <3>3, <1>7, <1>8
  <2>13. CASE m > e - 3
    <3>1. New(m) = Old(m+1) /\ New(m+1) = Old(m+2)
      BY <1>0, <2>13 DEF Spot
    <3>2. Old(m+1) # Old(e-3) /\ Old(m+1) \in Entries
      BY <1>0, <2>13 DEF Spot, HEAD, NewNode, Entries, Nodes
    <3>3. Old(m+2) # NewNode /\ Old(m+2) # 2 /\ Old(m+2) \in Entries
      BY <1>0, <2>13 DEF Spot, HEAD, NewNode, Entries, Nodes
    <3>4. nx[Old(m+1)] = Old(m+2) /\ pv[Old(m+2)] = Old(m+1)
      <4>1. m + 1 \in 0..e /\ m + 1 + 1 = m + 2
        BY <1>0
      <4> QED
        BY <4>1, <1>9
    <3> HIDE DEF Old, New
    <3> QED
      BY <3>1, <3>2, <3>3, <3>4, <1>7, <1>8
  <2> QED
    BY <1>0, <2>11, <2>12, <2>13
<1>11. Circle(nn, pp, e-1, 1400, 1)
  BY <1>10 DEF Circle
<1>12. nn \in [Entries -> Int] /\ pp \in [Entries -> Int]
  <2>1. pp \in [Entries -> Int]
    BY <1>2, <1>n, TwoSet
  <2> QED
    BY <1>q, <2>1
<1>13. nn[2] = NewNode
  BY <1>2, <1>3, <1>7, <1>n
<1> QED
  BY <1>11, <1>12, <1>13

-----------------------------------------------------------------------------
(* Induction, and the chain of a circle *)

\* A set of natural numbers that is not empty has a least element.
LEMMA LeastElement ==
  ASSUME NEW T \in SUBSET Nat, T # {}
  PROVE  \E x \in T : \A y \in T : x <= y
<1> DEFINE R == OpToRel(<, Nat)
<1>1. IsWellFoundedOn(R, Nat)
  BY NatLessThanWellFounded
<1>2. \A x, y \in Nat : x < y => <<x, y>> \in R
  BY DEF OpToRel
<1> HIDE DEF R
<1>3. PICK x \in T : \A y \in T : ~ (<<y, x>> \in R)
  BY <1>1, WFMin
<1>4. ASSUME NEW y \in T PROVE x <= y
  <2>1. x \in Nat /\ y \in Nat
    OBVIOUS
  <2>2. ~ (y < x)
    BY <1>2, <1>3, <2>1
  <2> QED
    BY <2>1, <2>2
<1> QED
  BY <1>4

\* A set with 0 and the successor of each of its numbers has every natural number.
LEMMA SetInduction ==
  ASSUME NEW S, 0 \in S, \A n \in Nat : n \in S => n + 1 \in S
  PROVE  Nat \subseteq S
<1> SUFFICES ASSUME Nat \ S # {} PROVE FALSE
  OBVIOUS
<1>1. PICK x \in Nat \ S : \A y \in Nat \ S : x <= y
  BY LeastElement
<1> QED
  BY <1>1

\* Prefixes of a sequence.
LEMMA PrefixGrows ==
  ASSUME NEW s \in Seq(Int), NEW n \in 0..Len(s)
  PROVE  /\ SubSeq(s, 1, n) \in Seq(Int)
         /\ Len(SubSeq(s, 1, n)) = n
         /\ \A k \in 1..n : SubSeq(s, 1, n)[k] = s[k]
         /\ n < Len(s) => SubSeq(s, 1, n + 1) = Append(SubSeq(s, 1, n), s[n+1])
         /\ SubSeq(s, 1, Len(s)) = s
OBVIOUS

\* Sequences of the same length with the same elements are equal.
LEMMA SameElements ==
  ASSUME NEW a \in Seq(Int), NEW b \in Seq(Int), Len(a) = Len(b), \A k \in 1..Len(a) : a[k] = b[k]
  PROVE  a = b
<1>1. a = [k \in 1..Len(a) |-> a[k]] /\ b = [k \in 1..Len(b) |-> b[k]]
  OBVIOUS
<1> QED
  BY <1>1

\* The empty prefix.
LEMMA PrefixNone == ASSUME NEW s \in Seq(Int) PROVE SubSeq(s, 1, 0) = <<>>
<1>1. SubSeq(s, 1, 0) \in Seq(Int) /\ Len(SubSeq(s, 1, 0)) = 0
  OBVIOUS
<1> QED
  BY <1>1

\* The prefix of length 1.
LEMMA PrefixOne ==
  ASSUME NEW s \in Seq(Int), 0 < Len(s)
  PROVE  SubSeq(s, 1, 1) = <<s[1]>>
<1> DEFINE a == SubSeq(s, 1, 1)
           b == <<s[1]>>
<1>1. a \in Seq(Int) /\ Len(a) = 1 /\ a[1] = s[1]
  OBVIOUS
<1>2. b \in Seq(Int) /\ Len(b) = 1 /\ b[1] = s[1]
  OBVIOUS
<1> HIDE DEF a, b
<1>3. a = b
  BY <1>1, <1>2, SameElements
<1> QED
  BY <1>3 DEF a, b

\* Following the next pointers from the head of a circle visits its places in order.
LEMMA ChainIs ==
  ASSUME NEW c \in 0..element, NEW v \in {0, 1400}, NEW f \in {0, 1},
         f = 1 => c < element, Circle(next, prev, c, v, f)
  PROVE  Chain = [k \in 1..c+1 |-> Spot(c, v, f, k)]
<1> DEFINE list == [k \in 1..c+1 |-> Spot(c, v, f, k)]
           n(m) == IF m < c THEN m + 1 ELSE c + 1
           Rule(g, m) == IF m = 0 THEN <<next[HEAD]>>
                         ELSE IF g[m-1][Len(g[m-1])] = HEAD THEN g[m-1]
                         ELSE Append(g[m-1], next[g[m-1][Len(g[m-1])]])
           Image(g) == [m \in 0..element+1 |-> Rule(g, m)]
           Walks(g) == g = Image(g)
           Copy(g) == [m \in 0..element+1 |-> g[m]]
           W == [m \in 0..element+1 |-> SubSeq(list, 1, n(m))]
           walk == CHOOSE g : Walks(g)
<1>0. element \in Nat \ {0} /\ c \in Nat /\ c <= element
  BY ElementAssumption
<1>1. /\ list \in Seq(Int)
      /\ Len(list) = c + 1
      /\ list[c+1] = HEAD
      /\ next[HEAD] = list[1]
  <2>1. \A k \in 1..c+1 : Spot(c, v, f, k) \in Int
    BY <1>0 DEF Spot, HEAD, NewNode
  <2>2. list \in Seq(Int) /\ Len(list) = c + 1
    BY <1>0, <2>1
  <2>3. Spot(c, v, f, 0) = HEAD /\ Spot(c, v, f, c+1) = HEAD /\ \A k \in 1..c : Spot(c, v, f, k) # HEAD
    BY <1>0 DEF Spot, HEAD, NewNode
  <2>4. \A k \in 0..c : next[Spot(c, v, f, k)] = Spot(c, v, f, k+1)
    BY DEF Circle
  <2> QED
    BY <1>0, <2>2, <2>3, <2>4
<1>s. ASSUME NEW k \in 1..c PROVE next[list[k]] = list[k+1] /\ list[k] # HEAD
  <2>1. k \in 0..c /\ k \in 1..c+1 /\ k + 1 \in 1..c+1
    BY <1>0
  <2>2. next[Spot(c, v, f, k)] = Spot(c, v, f, k+1)
    BY <2>1 DEF Circle
  <2>3. Spot(c, v, f, k) # HEAD
    BY <1>0 DEF Spot, HEAD, NewNode
  <2> QED
    BY <2>1, <2>2, <2>3
<1> HIDE DEF list
<1>2. \A m \in 0..element+1 : W[m] = SubSeq(list, 1, n(m))
  OBVIOUS
<1>3. W = Copy(W)
  OBVIOUS
<1> HIDE DEF W
<1>4. ASSUME NEW m \in 0..element+1 PROVE W[m] = Rule(W, m)
  <2>1. CASE m = 0
    <3>1. n(0) = 1
      BY <1>0
    <3>2. SubSeq(list, 1, 1) = <<list[1]>>
      BY <1>0, <1>1, PrefixOne
    <3> QED
      BY <1>1, <1>2, <2>1, <3>1, <3>2
  <2>2. CASE m > 0 /\ m <= c
    <3>1. m - 1 \in 0..element+1 /\ n(m-1) = m /\ n(m) = m + 1 /\ m \in 1..c /\ m \in 0..Len(list) /\ m < Len(list)
      BY <1>0, <1>1, <2>2
    <3>2. W[m-1] = SubSeq(list, 1, m) /\ W[m] = SubSeq(list, 1, m+1)
      BY <1>2, <3>1
    <3>3. Len(W[m-1]) = m /\ W[m-1][m] = list[m] /\ W[m] = Append(W[m-1], list[m+1])
      BY <1>1, <3>1, <3>2, PrefixGrows
    <3>4. W[m-1][Len(W[m-1])] = list[m]
      BY <3>3
    <3>5. list[m] # HEAD /\ next[list[m]] = list[m+1]
      BY <1>s, <3>1
    <3> QED
      BY <2>2, <3>3, <3>4, <3>5
  <2>3. CASE m > c /\ m > 0
    <3>1. m - 1 \in 0..element+1 /\ n(m-1) = c + 1 /\ n(m) = c + 1 /\ c + 1 \in 0..Len(list)
      BY <1>0, <1>1, <2>3
    <3>2. W[m-1] = list /\ W[m] = list
      BY <1>1, <1>2, <3>1, PrefixGrows
    <3> QED
      BY <1>1, <2>3, <3>2
  <2> QED
    BY <1>0, <2>1, <2>2, <2>3
<1>5. Chain = walk[element+1]
  BY DEF Chain
<1>6. Walks(W)
  <2> HIDE DEF Rule
  <2>1. Image(W) = Copy(W)
    BY <1>4
  <2> HIDE DEF Image, Walks, Copy
  <2>2. W = Image(W)
    BY <1>3, <2>1
  <2> QED
    BY <2>2 DEF Walks
<1>7. Walks(walk)
  <2> HIDE DEF Walks
  <2> QED
    BY <1>6
<1> HIDE DEF walk
<1>8. \A m \in 0..element+1 : walk[m] = Rule(walk, m)
  <2> HIDE DEF Rule
  <2>1. \A m \in 0..element+1 : Image(walk)[m] = Rule(walk, m)
    OBVIOUS
  <2> HIDE DEF Image
  <2> QED
    BY <1>7, <2>1
<1> DEFINE S == {m \in Nat : m <= element+1 => walk[m] = W[m]}
<1>9. 0 \in S
  BY <1>0, <1>4, <1>8
<1>10. ASSUME NEW m \in Nat, m \in S PROVE m + 1 \in S
  <2>1. SUFFICES ASSUME m + 1 <= element + 1 PROVE walk[m+1] = W[m+1]
    OBVIOUS
  <2>2. m + 1 \in 0..element+1 /\ m + 1 # 0 /\ m + 1 - 1 = m /\ walk[m] = W[m]
    BY <1>0, <1>10, <2>1
  <2> QED
    BY <1>4, <1>8, <2>2
<1> HIDE DEF S
<1>11. Nat \subseteq S
  BY <1>9, <1>10, SetInduction
<1>12. walk[element+1] = W[element+1]
  BY <1>0, <1>11 DEF S
<1>13. element + 1 \in 0..element+1 /\ n(element+1) = Len(list)
  BY <1>0, <1>1
<1>14. W[element+1] = list
  BY <1>1, <1>2, <1>13, PrefixGrows
<1> QED
  BY <1>5, <1>12, <1>14 DEF list

-----------------------------------------------------------------------------
(* The list at every step *)

\* The places are distinct and run both ways, which is what ListWellFormed says.
LEMMA WellFormed == ASSUME ListInv, LockInv PROVE ListWellFormed
<1> DEFINE c == Count
           v == data[NewNode]
           At(m) == Spot(c, v, flag, m)
<1>1. c \in 0..element /\ v \in {0, 1400} /\ flag \in {0, 1} /\ (flag = 1 => c < element)
  BY ElementAssumption DEF ListInv, LockInv, Count, Early, Late, Built
<1>2. Circle(next, prev, c, v, flag)
  BY DEF ListInv
<1> HIDE DEF c, v
<1>3. Chain = [k \in 1..c+1 |-> At(k)]
  BY <1>1, <1>2, ChainIs
<1>4. Len(Chain) = c + 1 /\ \A k \in 1..c+1 : Chain[k] = At(k)
  BY <1>1, <1>3
<1>5. At(0) = HEAD /\ At(c+1) = HEAD
  BY <1>1 DEF Spot
<1>6. ASSUME NEW m \in 1..c+1 PROVE prev[Chain[m]] = IF m = 1 THEN HEAD ELSE Chain[m-1]
  <2>1. m - 1 \in 0..c /\ m - 1 + 1 = m
    BY <1>1
  <2>2. prev[At(m)] = At(m-1)
    BY <1>2, <2>1 DEF Circle
  <2>3. m # 1 => m - 1 \in 1..c+1
    BY <1>1
  <2> HIDE DEF At
  <2> QED
    BY <1>4, <1>5, <2>2, <2>3
<1> HIDE DEF At
<1>7. Chain[Len(Chain)] = HEAD
  BY <1>1, <1>4, <1>5
<1> QED
  BY <1>4, <1>6, <1>7 DEF ListWellFormed

\* A loop that finds 10 under its cursor has found node 1, one that finds 20 node 2.
LEMMA CursorNode ==
  ASSUME ListInv, LockInv, pc \in {"update", "delete"}, NEW p \in 1..element+1,
         tmp1 = Place(p), tmp1 # HEAD
  PROVE  /\ p \in 1..Count
         /\ tmp1 \in Nodes
         /\ data[tmp1] = 10 => tmp1 = 1 /\ data[NewNode] = 0 /\ element > 1
         /\ data[tmp1] = 20 => tmp1 = 2 /\ flag = 0 /\ element > 2
<1>1. element \in Nat \ {0} /\ flag \in {0, 1} /\ Count = element - flag /\ data[NewNode] \in {0, 1400}
  BY ElementAssumption DEF ListInv, LockInv, Count, Built
<1>2. flag = 1 => element > 2
  BY DEF ListInv
<1>3. p \in 1..Count
  BY <1>1 DEF Place, Spot
<1>4. tmp1 \in Nodes
  BY <1>1, <1>2, <1>3 DEF Place, Spot, Nodes, NewNode
<1>5. tmp1 \in 0..element-1 => data[tmp1] = 10 * tmp1
  BY DEF ListInv, Built
<1>6. tmp1 \notin 0..element-1 => data[tmp1] \in {0, 1400}
  BY <1>1, <1>4 DEF Entries, Nodes, NewNode
<1>7. data[tmp1] = 10 => tmp1 = 1 /\ element > 1
  BY <1>1, <1>4, <1>5, <1>6 DEF Entries, Nodes
<1>8. data[tmp1] = 20 => tmp1 = 2 /\ element > 2
  BY <1>1, <1>4, <1>5, <1>6 DEF Entries, Nodes
<1>9. tmp1 = 1 => data[NewNode] = 0 \/ element = 1
  BY <1>1, <1>2, <1>3 DEF Place, Spot, Nodes, NewNode
<1>10. tmp1 = 2 => flag = 0 \/ element = 2
  BY <1>1, <1>2, <1>3 DEF Place, Spot, Nodes, NewNode
<1> QED
  BY <1>1, <1>3, <1>4, <1>7, <1>8, <1>9, <1>10

\* The circle of the next state is the circle of its pointers.
LEMMA CirclePrimed ==
  Circle(next, prev, Count, data[NewNode], flag)' <=> Circle(next', prev', Count', data'[NewNode], flag')
BY DEF Circle, Spot, HEAD, NewNode

\* A step that leaves the list alone
LEMMA ListKept ==
  ASSUME ListInv, UNCHANGED <<i, next, prev, data, flag>>, pc \in Built, pc' \in Built,
         pc' = "read0" => pc = "read0",
         pc' \in Updated /\ element > 1 => data[NewNode] = 1400,
         pc' \in Removed /\ element > 2 => flag = 1
  PROVE  ListInv'
<1>1. Count' = Count /\ (NewNode)' = NewNode
  BY DEF Count, Built, NewNode
<1>2. Circle(next, prev, Count, data[NewNode], flag)'
  BY <1>1 DEF ListInv, Circle, Spot, HEAD, NewNode
<1> QED
  BY <1>2 DEF ListInv, Built, Updated, Removed, NewNode, Entries, Nodes, HEAD

\* Every step keeps the list in shape.
LEMMA ListStep == ASSUME ListInv, CursorInv, LockInv, [Next]_vars PROVE ListInv'
<1>0. element \in Nat \ {0}
  BY ElementAssumption
<1>1. CASE Kmalloc
  <2>0. pc = "kmalloc" /\ flag = 0 /\ flag' = 0 /\ pc' \in {"kmalloc", "add", "load_failed"} /\ data[NewNode] = 0
        /\ UNCHANGED <<next, prev>>
    BY <1>1 DEF Kmalloc, LockInv, Early, ListInv, Built
  <2>1. Count' = 0 /\ Count = 0
    BY <1>0, <1>1, <2>0 DEF Kmalloc, Count, ListInv
  <2>2. data' \in [Nodes -> Int] /\ data'[NewNode] = 0
    BY <1>0, <1>1, <2>0 DEF Kmalloc, ListInv, Nodes, NewNode
  <2>3. i' \in 0..element /\ (pc' \in {"kmalloc", "add"} => i' < element)
    BY <1>0, <1>1, <2>0 DEF Kmalloc, ListInv
  <2>4. ASSUME NEW n \in 0..element-1, pc' \in Built \cup {"add"} \/ n < i' PROVE data'[n] = 10 * n
    <3>1. n < i => data[n] = 10 * n
      BY DEF ListInv
    <3>2. data \in [Nodes -> Int] /\ i \in Nodes /\ n \in Nodes
      BY <1>0 DEF ListInv, Nodes
    <3>3. CASE data' = data /\ i' = i /\ pc' = "load_failed"
      BY <2>4, <3>1, <3>3 DEF Built
    <3>4. CASE data' = [data EXCEPT ![i] = 10 * i] /\ i' = IF i + 1 < element THEN i + 1 ELSE 0
      <4>1. n < i + 1
        BY <1>0, <1>1, <2>4, <3>2, <3>4 DEF Kmalloc, Built, Nodes
      <4> QED
        BY <3>1, <3>2, <3>4, <4>1 DEF Entries, Nodes
    <3> QED
      BY <1>1, <3>3, <3>4 DEF Kmalloc
  <2>5. Circle(next, prev, Count, data[NewNode], flag)'
    BY <2>0, <2>1, <2>2 DEF ListInv, Circle, Spot, HEAD, NewNode
  <2> QED
    BY <2>0, <2>2, <2>3, <2>4, <2>5 DEF ListInv, Built, Updated, Removed
<1>2. CASE ListAddRcu
  <2>0. pc = "add" /\ flag = 0 /\ flag' = 0 /\ pc' \in {"add", "read0"} /\ data[NewNode] = 0 /\ data' = data
        /\ i \in 0..element-1 /\ i' = i + 1 /\ (pc' = "add" <=> i + 1 < element)
    BY <1>0, <1>2 DEF ListAddRcu, LockInv, Early, ListInv, Built
  <2>1. Count' = i + 1 /\ Count = i
    BY <1>0, <1>2, <2>0 DEF Count
  <2>2. Circle(next, prev, i, 0, 0)
    BY <2>0, <2>1 DEF ListInv
  <2>3. next' = Set2(next, i, next[HEAD], HEAD, i) /\ prev' = Set2(prev, i, HEAD, next[HEAD], i)
    BY <1>2 DEF ListAddRcu, AddedPrev, Set2
  <2>4. next \in [Entries -> Int] /\ prev \in [Entries -> Int]
    BY DEF ListInv
  <2>5. Circle(next', prev', i + 1, 0, 0) /\ next' \in [Entries -> Int] /\ prev' \in [Entries -> Int]
    BY <2>0, <2>2, <2>3, <2>4, CircleAdd
  <2>6. Circle(next, prev, Count, data[NewNode], flag)'
    BY <2>0, <2>1, <2>5, CirclePrimed
  <2> QED
    BY <1>0, <2>0, <2>5, <2>6 DEF ListInv, Built, Updated, Removed, Nodes, NewNode
<1>3. CASE Read0
  BY <1>3, ListKept DEF Read0, Reader, Built, Updated, Removed
<1>4. CASE Update
  <2>0. pc = "update" /\ pc' = "update" /\ tmp1 # HEAD /\ flag = 0 /\ flag' = 0 /\ UNCHANGED i /\ i = element
    BY <1>4 DEF Update, LockInv, Early, ListInv, Built
  <2>1. CASE data[tmp1] = 10
    <3>1. tmp1 = 1 /\ data[NewNode] = 0 /\ element > 1
      BY <2>0, <2>1, CursorNode DEF CursorInv
    <3>2. Circle(next, prev, element, 0, 0)
      BY <2>0, <3>1 DEF ListInv, Count
    <3>3. next' = Set2(next, NewNode, next[1], prev[1], NewNode)
          /\ prev' = Set3(prev, NewNode, prev[1], next[1], NewNode, 1, NULL)
          /\ data' = [data EXCEPT ![NewNode] = 1400]
      BY <1>4, <2>1, <3>1 DEF Update, ReplacedNext, Set2, Set3
    <3>4. next \in [Entries -> Int] /\ prev \in [Entries -> Int] /\ data \in [Nodes -> Int]
      BY DEF ListInv
    <3>5. Circle(next', prev', element, 1400, 0) /\ next' \in [Entries -> Int] /\ prev' \in [Entries -> Int]
      BY <3>1, <3>2, <3>3, <3>4, CircleReplace
    <3>6. data'[NewNode] = 1400 /\ data' \in [Nodes -> Int] /\ \A n \in 0..element-1 : data'[n] = data[n]
      BY <1>0, <3>3, <3>4 DEF Entries, Nodes, NewNode
    <3>7. Count' = element
      BY <1>0, <2>0 DEF Count
    <3>8. Circle(next, prev, Count, data[NewNode], flag)'
      BY <2>0, <3>5, <3>6, <3>7, CirclePrimed
    <3> QED
      BY <1>0, <2>0, <3>1, <3>4, <3>5, <3>6, <3>8 DEF ListInv, Built, Updated, Removed
  <2>2. CASE data[tmp1] # 10
    BY <1>4, <2>0, <2>2, ListKept DEF Update, Built, Updated, Removed
  <2> QED
    BY <2>1, <2>2
<1>5. CASE UpdateEnds
  <2>1. element > 1 => data[NewNode] = 1400
    <3>1. PICK p \in 1..element+1 : tmp1 = Place(p) /\ (element > 1 /\ data[NewNode] # 1400 => p < element)
      BY <1>5 DEF UpdateEnds, CursorInv
    <3>2. tmp1 = HEAD /\ Count = element
      BY <1>0, <1>5 DEF UpdateEnds, Count, ListInv, Built, LockInv, Early
    <3> QED
      BY <1>0, <3>1, <3>2 DEF Place, Spot, HEAD, NewNode
  <2> QED
    BY <1>5, <2>1, ListKept DEF UpdateEnds, Built, Updated, Removed
<1>6. CASE Read1
  <2>1. pc = "read1" /\ pc' \in {"read1", "delete"} /\ UNCHANGED <<i, next, prev, data, flag>>
    BY <1>6 DEF Read1, Reader
  <2>2. element > 1 => data[NewNode] = 1400
    BY <2>1 DEF ListInv, Built, Updated
  <2> QED
    BY <2>1, <2>2, ListKept DEF Built, Updated, Removed
<1>7. CASE Delete
  <2>0. pc = "delete" /\ tmp1 # HEAD /\ UNCHANGED <<i, data>> /\ i = element /\ pc' \in {"delete", "call_rcu"}
        /\ (element > 1 => data[NewNode] = 1400)
    BY <1>7 DEF Delete, ListInv, Built, Updated
  <2>1. CASE data[tmp1] = 20
    <3>1. tmp1 = 2 /\ flag = 0 /\ element > 2 /\ data[NewNode] = 1400
      BY <1>0, <2>0, <2>1, CursorNode DEF CursorInv
    <3>2. Circle(next, prev, element, 1400, 0)
      BY <1>0, <2>0, <3>1 DEF ListInv, Count
    <3>3. next' = Set1(next, prev[2], next[2])
          /\ prev' = Set2(prev, next[2], prev[2], 2, NULL)
          /\ flag' = 1
      BY <1>7, <2>1, <3>1 DEF Delete, Set1, Set2
    <3>4. next \in [Entries -> Int] /\ prev \in [Entries -> Int]
      BY DEF ListInv
    <3>5. Circle(next', prev', element - 1, 1400, 1) /\ next' \in [Entries -> Int] /\ prev' \in [Entries -> Int]
      BY <3>1, <3>2, <3>3, <3>4, CircleDelete
    <3>6. Count' = element - 1
      BY <1>0, <2>0, <3>3 DEF Count
    <3>7. Circle(next, prev, Count, data[NewNode], flag)'
      BY <2>0, <3>1, <3>3, <3>5, <3>6, CirclePrimed
    <3> QED
      BY <1>0, <2>0, <3>1, <3>3, <3>5, <3>7 DEF ListInv, Built, Updated, Removed
  <2>2. CASE data[tmp1] # 20
    BY <1>7, <2>0, <2>2, ListKept DEF Delete, Built, Updated, Removed
  <2> QED
    BY <2>1, <2>2
<1>8. CASE CallRcu \/ Advance
  <2>1. pc \in {"call_rcu", "advance"} /\ pc' \in {"advance", "delete"}
        /\ UNCHANGED <<i, next, prev, data, flag>>
    BY <1>8 DEF CallRcu, Advance
  <2>2. element > 1 => data[NewNode] = 1400
    BY <2>1 DEF ListInv, Built, Updated
  <2> QED
    BY <2>1, <2>2, ListKept DEF Built, Updated, Removed
<1>9. CASE DeleteEnds
  <2>1. element > 2 => flag = 1
    <3>1. PICK p \in 1..element+1 : tmp1 = Place(p) /\ (element > 2 /\ flag = 0 => p < element - 1)
      BY <1>9 DEF DeleteEnds, CursorInv
    <3>2. tmp1 = HEAD /\ Count = element - flag /\ flag \in {0, 1}
      BY <1>0, <1>9 DEF DeleteEnds, Count, ListInv, Built, LockInv
    <3> QED
      BY <1>0, <3>1, <3>2 DEF Place, Spot, HEAD, NewNode
  <2>2. pc = "delete" /\ pc' = "read2" /\ UNCHANGED <<i, next, prev, data, flag>>
    BY <1>9 DEF DeleteEnds
  <2>3. element > 1 => data[NewNode] = 1400
    BY <2>2 DEF ListInv, Built, Updated
  <2> QED
    BY <2>1, <2>2, <2>3, ListKept DEF Built, Updated, Removed
<1>10. CASE Read2 \/ End
  <2>1. pc \in {"read2", "live"} /\ pc' \in {"read2", "live", "gone"}
        /\ UNCHANGED <<i, next, prev, data, flag>>
    BY <1>10 DEF Read2, Reader, End
  <2>2. (element > 1 => data[NewNode] = 1400) /\ (element > 2 => flag = 1)
    BY <2>1 DEF ListInv, Built, Updated, Removed
  <2> QED
    BY <2>1, <2>2, ListKept DEF Built, Updated, Removed
<1>11. CASE Softirq \/ UNCHANGED vars
  <2>1. UNCHANGED <<pc, i, next, prev, data, flag>>
    BY <1>11 DEF Softirq, GracePeriod, DestroyOldStructure, vars
  <2>2. Count' = Count
    BY <2>1 DEF Count
  <2>3. Circle(next, prev, Count, data[NewNode], flag)' <=> Circle(next, prev, Count, data[NewNode], flag)
    BY <2>1, <2>2, CirclePrimed
  <2> QED
    BY <2>1, <2>3 DEF ListInv, Entries, Nodes, HEAD, NewNode
<1>12. QED
  BY <1>1, <1>2, <1>3, <1>4, <1>5, <1>6, <1>7, <1>8, <1>9, <1>10, <1>11 DEF Next, Start

\* The places stay as long as the number of nodes, the data of new_node and the flag do.
LEMMA PlaceKept ==
  ASSUME Count' = Count, data'[NewNode] = data[NewNode], flag' = flag, NEW p
  PROVE  Place(p)' = Place(p)
BY DEF Place, Spot, HEAD, NewNode

\* The places of the next state.
LEMMA PlaceIs == ASSUME NEW p PROVE Place(p)' = Spot(Count', data'[NewNode], flag', p)
BY DEF Place, Spot, HEAD, NewNode

\* The successor of a listed entry is the one in the next place.
LEMMA NextPlace ==
  ASSUME ListInv, NEW p \in 0..Count
  PROVE  next[Place(p)] = Place(p + 1)
BY DEF ListInv, Circle, Place

\* A loop starts with the entry in place 1.
LEMMA FirstPlace ==
  ASSUME ListInv, LockInv
  PROVE  next[HEAD] = Place(1) /\ Count \in Nat
<1>1. Count \in Nat /\ 0 \in 0..Count
  BY ElementAssumption DEF Count, ListInv, LockInv, Early, Late, Built
<1>2. Place(0) = HEAD
  BY <1>1 DEF Place, Spot
<1> QED
  BY <1>1, <1>2, NextPlace

\* Every step keeps the cursors of the updating and of the deleting loop in the list.
LEMMA CursorStep ==
  ASSUME ListInv, CursorInv, LockInv, [Next]_vars
  PROVE  CursorInv'
<1>0. element \in Nat \ {0} /\ 1 \in 1..element+1
  BY ElementAssumption
<1>1. CASE Kmalloc \/ ListAddRcu
  BY <1>1 DEF Kmalloc, ListAddRcu, CursorInv
<1>2. CASE Read0
  <2>1. pc = "read0" /\ UNCHANGED <<i, data, next, flag>> /\ pc' \in {"read0", "update"}
        /\ (pc' = "update" => tmp1' = next[HEAD])
    BY <1>2 DEF Read0, Reader
  <2>2. Count' = Count
    BY <2>1 DEF Count
  <2>3. Place(1)' = Place(1)
    BY <2>1, <2>2, PlaceKept
  <2>4. pc' = "update" => tmp1' = Place(1)'
    BY <2>1, <2>3, FirstPlace
  <2> QED
    BY <1>0, <2>1, <2>4 DEF CursorInv
<1>3. CASE Update
  <2>0. pc = "update" /\ pc' = "update" /\ tmp1 # HEAD /\ UNCHANGED <<i, flag>> /\ tmp1' = next[tmp1]
        /\ flag = 0 /\ i = element
    BY <1>3 DEF Update, LockInv, Early, ListInv, Built
  <2>c. Count = element /\ Count' = element
    BY <1>0, <2>0 DEF Count
  <2>1. PICK p \in 1..element+1 : tmp1 = Place(p) /\ (element > 1 /\ data[NewNode] # 1400 => p < element)
    BY <2>0 DEF CursorInv
  <2>2. /\ p \in 1..Count
        /\ data[tmp1] = 10 => tmp1 = 1 /\ data[NewNode] = 0 /\ element > 1
    BY <2>0, <2>1, CursorNode
  <2>3. tmp1' = Place(p+1)
    <3>1. p \in 0..Count
      BY <2>2, <2>c
    <3> QED
      BY <2>0, <2>1, <3>1, NextPlace
  <2>4. CASE data[tmp1] = 10
    <3>1. data' = [data EXCEPT ![NewNode] = 1400]
      BY <1>3, <2>4 DEF Update
    <3>2. data'[NewNode] = 1400
      BY <1>0, <3>1 DEF ListInv, Nodes, NewNode
    <3>3. p = element - 1
      BY <1>0, <2>0, <2>1, <2>2, <2>4, <2>c DEF Place, Spot
    <3>4. Place(p+1) = 0
      BY <1>0, <2>0, <2>2, <2>4, <2>c, <3>3 DEF Place, Spot
    <3>5. Spot(Count', data'[NewNode], flag', p+1) = 0
      BY <1>0, <2>0, <2>c, <3>2, <3>3 DEF Spot
    <3>6. tmp1' = Place(p+1)' /\ p + 1 \in 1..element+1
      BY <1>0, <2>3, <3>3, <3>4, <3>5, PlaceIs
    <3> QED
      BY <2>0, <3>2, <3>6 DEF CursorInv, NewNode
  <2>5. CASE data[tmp1] # 10
    <3>1. data' = data
      BY <1>3, <2>5 DEF Update
    <3>2. tmp1' = Place(p+1)' /\ p + 1 \in 1..element+1
      BY <1>0, <2>0, <2>2, <2>3, <2>c, <3>1, PlaceKept
    <3>3. ASSUME element > 1, data[NewNode] # 1400 PROVE p + 1 < element
      <4>1. p < element
        BY <2>1, <3>3
      <4>2. p = element - 1 => tmp1 = 1
        BY <1>0, <2>0, <2>1, <2>c, <3>3 DEF Place, Spot
      <4>3. data[1] = 10
        BY <1>0, <2>0, <3>3 DEF ListInv, Built
      <4> QED
        BY <1>0, <2>5, <4>1, <4>2, <4>3
    <3> QED
      BY <2>0, <3>1, <3>2, <3>3 DEF CursorInv, NewNode
  <2> QED
    BY <2>4, <2>5
<1>4. CASE UpdateEnds \/ DeleteEnds \/ Read2 \/ End
  BY <1>4 DEF UpdateEnds, DeleteEnds, Read2, Reader, End, CursorInv
<1>5. CASE Read1
  <2>1. pc = "read1" /\ UNCHANGED <<i, data, next, flag>> /\ pc' \in {"read1", "delete"}
        /\ (pc' = "delete" => tmp1' = next[HEAD])
    BY <1>5 DEF Read1, Reader
  <2>2. Count' = Count
    BY <2>1 DEF Count
  <2>3. Place(1)' = Place(1)
    BY <2>1, <2>2, PlaceKept
  <2>4. pc' = "delete" => tmp1' = Place(1)'
    BY <2>1, <2>3, FirstPlace
  <2> QED
    BY <1>0, <2>1, <2>4 DEF CursorInv
<1>6. CASE Delete
  <2>0. pc = "delete" /\ tmp1 # HEAD /\ UNCHANGED <<i, data>> /\ i = element /\ flag \in {0, 1}
    BY <1>6 DEF Delete, ListInv, Built, LockInv
  <2>c. Count = element - flag
    BY <1>0, <2>0 DEF Count
  <2>1. PICK p \in 1..element+1 : tmp1 = Place(p) /\ (element > 2 /\ flag = 0 => p < element - 1)
    BY <2>0 DEF CursorInv
  <2>2. /\ p \in 1..Count
        /\ data[tmp1] = 20 => tmp1 = 2 /\ flag = 0 /\ element > 2
    BY <2>0, <2>1, CursorNode
  <2>4. CASE data[tmp1] = 20
    <3>1. tmp1 = 2 /\ flag = 0 /\ element > 2 /\ data[NewNode] = 1400
      BY <1>0, <2>0, <2>2, <2>4 DEF ListInv, Updated, Built
    <3>2. Circle(next, prev, element, 1400, 0)
      BY <1>0, <2>0, <3>1 DEF ListInv, Count
    <3>3. next' = Set1(next, prev[2], next[2])
          /\ prev' = Set2(prev, next[2], prev[2], 2, NULL)
          /\ tmp1' = tmp1 /\ pc' = "call_rcu"
      BY <1>6, <2>4, <3>1 DEF Delete, Set1, Set2
    <3>4. next \in [Entries -> Int] /\ prev \in [Entries -> Int]
      BY DEF ListInv
    <3>5. next'[2] = NewNode
      BY <3>1, <3>2, <3>3, <3>4, CircleDelete
    <3> QED
      BY <3>1, <3>3, <3>5 DEF CursorInv, NewNode
  <2>5. CASE data[tmp1] # 20
    <3>1. tmp1' = next[tmp1] /\ UNCHANGED <<flag, pc>>
      BY <1>6, <2>5 DEF Delete
    <3>2. tmp1' = Place(p+1) /\ p + 1 \in 1..element+1
      <4>1. p \in 0..Count /\ p + 1 \in 1..element+1
        BY <1>0, <2>0, <2>2, <2>c
      <4> QED
        BY <2>1, <3>1, <4>1, NextPlace
    <3>3. Count' = Count
      BY <2>0, <3>1 DEF Count
    <3>4. tmp1' = Place(p+1)'
      BY <2>0, <3>1, <3>2, <3>3, PlaceKept
    <3>5. ASSUME element > 2, flag = 0 PROVE p + 1 < element - 1
      <4>1. p < element - 1
        BY <2>1, <3>5
      <4>2. p = element - 2 => tmp1 = 2
        BY <1>0, <2>0, <2>1, <2>c, <3>5 DEF Place, Spot
      <4>3. data[2] = 20
        BY <1>0, <2>0, <3>5 DEF ListInv, Built
      <4> QED
        BY <1>0, <2>5, <4>1, <4>2, <4>3
    <3> QED
      BY <2>0, <3>1, <3>2, <3>4, <3>5 DEF CursorInv
  <2> QED
    BY <2>4, <2>5
<1>7. CASE CallRcu
  BY <1>7 DEF CallRcu, CursorInv, NewNode
<1>8. CASE Advance
  <2>0. pc = "advance" /\ UNCHANGED <<i, data, next, flag>> /\ flag = 1 /\ i = element
        /\ element > 2 /\ data[NewNode] = 1400 /\ tmp1 = 2 /\ next[2] = NewNode
    BY <1>0, <1>8 DEF Advance, LockInv, ListInv, CursorInv, Built, Updated
  <2>1. CASE tmp1 \in freed
    BY <1>8, <2>0, <2>1 DEF Advance, CursorInv, NewNode
  <2>2. CASE tmp1 \notin freed
    <3>1. pc' = "delete" /\ tmp1' = NewNode
      BY <1>8, <2>0, <2>2 DEF Advance
    <3>2. Count' = element - 1 /\ element - 2 \in 1..element+1
      BY <1>0, <2>0, <3>1 DEF Count
    <3>3. Spot(Count', data'[NewNode], flag', element - 2) = NewNode
      BY <1>0, <2>0, <3>2 DEF Spot
    <3>4. Place(element - 2)' = NewNode
      BY <3>3, PlaceIs
    <3> QED
      BY <2>0, <3>1, <3>2, <3>4 DEF CursorInv
  <2> QED
    BY <2>1, <2>2
<1>9. CASE Softirq \/ UNCHANGED vars
  <2>1. UNCHANGED <<pc, i, next, prev, data, flag, tmp1>>
    BY <1>9 DEF Softirq, GracePeriod, DestroyOldStructure, vars
  <2>2. Count' = Count
    BY <2>1 DEF Count
  <2>3. ASSUME NEW p PROVE Place(p)' = Place(p)
    BY <2>1, <2>2, PlaceKept
  <2> QED
    BY <2>1, <2>3 DEF CursorInv, NewNode
<1> QED
  BY <1>1, <1>2, <1>3, <1>4, <1>5, <1>6, <1>7, <1>8, <1>9 DEF Next, Start

-----------------------------------------------------------------------------
(* What the reader loops print *)

\* What the nodes hold and how many there are when loop r runs.
ValAt(r) == IF r > 0 /\ element > 1 THEN 1400 ELSE 0
FlagAt(r) == IF r = 2 /\ element > 2 THEN 1 ELSE 0

\* The data of node n, and the m-th value that loop r prints.
Datum(v, n) == IF n = NewNode THEN v ELSE 10 * n
Printed(r, m) == Datum(ValAt(r), Spot(element - FlagAt(r), ValAt(r), FlagAt(r), m))

\* Expected(r) is the data of the nodes in place when loop r runs.
LEMMA ExpectedIs ==
  ASSUME NEW r \in 0..2
  PROVE  /\ Expected(r) \in Seq(Int)
         /\ Len(Expected(r)) = element - FlagAt(r)
         /\ \A m \in 1..element - FlagAt(r) : Expected(r)[m] = Printed(r, m)
<1> DEFINE all == [m \in 1..element |-> 10 * (element - m)]
           new == [m \in 1..element |-> IF all[m] = 10 THEN 1400 ELSE all[m]]
           short == [m \in 1..element-1 |-> IF m < element - 2 THEN new[m] ELSE new[m+1]]
<1>0. element \in Nat \ {0}
  BY ElementAssumption
<1>1. all \in Seq(Int) /\ Len(all) = element /\ \A m \in 1..element : all[m] = 10 * (element - m)
  BY <1>0
<1>2. new \in Seq(Int) /\ Len(new) = element
      /\ \A m \in 1..element : new[m] = IF element - m = 1 THEN 1400 ELSE 10 * (element - m)
  <2>1. \A m \in 1..element : new[m] = IF element - m = 1 THEN 1400 ELSE 10 * (element - m)
    BY <1>0
  <2>3. new \in Seq(Int) /\ Len(new) = element
    BY <1>0, <1>1
  <2> QED
    BY <2>1, <2>3
<1>3. CASE r = 0
  <2>1. Expected(0) = all
    BY DEF Expected
  <2> HIDE DEF all
  <2>2. \A m \in 1..element : Printed(0, m) = 10 * (element - m)
    BY <1>0 DEF Printed, Datum, Spot, ValAt, FlagAt, NewNode
  <2>3. FlagAt(0) = 0
    BY DEF FlagAt
  <2> QED
    BY <1>0, <1>1, <1>3, <2>1, <2>2, <2>3
<1>4. CASE r = 1
  <2>1. Expected(1) = new
    BY DEF Expected
  <2> HIDE DEF all, new
  <2>2. \A m \in 1..element : Printed(1, m) = IF element - m = 1 THEN 1400 ELSE 10 * (element - m)
    BY <1>0 DEF Printed, Datum, Spot, ValAt, FlagAt, NewNode
  <2>3. FlagAt(1) = 0
    BY DEF FlagAt
  <2> QED
    BY <1>0, <1>2, <1>4, <2>1, <2>2, <2>3
<1>5. CASE r = 2 /\ element > 2
  <2>1. Expected(2) = short
    <3>1. 2 # 0 /\ 2 # 1 /\ ~(element <= 2)
      BY <1>0, <1>5
    <3> QED
      BY <3>1, Zenon DEF Expected
  <2>2. /\ short \in Seq(Int)
        /\ Len(short) = element - 1
        /\ \A m \in 1..element-1 : short[m] = IF m < element - 2 THEN new[m] ELSE new[m+1]
    <3> HIDE DEF all, new
    <3>1. \A m \in 1..element-1 : new[m] \in Int /\ new[m+1] \in Int
      BY <1>0, <1>2
    <3> QED
      BY <1>0, <3>1
  <2> HIDE DEF all, new, short
  <2>3. FlagAt(2) = 1 /\ ValAt(2) = 1400
    BY <1>0, <1>5 DEF FlagAt, ValAt
  <2>4. ASSUME NEW m \in 1..element-1
        PROVE  Printed(2, m) = IF m < element - 2 THEN new[m] ELSE new[m+1]
    <3>1. m \in 1..element /\ m + 1 \in 1..element
      BY <1>0
    <3>2. new[m] = (IF element - m = 1 THEN 1400 ELSE 10 * (element - m))
          /\ new[m+1] = IF element - (m+1) = 1 THEN 1400 ELSE 10 * (element - (m+1))
      BY <1>2, <3>1
    <3> QED
      BY <1>0, <1>5, <2>3, <3>2 DEF Printed, Datum, Spot, NewNode
  <2> QED
    BY <1>5, <2>1, <2>2, <2>3, <2>4
<1>6. CASE r = 2 /\ element <= 2
  <2>1. Expected(2) = new
    BY <1>0, <1>6 DEF Expected
  <2> HIDE DEF all, new
  <2>2. FlagAt(2) = 0
    BY <1>0, <1>6 DEF FlagAt
  <2>3. \A m \in 1..element : Printed(2, m) = IF element - m = 1 THEN 1400 ELSE 10 * (element - m)
    BY <1>0, <1>6, <2>2 DEF Printed, Datum, Spot, ValAt, NewNode
  <2> QED
    BY <1>0, <1>2, <1>6, <2>1, <2>2, <2>3
<1>7. element > 2 \/ element <= 2
  BY <1>0
<1> QED
  BY <1>3, <1>4, <1>5, <1>6, <1>7

\* When reader loop r runs, the earlier updates of the list have been made.
LEMMA AtLoop ==
  ASSUME ListInv, LockInv, NEW r \in 0..2, pc = Loop[r+1]
  PROVE  /\ flag = FlagAt(r) /\ data[NewNode] = ValAt(r) /\ Count = element - FlagAt(r)
         /\ Count \in Nat /\ Count <= element
         /\ \A n \in 0..element-1 : data[n] = 10 * n
<1>0. element \in Nat \ {0}
  BY ElementAssumption
<1>1. CASE r = 0
  <2>1. pc = "read0"
    BY <1>1 DEF Loop
  <2>2. flag = 0 /\ data[NewNode] = 0 /\ i = element
    BY <2>1 DEF LockInv, Early, ListInv, Built
  <2> QED
    BY <1>0, <1>1, <2>1, <2>2 DEF Count, FlagAt, ValAt, ListInv, Built
<1>2. CASE r = 1
  <2>1. pc = "read1"
    BY <1>2 DEF Loop
  <2>2. flag = 0 /\ data[NewNode] = ValAt(1) /\ i = element
    BY <1>0, <2>1 DEF LockInv, Early, ListInv, Built, Updated, ValAt
  <2> QED
    BY <1>0, <1>2, <2>1, <2>2 DEF Count, FlagAt, ListInv, Built
<1>3. CASE r = 2
  <2>1. pc = "read2"
    BY <1>3 DEF Loop
  <2>2. flag = FlagAt(2) /\ data[NewNode] = ValAt(2) /\ i = element
    BY <1>0, <2>1 DEF LockInv, ListInv, Built, Updated, Removed, ValAt, FlagAt
  <2> QED
    BY <1>0, <1>3, <2>1, <2>2 DEF Count, FlagAt, ListInv, Built
<1> QED
  BY <1>1, <1>2, <1>3

\* What the cursor of loop r sees is the next value the loop is expected to print.
LEMMA CursorSees ==
  ASSUME ListInv, LockInv, NEW r \in 0..2, pc = Loop[r+1], NEW m \in 1..Count
  PROVE  data[Place(m)] = Expected(r)[m] /\ Place(m) # HEAD
<1>0. element \in Nat \ {0} /\ FlagAt(r) \in {0, 1} /\ (FlagAt(r) = 1 => element > 2) /\ ValAt(r) \in {0, 1400}
  BY ElementAssumption DEF FlagAt, ValAt
<1>1. flag = FlagAt(r) /\ data[NewNode] = ValAt(r) /\ Count = element - FlagAt(r)
      /\ \A n \in 0..element-1 : data[n] = 10 * n
  BY AtLoop
<1>2. Place(m) = Spot(element - FlagAt(r), ValAt(r), FlagAt(r), m)
  BY <1>1 DEF Place
<1>3. Expected(r)[m] = Datum(ValAt(r), Place(m))
  BY <1>1, <1>2, ExpectedIs DEF Printed
<1>4. Place(m) \in 0..element /\ Place(m) # HEAD
  BY <1>0, <1>1, <1>2 DEF Spot, NewNode, HEAD
<1>5. data[Place(m)] = Datum(ValAt(r), Place(m))
  BY <1>0, <1>1, <1>4 DEF Datum, NewNode
<1> QED
  BY <1>3, <1>4, <1>5

\* A round of reader loop r prints the next value, or ends after the last one.
LEMMA ReaderStep ==
  ASSUME ListInv, LockInv, OutInv, NEW r \in 0..2, NEW following,
         Reader(r, Loop[r+1], following)
  PROVE  /\ out' \in [0..2 -> Seq(Int)]
         /\ \A q \in 0..2 \ {r} : out'[q] = out[q]
         /\ \/ /\ pc' = pc
               /\ Len(out'[r]) \in Nat
               /\ Len(out'[r]) <= Count
               /\ tmp1' = Place(Len(out'[r]) + 1)
               /\ out'[r] = SubSeq(Expected(r), 1, Len(out'[r]))
            \/ pc' = following /\ out'[r] = Expected(r)
<1> DEFINE n == Len(out[r])
<1>0. pc = Loop[r+1]
  BY DEF Reader
<1>1. /\ out \in [0..2 -> Seq(Int)] /\ out[r] \in Seq(Int) /\ n \in Nat
      /\ n <= Count /\ tmp1 = Place(n + 1) /\ out[r] = SubSeq(Expected(r), 1, n)
  <2>1. out \in [0..2 -> Seq(Int)] /\ OutAt(r)
    BY DEF OutInv
  <2>2. Reading(r)
    BY <1>0, <2>1 DEF OutAt
  <2>3. out[r] \in Seq(Int) /\ n \in Nat
    BY <2>1
  <2> QED
    BY <2>1, <2>2, <2>3 DEF Reading
<1>2. Count = element - FlagAt(r) /\ Count \in Nat
  BY <1>0, AtLoop
<1>3. Expected(r) \in Seq(Int) /\ Len(Expected(r)) = Count
  BY <1>2, ExpectedIs
<1> HIDE DEF n
<1>4. CASE tmp1 = HEAD
  <2>1. ~(n + 1 \in 1..Count)
    BY <1>0, <1>1, <1>4, CursorSees
  <2>2. n = Len(Expected(r))
    BY <1>1, <1>2, <1>3, <2>1
  <2>3. out[r] = Expected(r)
    BY <1>1, <1>3, <2>2, PrefixGrows
  <2> QED
    BY <1>1, <1>4, <2>3 DEF Reader
<1>5. CASE tmp1 # HEAD /\ tmp1 \in freed
  BY <1>1, <1>5 DEF Reader, n
<1>6. CASE tmp1 # HEAD /\ tmp1 \notin freed
  <2>1. n + 1 \in 1..Count
    BY <1>1, <1>2, <1>6 DEF Place, Spot
  <2>2. data[tmp1] = Expected(r)[n+1]
    BY <1>0, <1>1, <2>1, CursorSees
  <2>3. out' = [out EXCEPT ![r] = Append(@, Expected(r)[n+1])] /\ tmp1' = next[tmp1] /\ pc' = pc
    BY <1>6, <2>2 DEF Reader
  <2>4. n \in 0..Len(Expected(r)) /\ n < Len(Expected(r)) /\ n + 1 \in 0..Len(Expected(r))
        /\ n + 1 \in 0..Count
    BY <1>1, <1>2, <1>3, <2>1
  <2>5. SubSeq(Expected(r), 1, n + 1) = Append(out[r], Expected(r)[n+1])
    BY <1>1, <1>3, <2>4, PrefixGrows
  <2>6. SubSeq(Expected(r), 1, n + 1) \in Seq(Int) /\ Len(SubSeq(Expected(r), 1, n + 1)) = n + 1
    BY <1>3, <2>4, PrefixGrows
  <2>7. out'[r] = SubSeq(Expected(r), 1, n + 1) /\ out' \in [0..2 -> Seq(Int)]
        /\ \A q \in 0..2 \ {r} : out'[q] = out[q]
    BY <1>1, <2>3, <2>5, <2>6
  <2>8. tmp1' = Place(n + 1 + 1)
    BY <1>1, <2>3, <2>4, NextPlace
  <2>9. n + 1 \in Nat /\ n + 1 <= Count
    BY <2>4
  <2>10. Len(out'[r]) = n + 1
    BY <2>6, <2>7
  <2> QED
    BY <2>3, <2>7, <2>8, <2>9, <2>10
<1> QED
  BY <1>4, <1>5, <1>6

\* What a loop is to print depends on no variable.
LEMMA ExpectedPrimed == ASSUME NEW r PROVE Expected(r)' = Expected(r)
BY DEF Expected

\* Loop r begins: the cursor is at the first entry and nothing is printed.
LEMMA LoopBegins ==
  ASSUME NEW r \in 0..2, out' = out, out[r] = <<>>, Count' \in Nat, tmp1' = Place(1)'
  PROVE  Reading(r)'
<1>1. Len(out[r]) = 0 /\ 0 + 1 = 1 /\ Len(out'[r]) = 0
  OBVIOUS
<1>2. SubSeq(Expected(r), 1, 0) = <<>>
  BY ExpectedIs, PrefixNone
<1>3. Place(Len(out[r]) + 1)' = Spot(Count', data'[NewNode], flag', Len(out'[r]) + 1)
  BY DEF Place, Spot, HEAD, NewNode
<1>4. Place(1)' = Spot(Count', data'[NewNode], flag', 1)
  BY PlaceIs
<1>5. (Len(out[r]) <= Count)'
  BY <1>1
<1>6. (tmp1 = Place(Len(out[r]) + 1))'
  BY <1>1, <1>3, <1>4
<1>7. out'[r] = SubSeq(Expected(r), 1, Len(out'[r]))
  BY <1>1, <1>2
<1> QED
  BY <1>5, <1>6, <1>7, ExpectedPrimed DEF Reading

\* Loop r goes on or ends, the list staying as it is.
LEMMA LoopStep ==
  ASSUME ListInv, LockInv, OutInv, NEW r \in 0..2, NEW following,
         Reader(r, Loop[r+1], following)
  PROVE  /\ out' \in [0..2 -> Seq(Int)]
         /\ \A q \in 0..2 \ {r} : out'[q] = out[q]
         /\ \/ pc' = pc /\ Reading(r)'
            \/ pc' = following /\ out'[r] = Expected(r)
<1>1. pc = Loop[r+1] /\ UNCHANGED <<i, data, flag>>
  BY DEF Reader
<1>2. CASE pc' = following /\ out'[r] = Expected(r)
  BY <1>2, ReaderStep
<1>3. CASE /\ pc' = pc
           /\ Len(out'[r]) \in Nat
           /\ Len(out'[r]) <= Count
           /\ tmp1' = Place(Len(out'[r]) + 1)
           /\ out'[r] = SubSeq(Expected(r), 1, Len(out'[r]))
  <2>1. Count' = Count
    BY <1>1, <1>3 DEF Count
  <2>2. Place(Len(out[r]) + 1)' = Place(Len(out'[r]) + 1)
    BY <1>1, <2>1 DEF Place, Spot, HEAD, NewNode
  <2>3. (Len(out[r]) <= Count)' /\ (tmp1 = Place(Len(out[r]) + 1))'
    BY <1>3, <2>1, <2>2
  <2>4. (out[r] = SubSeq(Expected(r), 1, Len(out[r])))'
    BY <1>3, ExpectedPrimed
  <2> QED
    BY <1>3, <2>3, <2>4, ReaderStep DEF Reading
<1> QED
  BY <1>2, <1>3, ReaderStep

\* The three states of a reader loop: before it, in it and after it.
LEMMA OutCases ==
  ASSUME NEW r \in 0..2,
         \/ pc' \in Before(r) /\ out'[r] = <<>>
         \/ pc' = Loop[r+1] /\ Reading(r)'
         \/ pc' \notin Before(r) \cup {Loop[r+1]} /\ out'[r] = Expected(r)
  PROVE  OutAt(r)'
<1>1. Loop[r+1] \notin Before(r)
  BY DEF Loop, Before, Built, Removed
<1>2. Before(r)' = Before(r) /\ (Loop[r+1])' = Loop[r+1]
  BY DEF Before, Loop, Built, Removed
<1> QED
  BY <1>1, <1>2, ExpectedPrimed DEF OutAt

\* Every step keeps what the loops have printed right.
LEMMA OutStep ==
  ASSUME ListInv, LockInv, OutInv, ListInv', LockInv', [Next]_vars
  PROVE  OutInv'
<1>0. element \in Nat \ {0}
  BY ElementAssumption
<1>f. next[HEAD] = Place(1)
  BY FirstPlace
<1>g. Count' \in Nat
  <2>1. /\ i' \in 0..element
        /\ flag' \in {0, 1}
        /\ flag' = 1 => element > 2
        /\ flag' = 1 => pc' \notin Early
        /\ pc' \in Early \cup Late \cup {"delete", "call_rcu", "advance"}
        /\ pc' \in Built => i' = element
    BY DEF ListInv, LockInv
  <2>2. flag' = 1 => i' = element
    BY <2>1 DEF Early, Late, Built
  <2>3. Count' \in {0, i' - flag'}
    BY DEF Count
  <2>4. i' \in 0..element /\ (flag' = 0 \/ (flag' = 1 /\ i' = element))
    BY <2>1, <2>2
  <2>5. i' - flag' \in Nat
    BY <1>0, <2>4
  <2> QED
    BY <2>3, <2>5
<1>h. OutInv' <=> out' \in [0..2 -> Seq(Int)] /\ OutAt(0)' /\ OutAt(1)' /\ OutAt(2)'
  BY DEF OutInv
<1>i. out \in [0..2 -> Seq(Int)] /\ OutAt(0) /\ OutAt(1) /\ OutAt(2)
  BY DEF OutInv
<1>j. ASSUME out' = out PROVE out' \in [0..2 -> Seq(Int)]
  BY <1>i, <1>j
<1>1. CASE pc \in {"kmalloc", "load_failed"} /\ pc' \in {"kmalloc", "load_failed", "add"} /\ out' = out
  <2>1. out[0] = <<>> /\ out[1] = <<>> /\ out[2] = <<>>
    BY <1>1, <1>i DEF OutAt, Before
  <2>2. pc' \in Before(0) /\ pc' \in Before(1) /\ pc' \in Before(2)
    BY <1>1 DEF Before
  <2>3. OutAt(0)' /\ OutAt(1)' /\ OutAt(2)'
    BY <1>1, <2>1, <2>2, OutCases
  <2> QED
    BY <1>1, <1>h, <1>j, <2>3, Zenon
<1>2. CASE ListAddRcu
  <2>1. pc = "add" /\ out' = out /\ pc' \in {"add", "read0"} /\ flag' = 0 /\ tmp1' = i
        /\ i' = i + 1 /\ i \in Nat /\ data'[NewNode] = 0
    <3>1. pc = "add" /\ out' = out /\ pc' \in {"add", "read0"} /\ flag' = flag /\ tmp1' = i
          /\ i' = i + 1 /\ data' = data
      BY <1>2 DEF ListAddRcu
    <3>2. flag = 0
      BY <3>1 DEF LockInv, Early
    <3>3. i \in 0..element /\ data[NewNode] = 0
      BY <3>1 DEF ListInv, Built
    <3> QED
      BY <1>0, <3>1, <3>2, <3>3
  <2>2. out[0] = <<>> /\ out[1] = <<>> /\ out[2] = <<>>
    BY <1>i, <2>1 DEF OutAt, Before
  <2>3. Count' = i + 1
    BY <2>1 DEF Count
  <2>4. Spot(Count', data'[NewNode], flag', 1) = i
    BY <2>1, <2>3 DEF Spot
  <2>5. tmp1' = Place(1)'
    BY <2>1, <2>4, PlaceIs
  <2>6. Reading(0)'
    BY <1>g, <2>1, <2>2, <2>5, LoopBegins
  <2>7. (pc' \in Before(0) \/ pc' = Loop[0+1]) /\ pc' \in Before(1) /\ pc' \in Before(2)
    BY <2>1 DEF Before, Loop, Built, Removed
  <2>8. OutAt(0)'
    BY <2>1, <2>2, <2>6, <2>7, OutCases
  <2>9. OutAt(1)' /\ OutAt(2)'
    BY <2>1, <2>2, <2>7, OutCases
  <2> QED
    BY <1>h, <1>j, <2>1, <2>8, <2>9, Zenon
<1>3. CASE Read0
  <2>1. Reader(0, Loop[0+1], "update") /\ pc = "read0"
    <3>1. Reader(0, "read0", "update") /\ Loop[0+1] = "read0"
      BY <1>3 DEF Read0, Loop
    <3>2. pc = "read0"
      BY <3>1 DEF Reader
    <3> QED
      BY <3>1, <3>2
  <2>2. /\ out' \in [0..2 -> Seq(Int)]
        /\ \A q \in 0..2 \ {0} : out'[q] = out[q]
        /\ \/ pc' = pc /\ Reading(0)'
           \/ pc' = "update" /\ out'[0] = Expected(0)
    BY <2>1, LoopStep
  <2>3. out'[1] = <<>> /\ out'[2] = <<>>
    BY <1>i, <2>1, <2>2 DEF OutAt, Before, Built, Removed
  <2>4. pc' \in Before(1) /\ pc' \in Before(2)
    BY <2>1, <2>2 DEF Before, Built, Removed
  <2>5. \/ pc' = Loop[0+1] /\ Reading(0)'
        \/ pc' \notin Before(0) \cup {Loop[0+1]} /\ out'[0] = Expected(0)
    BY <2>1, <2>2 DEF Before, Loop
  <2>6. OutAt(0)'
    BY <2>5, OutCases
  <2>7. OutAt(1)' /\ OutAt(2)'
    BY <2>3, <2>4, OutCases
  <2> QED
    BY <1>h, <2>2, <2>6, <2>7, Zenon
<1>4. CASE pc = "update" /\ pc' = "update" /\ out' = out
  <2>1. out[0] = Expected(0) /\ out[1] = <<>> /\ out[2] = <<>>
    BY <1>4, <1>i DEF OutAt, Before, Loop, Built, Removed
  <2>2. pc' \notin Before(0) \cup {Loop[0+1]} /\ pc' \in Before(1) /\ pc' \in Before(2)
    BY <1>4 DEF Before, Loop, Built, Removed
  <2>3. OutAt(0)' /\ OutAt(1)' /\ OutAt(2)'
    BY <1>4, <2>1, <2>2, OutCases
  <2> QED
    BY <1>4, <1>h, <1>j, <2>3, Zenon
<1>5. CASE UpdateEnds
  <2>1. pc = "update" /\ pc' = "read1" /\ out' = out /\ UNCHANGED <<i, data, flag>> /\ tmp1' = next[HEAD]
    BY <1>5 DEF UpdateEnds
  <2>2. tmp1' = Place(1)'
    <3>1. Count' = Count
      BY <2>1 DEF Count
    <3> QED
      BY <1>f, <2>1, <3>1, PlaceKept
  <2>3. out[0] = Expected(0) /\ out[1] = <<>> /\ out[2] = <<>>
    BY <1>i, <2>1 DEF OutAt, Before, Loop, Built, Removed
  <2>4. Reading(1)'
    BY <1>g, <2>1, <2>2, <2>3, LoopBegins
  <2>5. pc' \notin Before(0) \cup {Loop[0+1]} /\ pc' = Loop[1+1] /\ pc' \in Before(2)
    BY <2>1 DEF Before, Loop, Built, Removed
  <2>6. OutAt(0)' /\ OutAt(2)'
    BY <2>1, <2>3, <2>5, OutCases
  <2>7. OutAt(1)'
    BY <2>4, <2>5, OutCases
  <2> QED
    BY <1>h, <1>j, <2>1, <2>6, <2>7, Zenon
<1>6. CASE Read1
  <2>1. Reader(1, Loop[1+1], "delete") /\ pc = "read1"
    <3>1. Reader(1, "read1", "delete") /\ Loop[1+1] = "read1"
      BY <1>6 DEF Read1, Loop
    <3>2. pc = "read1"
      BY <3>1 DEF Reader
    <3> QED
      BY <3>1, <3>2
  <2>2. /\ out' \in [0..2 -> Seq(Int)]
        /\ \A q \in 0..2 \ {1} : out'[q] = out[q]
        /\ \/ pc' = pc /\ Reading(1)'
           \/ pc' = "delete" /\ out'[1] = Expected(1)
    BY <2>1, LoopStep
  <2>3. out'[0] = Expected(0) /\ out'[2] = <<>>
    BY <1>i, <2>1, <2>2 DEF OutAt, Before, Loop, Built, Removed
  <2>4. pc' \notin Before(0) \cup {Loop[0+1]} /\ pc' \in Before(2)
    BY <2>1, <2>2 DEF Before, Loop, Built, Removed
  <2>5. \/ pc' = Loop[1+1] /\ Reading(1)'
        \/ pc' \notin Before(1) \cup {Loop[1+1]} /\ out'[1] = Expected(1)
    BY <2>1, <2>2 DEF Before, Loop
  <2>6. OutAt(1)'
    BY <2>5, OutCases
  <2>7. OutAt(0)' /\ OutAt(2)'
    BY <2>3, <2>4, OutCases
  <2> QED
    BY <1>h, <2>2, <2>6, <2>7, Zenon
<1>7. CASE pc \in {"delete", "call_rcu", "advance"} /\ pc' \in {"delete", "call_rcu", "advance"} /\ out' = out
  <2>1. out[0] = Expected(0) /\ out[1] = Expected(1) /\ out[2] = <<>>
    BY <1>7, <1>i DEF OutAt, Before, Loop, Built, Removed
  <2>2. pc' \notin Before(0) \cup {Loop[0+1]} /\ pc' \notin Before(1) \cup {Loop[1+1]} /\ pc' \in Before(2)
    BY <1>7 DEF Before, Loop, Built, Removed
  <2>3. OutAt(0)' /\ OutAt(1)' /\ OutAt(2)'
    BY <1>7, <2>1, <2>2, OutCases
  <2> QED
    BY <1>7, <1>h, <1>j, <2>3, Zenon
<1>8. CASE DeleteEnds
  <2>1. pc = "delete" /\ pc' = "read2" /\ out' = out /\ UNCHANGED <<i, data, flag>> /\ tmp1' = next[HEAD]
    BY <1>8 DEF DeleteEnds
  <2>2. tmp1' = Place(1)'
    <3>1. Count' = Count
      BY <2>1 DEF Count
    <3> QED
      BY <1>f, <2>1, <3>1, PlaceKept
  <2>3. out[0] = Expected(0) /\ out[1] = Expected(1) /\ out[2] = <<>>
    BY <1>i, <2>1 DEF OutAt, Before, Loop, Built, Removed
  <2>4. Reading(2)'
    BY <1>g, <2>1, <2>2, <2>3, LoopBegins
  <2>5. pc' \notin Before(0) \cup {Loop[0+1]} /\ pc' \notin Before(1) \cup {Loop[1+1]} /\ pc' = Loop[2+1]
    BY <2>1 DEF Before, Loop
  <2>6. OutAt(0)' /\ OutAt(1)'
    BY <2>1, <2>3, <2>5, OutCases
  <2>7. OutAt(2)'
    BY <2>4, <2>5, OutCases
  <2> QED
    BY <1>h, <1>j, <2>1, <2>6, <2>7, Zenon
<1>9. CASE Read2
  <2>1. Reader(2, Loop[2+1], "live") /\ pc = "read2"
    <3>1. Reader(2, "read2", "live") /\ Loop[2+1] = "read2"
      BY <1>9 DEF Read2, Loop
    <3>2. pc = "read2"
      BY <3>1 DEF Reader
    <3> QED
      BY <3>1, <3>2
  <2>2. /\ out' \in [0..2 -> Seq(Int)]
        /\ \A q \in 0..2 \ {2} : out'[q] = out[q]
        /\ \/ pc' = pc /\ Reading(2)'
           \/ pc' = "live" /\ out'[2] = Expected(2)
    BY <2>1, LoopStep
  <2>3. out'[0] = Expected(0) /\ out'[1] = Expected(1)
    BY <1>i, <2>1, <2>2 DEF OutAt, Before, Loop
  <2>4. pc' \notin Before(0) \cup {Loop[0+1]} /\ pc' \notin Before(1) \cup {Loop[1+1]}
    BY <2>1, <2>2 DEF Before, Loop
  <2>5. \/ pc' = Loop[2+1] /\ Reading(2)'
        \/ pc' \notin Before(2) \cup {Loop[2+1]} /\ out'[2] = Expected(2)
    BY <2>1, <2>2 DEF Before, Loop, Built, Removed
  <2>6. OutAt(2)'
    BY <2>5, OutCases
  <2>7. OutAt(0)' /\ OutAt(1)'
    BY <2>3, <2>4, OutCases
  <2> QED
    BY <1>h, <2>2, <2>6, <2>7, Zenon
<1>10. CASE End
  <2>1. pc = "live" /\ pc' = "gone" /\ out' = out
    BY <1>10 DEF End
  <2>2. out[0] = Expected(0) /\ out[1] = Expected(1) /\ out[2] = Expected(2)
    BY <1>i, <2>1 DEF OutAt, Before, Loop, Built, Removed
  <2>3. /\ pc' \notin Before(0) \cup {Loop[0+1]}
        /\ pc' \notin Before(1) \cup {Loop[1+1]}
        /\ pc' \notin Before(2) \cup {Loop[2+1]}
    BY <2>1 DEF Before, Loop, Built, Removed
  <2>4. OutAt(0)' /\ OutAt(1)' /\ OutAt(2)'
    BY <2>1, <2>2, <2>3, OutCases
  <2> QED
    BY <1>h, <1>j, <2>1, <2>4, Zenon
<1>11. CASE Softirq \/ UNCHANGED vars
  <2>1. UNCHANGED <<pc, i, data, flag, tmp1, out>>
    BY <1>11 DEF Softirq, GracePeriod, DestroyOldStructure, vars
  <2>2. ASSUME NEW r \in 0..2, Reading(r) PROVE Reading(r)'
    <3>1. Place(Len(out[r]) + 1)' = Place(Len(out[r]) + 1)
      BY <2>1 DEF Place, Spot, Count, HEAD, NewNode
    <3>2. Count' = Count
      BY <2>1 DEF Count
    <3> QED
      BY <2>1, <2>2, <3>1, <3>2, ExpectedPrimed DEF Reading
  <2>3. ASSUME NEW r \in 0..2, OutAt(r) PROVE OutAt(r)'
    BY <2>1, <2>2, <2>3, OutCases DEF OutAt
  <2> QED
    BY <1>h, <1>i, <2>1, <2>3
<1>12. /\ Kmalloc => pc = "kmalloc" /\ pc' \in {"kmalloc", "load_failed", "add"} /\ out' = out
       /\ Update => pc = "update" /\ pc' = "update" /\ out' = out
       /\ Delete \/ CallRcu \/ Advance =>
            /\ pc \in {"delete", "call_rcu", "advance"}
            /\ pc' \in {"delete", "call_rcu", "advance"}
            /\ out' = out
  <2>1. Kmalloc => pc = "kmalloc" /\ pc' \in {"kmalloc", "load_failed", "add"} /\ out' = out
    BY DEF Kmalloc
  <2>2. Update => pc = "update" /\ pc' = "update" /\ out' = out
    BY DEF Update
  <2>3. Delete \/ CallRcu \/ Advance =>
            /\ pc \in {"delete", "call_rcu", "advance"}
            /\ pc' \in {"delete", "call_rcu", "advance"}
            /\ out' = out
    BY DEF Delete, CallRcu, Advance
  <2> QED
    BY <2>1, <2>2, <2>3
<1> QED
  BY <1>1, <1>2, <1>3, <1>4, <1>5, <1>6, <1>7, <1>8, <1>9, <1>10, <1>11, <1>12 DEF Next, Start

\* The invariants of the list hold in every reachable state.
LEMMA ListInvariance == Spec => [](LockInv /\ ListInv /\ CursorInv /\ OutInv)
<1>1. Init => LockInv /\ CursorInv /\ OutInv
  <2>1. Init => LockInv /\ CursorInv
    BY DEF Init, LockInv, Early, Late, CursorInv
  <2>2. Init => OutInv
    BY DEF Init, OutInv, OutAt, Loop, Before, Built, Removed
  <2> QED
    BY <2>1, <2>2
<1>2. Init => ListInv
  <2> SUFFICES ASSUME Init PROVE ListInv
    OBVIOUS
  <2>0. element \in Nat \ {0}
    BY ElementAssumption
  <2>1. next[HEAD] = HEAD /\ prev[HEAD] = HEAD /\ next \in [Entries -> Int] /\ prev \in [Entries -> Int]
    BY DEF Init, Entries, HEAD, NULL
  <2>2. data \in [Nodes -> Int] /\ data[NewNode] = 0
    BY <2>0 DEF Init, Nodes, NewNode
  <2>3. Count = 0
    BY DEF Init, Count
  <2>4. Circle(next, prev, 0, 0, flag)
    BY <2>1 DEF Circle, Spot
  <2>5. pc = "kmalloc" /\ i = 0 /\ flag = 0
    BY DEF Init
  <2> QED
    BY <2>0, <2>1, <2>2, <2>3, <2>4, <2>5 DEF ListInv, Built, Updated, Removed
<1>3. LockInv /\ ListInv /\ CursorInv /\ OutInv /\ [Next]_vars => (LockInv /\ ListInv /\ CursorInv /\ OutInv)'
  BY LockStep, ListStep, CursorStep, OutStep
<1> QED
  BY <1>1, <1>2, <1>3, PTL DEF Spec

\* For every length of the list, the next pointers lead from the head through distinct
\* nodes back to the head and the prev pointers the other way, after each list_add_rcu(),
\* list_replace_rcu() and list_del_rcu() (code.c:119-219).
THEOREM ListCorrect == Spec => []ListWellFormed
<1>1. LockInv /\ ListInv => ListWellFormed
  BY WellFormed
<1> QED
  BY <1>1, ListInvariance, PTL

UnlockInv == fault # "double_unlock"

\* No step unlocks a lock that is not held: the loop meets 20 only with flag = 0, and
\* the code after the loop looks at flag.
LEMMA UnlockStep ==
  ASSUME LockInv, ListInv, CursorInv, UnlockInv, [Next]_vars
  PROVE  UnlockInv'
<1> USE DEF UnlockInv
<1>1. CASE Delete
  <2>1. CASE data[tmp1] = 20
    <3>1. pc = "delete" /\ tmp1 # HEAD
      BY <1>1 DEF Delete
    <3>2. PICK p \in 1..element+1 : tmp1 = Place(p)
      BY <3>1 DEF CursorInv
    <3>3. flag = 0
      BY <2>1, <3>1, <3>2, CursorNode
    <3>4. locked
      BY <3>1, <3>3 DEF LockInv
    <3> QED
      BY <1>1, <2>1, <3>4 DEF Delete, SpinUnlock
  <2>2. CASE data[tmp1] # 20
    BY <1>1, <2>2 DEF Delete
  <2> QED
    BY <2>1, <2>2
<1>2. CASE DeleteEnds
  BY <1>2 DEF DeleteEnds, SpinUnlock, LockInv
<1>3. CASE ~Delete /\ ~DeleteEnds
  BY <1>3 DEF Next, Start, End, Kmalloc, ListAddRcu, Read0, Read1, Read2, Reader, Update,
     UpdateEnds, CallRcu, Advance, Softirq, GracePeriod, DestroyOldStructure, vars
<1> QED
  BY <1>1, <1>2, <1>3

\* For every length of the list, mylist_lock is held while the delete loop looks for its
\* node and released exactly once, by the loop or after it (code.c:202-227).
THEOREM LockCorrect == Spec => []LockReleasedOnce
<1>1. Init => UnlockInv
  BY DEF Init, UnlockInv
<1>2. Spec => []UnlockInv
  BY <1>1, UnlockStep, ListInvariance, PTL DEF Spec
<1>3. LockInv /\ UnlockInv => LockReleasedOnce
  BY DEF LockInv, UnlockInv, LockReleasedOnce
<1> QED
  BY <1>2, <1>3, ListInvariance, PTL

\* What the loops have printed is what ReadersPrint asks for.
LEMMA Prints == ASSUME LockInv, OutInv PROVE ReadersPrint
<1> SUFFICES ASSUME NEW r \in 0..2
             PROVE  \/ out[r] = SubSeq(Expected(r), 1, Len(out[r])) /\ pc \notin {"live", "gone"}
                    \/ out[r] = Expected(r)
  BY DEF ReadersPrint
<1> USE DEF Before, Built, Removed, Loop
<1>1. CASE pc \in Before(r)
  <2>1. out[r] = <<>> /\ Len(out[r]) = 0
    BY <1>1 DEF OutInv, OutAt
  <2>2. SubSeq(Expected(r), 1, 0) = <<>>
    BY ExpectedIs, PrefixNone
  <2>3. pc \notin {"live", "gone"}
    BY <1>1
  <2> QED
    BY <2>1, <2>2, <2>3
<1>2. CASE pc = Loop[r+1]
  <2>1. out[r] = SubSeq(Expected(r), 1, Len(out[r]))
    BY <1>2 DEF OutInv, OutAt, Reading
  <2>2. pc \notin {"live", "gone"}
    BY <1>2
  <2> QED
    BY <2>1, <2>2
<1>3. CASE pc \notin Before(r) \cup {Loop[r+1]}
  BY <1>3 DEF OutInv, OutAt
<1> QED
  BY <1>1, <1>2, <1>3

\* For every length of the list, each of the three reader loops of start() prints the data
\* of the nodes in list order: all of them, then with 1400 for 10, then without 20
\* (code.c:133-240).
THEOREM PrintCorrect == Spec => []ReadersPrint
<1>1. LockInv /\ OutInv => ReadersPrint
  BY Prints
<1> QED
  BY <1>1, ListInvariance, PTL

=============================================================================
