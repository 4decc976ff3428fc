------------------------ MODULE RedBlackTreeProofs ------------------------
(***************************************************************************)
(* Proofs about RedBlackTree, for every number of nodes, every contents    *)
(* of the array and every value searched for: the nodes inserted form a    *)
(* search tree, search() is right and print() goes up in order.            *)
(*                                                                         *)
(* The inductive invariant IInv says that some assignment sub of a set of  *)
(* nodes to every node makes the links a search tree (Tree), and that the  *)
(* walks of insert() and search() are where the value belongs (Position).  *)
(* Children have larger numbers than their parents, so inductions over the *)
(* tree go down from the last node.                                        *)
(***************************************************************************)
EXTENDS RedBlackTree, WellFoundedInduction, TLAPS

\* What rb_left, rb_right and root may hold.
Links == Nodes \cup {NULL}

\* The nodes that have been linked into the tree.
Linked == {n \in Nodes : FirstOfValue(n)}

\* The program points of start().
Steps == {"insert", "walk", "link", "search", "compare", "found", "print", "done", "wild_pointer"}

\* The types of the variables; the array is being inserted while i < element.
TypeOK ==
  /\ pc \in Steps
  /\ i \in 0..element
  /\ i < element <=> pc \in {"insert", "walk", "link"}
  /\ data \in [Nodes -> Int]
  /\ left \in [Nodes -> Links]
  /\ right \in [Nodes -> Links]
  /\ root \in Links
  /\ search_data \in Int

\* Node m, with the nodes sub[n] below every node n.
Node(sub, m) ==
  /\ left[m] # NULL => left[m] \in Linked /\ left[m] > m
  /\ right[m] # NULL => right[m] \in Linked /\ right[m] > m
  /\ sub[m] = {m} \cup sub[left[m]] \cup sub[right[m]]
  /\ \A n \in sub[left[m]] : data[n] < data[m]
  /\ \A n \in sub[right[m]] : data[n] > data[m]
  /\ \A n \in sub[m] : n >= m

\* The links form a search tree of the nodes in Linked, sub[n] being those
\* below n.
Tree(sub) ==
  /\ sub \in [Links -> SUBSET Nodes]
  /\ sub[NULL] = {}
  /\ \A m \in Linked : Node(sub, m)
  /\ \A m \in Nodes \ Linked : left[m] = NULL /\ right[m] = NULL
  /\ sub[root] = Linked
  /\ root = NULL <=> i = 0
  /\ root # NULL => root \in Linked

\* Every value met so far is in the tree.
Present == \A m \in 0..i-1 : \E n \in Linked : data[n] = data[m]

\* Seen from the rest of the tree, the new value is where the nodes below t are.
Fits(sub, t) ==
  \A n \in Linked \ sub[t], x \in sub[t] :
    \/ data[n] < data[x] /\ data[n] < data[i]
    \/ data[n] > data[x] /\ data[n] > data[i]

\* Where the loops of insert() and search() are.
Position(sub) ==
  /\ pc = "walk" => tmp \in Linked /\ Fits(sub, tmp)
  /\ pc = "link" =>
       /\ parent \in Linked /\ Fits(sub, parent)
       /\ data[parent] # data[i]
       /\ data[parent] > data[i] => left[parent] = NULL
       /\ data[parent] < data[i] => right[parent] = NULL
  /\ pc = "compare" =>
       /\ tmp # NULL => tmp \in Linked
       /\ \A n \in Linked : data[n] = search_data => n \in sub[tmp]
  /\ pc = "found" =>
       IF tmp = NULL THEN \A n \in Linked : data[n] # search_data
                     ELSE tmp \in Linked /\ data[tmp] = search_data

\* The inductive invariant.
IInv == TypeOK /\ Present /\ \E sub : Tree(sub) /\ Position(sub)

-----------------------------------------------------------------------------
\* Nodes are numbers below element, and NULL is none of them.
LEMMA NodesAre ==
  /\ NULL \notin Nodes /\ NULL \in Links /\ Nodes \subseteq Links /\ Nodes \subseteq Int
  /\ \A n \in Nodes : n >= 0 /\ n < element
BY ElementAssumption DEF Nodes, NULL, Links

\* Linked nodes have been inserted and have a value.
LEMMA LinkedAre ==
  ASSUME TypeOK
  PROVE  /\ Linked \subseteq Nodes
         /\ \A n \in Linked : n < i /\ data[n] \in Int /\ n # NULL
BY NodesAre DEF Linked, FirstOfValue, TypeOK

\* What the end of insert() makes of the set of linked nodes.
LEMMA LinkedNext ==
  ASSUME TypeOK, i < element, i' = i + 1, data' = data
  PROVE  /\ i \in Nodes /\ i \notin Linked
         /\ (\E m \in 0..i-1 : data[m] = data[i]) => Linked' = Linked
         /\ (\A m \in 0..i-1 : data[m] # data[i]) => Linked' = Linked \cup {i}
<1>1. i \in Nodes /\ i \in Nat
  BY ElementAssumption DEF TypeOK, Nodes
<1>2. i \notin Linked
  BY LinkedAre, <1>1
<1>3. \A n \in Nodes : n # i => (FirstOfValue(n)' <=> FirstOfValue(n))
  BY <1>1, NodesAre DEF FirstOfValue, TypeOK
<1>4. \A n \in Nodes : n = i => (FirstOfValue(n)' <=> \A m \in 0..i-1 : data[m] # data[i])
  BY <1>1 DEF FirstOfValue
<1>5. \A n \in Nodes : n = i => ~FirstOfValue(n)
  BY <1>1 DEF FirstOfValue
<1>6. Linked' = {n \in Nodes : FirstOfValue(n)'}
  BY DEF Linked
<1> QED
  BY <1>1, <1>2, <1>3, <1>4, <1>5, <1>6 DEF Linked

\* A step that leaves the tree alone.
LEMMA TreeKept ==
  ASSUME UNCHANGED <<i, data, treeVars>>
  PROVE  /\ Linked' = Linked
         /\ Present' <=> Present
         /\ \A sub : Tree(sub)' <=> Tree(sub)
<1>1. UNCHANGED <<i, data, root, left, right>>
  BY DEF treeVars
<1>2. Linked' = Linked
  BY <1>1 DEF Linked, FirstOfValue
<1>3. Present' <=> Present
  BY <1>1, <1>2 DEF Present
<1>4. ASSUME NEW sub, NEW m PROVE Node(sub, m)' <=> Node(sub, m)
  BY <1>1, <1>2 DEF Node
<1>5. ASSUME NEW sub PROVE Tree(sub)' <=> Tree(sub)
  BY <1>1, <1>2, <1>4 DEF Tree
<1> QED
  BY <1>2, <1>3, <1>5

\* The node below which insert() links the new one.
LEMMA LinkFresh ==
  ASSUME TypeOK, Present, NEW sub, Tree(sub), Position(sub), pc = "link"
  PROVE  /\ parent \in Linked /\ parent \in sub[parent] /\ i \in Nodes
         /\ \A n \in Linked : data[n] # data[i]
         /\ \A m \in 0..i-1 : data[m] # data[i]
<1>1. /\ parent \in Linked /\ Fits(sub, parent) /\ data[parent] # data[i]
      /\ data[parent] > data[i] => left[parent] = NULL
      /\ data[parent] < data[i] => right[parent] = NULL
  BY DEF Position
<1>2. Node(sub, parent) /\ sub[NULL] = {}
  BY <1>1 DEF Tree
<1>3. i \in Nodes /\ data[i] \in Int /\ \A n \in Nodes : data[n] \in Int
  BY ElementAssumption DEF TypeOK, Nodes
<1>4. parent \in sub[parent]
  BY <1>2 DEF Node
<1>5. ASSUME NEW n \in Linked, n \in sub[parent] PROVE data[n] # data[i]
  <2>1. n = parent \/ n \in sub[left[parent]] \/ n \in sub[right[parent]]
    BY <1>2, <1>5 DEF Node
  <2>2. data[n] \in Int /\ data[parent] \in Int
    BY <1>1, <1>3, LinkedAre
  <2>3. CASE n \in sub[left[parent]]
    <3>1. data[n] < data[parent] /\ left[parent] # NULL
      BY <1>2, <2>3 DEF Node
    <3> QED
      BY <1>1, <1>3, <2>2, <3>1
  <2>4. CASE n \in sub[right[parent]]
    <3>1. data[n] > data[parent] /\ right[parent] # NULL
      BY <1>2, <2>4 DEF Node
    <3> QED
      BY <1>1, <1>3, <2>2, <3>1
  <2> QED
    BY <1>1, <2>1, <2>3, <2>4
<1>6. ASSUME NEW n \in Linked, n \notin sub[parent] PROVE data[n] # data[i]
  <2>1. data[n] \in Int
    BY LinkedAre
  <2> QED
    BY <1>1, <1>3, <1>4, <1>6, <2>1 DEF Fits
<1>7. \A n \in Linked : data[n] # data[i]
  BY <1>5, <1>6
<1>8. \A m \in 0..i-1 : data[m] # data[i]
  BY <1>7 DEF Present
<1> QED
  BY <1>1, <1>3, <1>4, <1>7, <1>8

\* The nodes below each node once i has been linked below parent.
Grown(sub) ==
  [m \in Links |-> IF m = i THEN {i} ELSE IF parent \in sub[m] THEN sub[m] \cup {i} ELSE sub[m]]

\* A node that is neither the new one nor its parent.
LEMMA NodeAbove ==
  ASSUME TypeOK, NEW sub, Tree(sub), parent \in Linked, parent \in sub[parent], Fits(sub, parent),
         i \in Nodes, NEW g, g = Grown(sub), NEW m \in Linked, m # parent
  PROVE  /\ g[m] = {m} \cup g[left[m]] \cup g[right[m]]
         /\ \A n \in g[left[m]] : data[n] < data[m]
         /\ \A n \in g[right[m]] : data[n] > data[m]
         /\ \A n \in g[m] : n >= m
<1>0. /\ m \in Links /\ m # i /\ m < i /\ m \in Int /\ i \in Int /\ data[m] \in Int /\ m \in Nodes
      /\ parent \in Int /\ data[parent] \in Int /\ data[i] \in Int
  <2>1. m \in Nodes /\ m < i /\ data[m] \in Int /\ parent \in Nodes /\ data[parent] \in Int
    BY LinkedAre
  <2>2. m \in Int /\ i \in Int /\ parent \in Int /\ m \in Links
    BY <2>1, NodesAre
  <2>3. data[i] \in Int
    BY DEF TypeOK
  <2> QED
    BY <2>1, <2>2, <2>3
<1>1. Node(sub, m) /\ sub[NULL] = {} /\ NULL # i
  BY NodesAre DEF Tree
<1>2. \A c \in {left[m], right[m]} : c \in Links /\ c # i
  BY <1>0, <1>1, NodesAre, LinkedAre DEF Node, TypeOK
<1>3. \A c \in Links : c # i => g[c] = IF parent \in sub[c] THEN sub[c] \cup {i} ELSE sub[c]
  BY DEF Grown
<1>4. \A c \in {left[m], right[m], m} : g[c] = IF parent \in sub[c] THEN sub[c] \cup {i} ELSE sub[c]
  BY <1>0, <1>2, <1>3
<1>5. sub[m] = {m} \cup sub[left[m]] \cup sub[right[m]]
  BY <1>1 DEF Node
<1>6. g[m] = {m} \cup g[left[m]] \cup g[right[m]]
  BY <1>4, <1>5
<1>7. ASSUME parent \in sub[left[m]] \/ parent \in sub[right[m]] PROVE m \notin sub[parent]
  <2>1. parent > m
    <3>1. CASE parent \in sub[left[m]]
      <4>1. left[m] \in Linked /\ left[m] > m /\ left[m] \in Int
        BY <1>1, <3>1, LinkedAre, NodesAre DEF Node
      <4>2. parent >= left[m]
        BY <3>1, <4>1 DEF Tree, Node
      <4> QED
        BY <1>0, <4>1, <4>2
    <3>2. CASE parent \in sub[right[m]]
      <4>1. right[m] \in Linked /\ right[m] > m /\ right[m] \in Int
        BY <1>1, <3>2, LinkedAre, NodesAre DEF Node
      <4>2. parent >= right[m]
        BY <3>2, <4>1 DEF Tree, Node
      <4> QED
        BY <1>0, <4>1, <4>2
    <3> QED
      BY <1>7, <3>1, <3>2
  <2>2. \A n \in sub[parent] : n >= parent
    BY DEF Tree, Node
  <2> QED
    BY <1>0, <2>1, <2>2
<1>8. ASSUME parent \in sub[left[m]] PROVE data[i] < data[m]
  <2>1. data[parent] < data[m]
    BY <1>1, <1>8 DEF Node
  <2> QED
    BY <1>0, <1>7, <1>8, <2>1 DEF Fits
<1>9. ASSUME parent \in sub[right[m]] PROVE data[i] > data[m]
  <2>1. data[parent] > data[m]
    BY <1>1, <1>9 DEF Node
  <2> QED
    BY <1>0, <1>7, <1>9, <2>1 DEF Fits
<1>10. \A n \in g[left[m]] : data[n] < data[m]
  BY <1>1, <1>4, <1>8 DEF Node
<1>11. \A n \in g[right[m]] : data[n] > data[m]
  BY <1>1, <1>4, <1>9 DEF Node
<1>12. \A n \in g[m] : n >= m
  BY <1>0, <1>1, <1>4 DEF Node
<1> QED
  BY <1>6, <1>10, <1>11, <1>12

\* The parent itself.
LEMMA NodeParent ==
  ASSUME TypeOK, NEW sub, Tree(sub), parent \in Linked, parent \in sub[parent],
         i \in Nodes, NEW g, g = Grown(sub),
         NEW l, NEW r,
         \/ l = i /\ r = right[parent] /\ left[parent] = NULL /\ data[parent] > data[i]
         \/ r = i /\ l = left[parent] /\ right[parent] = NULL /\ data[parent] < data[i]
  PROVE  /\ g[parent] = {parent} \cup g[l] \cup g[r]
         /\ \A n \in g[l] : data[n] < data[parent]
         /\ \A n \in g[r] : data[n] > data[parent]
         /\ \A n \in g[parent] : n >= parent
<1> DEFINE m == parent
<1>0. /\ m \in Links /\ m # i /\ m < i /\ m \in Int /\ i \in Int /\ data[m] \in Int /\ m \in Nodes
      /\ data[i] \in Int /\ i \in Links
  <2>1. m \in Nodes /\ m < i /\ data[m] \in Int
    BY LinkedAre
  <2>2. m \in Int /\ i \in Int /\ i \in Links /\ m \in Links
    BY <2>1, NodesAre
  <2>3. data[i] \in Int
    BY DEF TypeOK
  <2> QED
    BY <2>1, <2>2, <2>3
<1>1. Node(sub, m) /\ sub[NULL] = {} /\ NULL # i
  BY NodesAre DEF Tree
<1>2. \A c \in {left[m], right[m]} : c \in Links /\ c # i
  BY <1>0, <1>1, NodesAre, LinkedAre DEF Node, TypeOK
<1>3. \A c \in Links : c # i => g[c] = IF parent \in sub[c] THEN sub[c] \cup {i} ELSE sub[c]
  BY DEF Grown
<1>4. m \notin sub[left[m]] /\ m \notin sub[right[m]]
  BY <1>0, <1>1 DEF Node
<1>5. g[left[m]] = sub[left[m]] /\ g[right[m]] = sub[right[m]]
  BY <1>2, <1>3, <1>4
<1>6. g[i] = {i} /\ g[m] = sub[m] \cup {i}
  BY <1>0, <1>3 DEF Grown
<1>7. sub[m] = {m} \cup sub[left[m]] \cup sub[right[m]]
  BY <1>1 DEF Node
<1>8. \A n \in sub[m] : n >= m
  BY <1>1 DEF Node
<1>9. /\ \A n \in sub[left[m]] : data[n] < data[m]
      /\ \A n \in sub[right[m]] : data[n] > data[m]
  BY <1>1 DEF Node
<1>10. \A n \in g[m] : n >= m
  BY <1>0, <1>6, <1>8
<1>11. CASE l = i /\ r = right[parent] /\ left[parent] = NULL /\ data[parent] > data[i]
  BY <1>0, <1>1, <1>5, <1>6, <1>7, <1>9, <1>10, <1>11
<1>12. CASE r = i /\ l = left[parent] /\ right[parent] = NULL /\ data[parent] < data[i]
  BY <1>0, <1>1, <1>5, <1>6, <1>7, <1>9, <1>10, <1>12
<1> QED
  BY <1>11, <1>12

\* Linking the new node keeps the tree a search tree.
LEMMA LinkStep ==
  ASSUME TypeOK, Present, NEW sub, Tree(sub), Position(sub), InsertLinks
  PROVE  TypeOK' /\ Present' /\ \E g : Tree(g)' /\ Position(g)'
<1>0. PICK g : g = Grown(sub)
  OBVIOUS
<1>1. /\ pc = "link" /\ i' = i + 1 /\ UNCHANGED <<data, root, search_data>>
      /\ pc' = IF i + 1 < element THEN "insert" ELSE "search"
      /\ left' = IF data[parent] > data[i] THEN [left EXCEPT ![parent] = i] ELSE left
      /\ right' = IF data[parent] > data[i] THEN right ELSE [right EXCEPT ![parent] = i]
  BY DEF InsertLinks, Inserted, LinkedRight
<1>2. /\ parent \in Linked /\ parent \in sub[parent] /\ i \in Nodes
      /\ \A n \in Linked : data[n] # data[i]
      /\ \A m \in 0..i-1 : data[m] # data[i]
  BY <1>1, LinkFresh
<1>3. /\ Fits(sub, parent)
      /\ data[parent] > data[i] => left[parent] = NULL
      /\ data[parent] < data[i] => right[parent] = NULL
  BY <1>1 DEF Position
<1>4. i < element /\ i \in Nat /\ i \in Int /\ element \in Int
  BY <1>1, ElementAssumption DEF TypeOK
<1>5. Linked' = Linked \cup {i} /\ i \notin Linked
  BY <1>1, <1>2, <1>4, LinkedNext
<1>6. parent \in Nodes /\ parent # i /\ data[parent] \in Int /\ data[i] \in Int /\ parent < i
  BY <1>2, <1>5, LinkedAre DEF TypeOK
<1>7. left \in [Nodes -> Links] /\ right \in [Nodes -> Links] /\ i \in Links
  BY <1>2, NodesAre DEF TypeOK
<1>8. /\ left' \in [Nodes -> Links] /\ right' \in [Nodes -> Links]
      /\ \A m \in Nodes : m # parent => left'[m] = left[m] /\ right'[m] = right[m]
  BY <1>1, <1>6, <1>7
<1>9. \/ data[parent] > data[i] /\ left'[parent] = i /\ right'[parent] = right[parent]
      \/ data[parent] < data[i] /\ right'[parent] = i /\ left'[parent] = left[parent]
  BY <1>1, <1>2, <1>6, <1>7
<1>10. TypeOK'
  BY <1>1, <1>4, <1>8 DEF TypeOK, Steps
<1>11. Present'
  <2> SUFFICES ASSUME NEW m \in 0..i PROVE \E n \in Linked' : data[n] = data[m]
    BY <1>1, <1>4 DEF Present
  <2>1. CASE m = i
    BY <1>5, <2>1
  <2>2. CASE m # i
    BY <1>4, <1>5, <2>2 DEF Present
  <2> QED
    BY <2>1, <2>2
<1>12. g \in [Links -> SUBSET Nodes] /\ g[NULL] = {} /\ g[i] = {i}
  BY <1>0, <1>2, <1>7, NodesAre DEF Grown, Tree
<1>13. ASSUME NEW m \in Linked, m # parent PROVE Node(g, m)'
  <2>1. m \in Nodes /\ left'[m] = left[m] /\ right'[m] = right[m]
    BY <1>8, <1>13, LinkedAre
  <2>2. /\ left[m] # NULL => left[m] \in Linked /\ left[m] > m
        /\ right[m] # NULL => right[m] \in Linked /\ right[m] > m
    BY DEF Tree, Node
  <2>3. /\ g[m] = {m} \cup g[left[m]] \cup g[right[m]]
        /\ \A n \in g[left[m]] : data[n] < data[m]
        /\ \A n \in g[right[m]] : data[n] > data[m]
        /\ \A n \in g[m] : n >= m
    BY <1>2, <1>3, <1>13, NodeAbove, <1>0
  <2> QED
    BY <1>1, <1>5, <2>1, <2>2, <2>3 DEF Node
<1>14. ASSUME NEW m, m = parent PROVE Node(g, m)'
  <2>1. /\ left[m] # NULL => left[m] \in Linked /\ left[m] > m
        /\ right[m] # NULL => right[m] \in Linked /\ right[m] > m
    BY <1>2, <1>14 DEF Tree, Node
  <2>2. /\ left'[m] # NULL => left'[m] \in Linked' /\ left'[m] > m
        /\ right'[m] # NULL => right'[m] \in Linked' /\ right'[m] > m
    BY <1>5, <1>6, <1>9, <1>14, <2>1
  <2>3. \/ left'[m] = i /\ right'[m] = right[parent] /\ left[parent] = NULL /\ data[parent] > data[i]
        \/ right'[m] = i /\ left'[m] = left[parent] /\ right[parent] = NULL /\ data[parent] < data[i]
    BY <1>3, <1>9, <1>14
  <2>4. /\ g[parent] = {parent} \cup g[left'[m]] \cup g[right'[m]]
        /\ \A n \in g[left'[m]] : data[n] < data[parent]
        /\ \A n \in g[right'[m]] : data[n] > data[parent]
        /\ \A n \in g[parent] : n >= parent
    BY <1>2, <2>3, NodeParent, <1>0
  <2> QED
    BY <1>1, <1>14, <2>2, <2>4 DEF Node
<1>15. ASSUME NEW m, m = i PROVE Node(g, m)'
  <2>1. left'[m] = NULL /\ right'[m] = NULL
    BY <1>2, <1>5, <1>6, <1>8, <1>15 DEF Tree
  <2> QED
    BY <1>4, <1>12, <1>15, <2>1 DEF Node
<1>16. \A m \in Linked' : Node(g, m)'
  BY <1>5, <1>13, <1>14, <1>15
<1>17. \A m \in Nodes \ Linked' : left'[m] = NULL /\ right'[m] = NULL
  BY <1>2, <1>5, <1>8 DEF Tree
<1>18. g[root] = Linked \cup {i} /\ root # NULL /\ root \in Linked
  <2>1. sub[root] = Linked /\ sub[NULL] = {}
    BY DEF Tree
  <2>2. root # NULL /\ root \in Linked
    BY <1>2, <2>1 DEF Tree
  <2>3. root \in Links /\ root # i
    BY <1>5, <2>2 DEF TypeOK
  <2> QED
    BY <1>0, <1>2, <2>1, <2>2, <2>3 DEF Grown
<1>19. Tree(g)'
  BY <1>1, <1>4, <1>5, <1>12, <1>16, <1>17, <1>18 DEF Tree
<1>20. Position(g)'
  BY <1>1 DEF Position
<1> QED
  BY <1>10, <1>11, <1>19, <1>20

\* insert() of the first node.
LEMMA RootStep ==
  ASSUME TypeOK, Present, NEW sub, Tree(sub), InsertBegins, root = NULL
  PROVE  TypeOK' /\ Present' /\ \E g : Tree(g)' /\ Position(g)'
<1>1. /\ pc = "insert" /\ root' = i /\ i' = i + 1 /\ UNCHANGED <<data, left, right, search_data>>
      /\ pc' = IF i + 1 < element THEN "insert" ELSE "search"
  BY DEF InsertBegins, Inserted
<1>2. i = 0 /\ 0 \in Nodes /\ 0 \in Links /\ 0 # NULL /\ NULL \in Links
  BY ElementAssumption, NodesAre DEF Tree, Nodes, NULL
<1>3. i < element
  BY <1>2, ElementAssumption
<1>4. Linked = {} /\ Linked' = {0}
  <2>1. Linked = {}
    BY DEF Tree
  <2>2. \A m \in 0..i-1 : data[m] # data[i]
    BY <1>2
  <2>3. Linked' = Linked \cup {i}
    BY <1>1, <1>3, <2>2, LinkedNext
  <2> QED
    BY <1>2, <2>1, <2>3
<1>5. PICK g : g = [m \in Links |-> IF m = 0 THEN {0} ELSE {}]
  OBVIOUS
<1>6. g \in [Links -> SUBSET Nodes] /\ g[NULL] = {} /\ g[0] = {0}
  BY <1>2, <1>5
<1>7. \A m \in Nodes : left[m] = NULL /\ right[m] = NULL
  BY <1>4 DEF Tree
<1>8. Node(g, 0)'
  BY <1>1, <1>2, <1>6, <1>7 DEF Node
<1>9. Tree(g)'
  BY <1>1, <1>2, <1>4, <1>6, <1>7, <1>8 DEF Tree
<1>10. Position(g)'
  BY <1>1 DEF Position
<1>11. Present'
  BY <1>1, <1>2, <1>4 DEF Present
<1>12. TypeOK'
  BY <1>1, <1>2, <1>3, ElementAssumption DEF TypeOK, Steps
<1> QED
  BY <1>9, <1>10, <1>11, <1>12

\* One round of the loop of insert(), down to a child.
LEMMA WalkDown ==
  ASSUME TypeOK, NEW sub, Tree(sub), NEW t \in Linked, Fits(sub, t), i \in Nodes,
         NEW c, c # NULL,
         \/ data[t] > data[i] /\ c = left[t]
         \/ data[t] < data[i] /\ c = right[t]
  PROVE  c \in Linked /\ Fits(sub, c)
<1>1. Node(sub, t)
  BY DEF Tree
<1>2. c \in Linked
  BY <1>1 DEF Node
<1>3. data[t] \in Int /\ data[i] \in Int /\ \A n \in Nodes : data[n] \in Int
  BY LinkedAre DEF TypeOK
<1>4. sub[c] \subseteq sub[t] /\ sub[t] = {t} \cup sub[left[t]] \cup sub[right[t]]
  BY <1>1 DEF Node
<1>5. ASSUME NEW n \in Linked \ sub[c], NEW x \in sub[c]
      PROVE  \/ data[n] < data[x] /\ data[n] < data[i]
             \/ data[n] > data[x] /\ data[n] > data[i]
  <2>1. CASE n \notin sub[t]
    BY <1>4, <1>5, <2>1 DEF Fits
  <2>2. CASE n \in sub[t]
    <3>1. data[n] \in Int /\ x \in Nodes /\ data[x] \in Int
      BY <1>2, <1>3, <1>5, LinkedAre, NodesAre DEF Tree
    <3>2. CASE data[t] > data[i] /\ c = left[t]
      <4>1. data[x] < data[t]
        BY <1>1, <1>5, <3>2 DEF Node
      <4>2. n = t \/ n \in sub[right[t]]
        BY <1>4, <1>5, <2>2, <3>2
      <4>3. data[n] = data[t] \/ data[n] > data[t]
        BY <1>1, <4>2 DEF Node
      <4> QED
        BY <1>3, <3>1, <3>2, <4>1, <4>3
    <3>3. CASE data[t] < data[i] /\ c = right[t]
      <4>1. data[x] > data[t]
        BY <1>1, <1>5, <3>3 DEF Node
      <4>2. n = t \/ n \in sub[left[t]]
        BY <1>4, <1>5, <2>2, <3>3
      <4>3. data[n] = data[t] \/ data[n] < data[t]
        BY <1>1, <4>2 DEF Node
      <4> QED
        BY <1>3, <3>1, <3>3, <4>1, <4>3
    <3> QED
      BY <3>2, <3>3
  <2> QED
    BY <2>1, <2>2
<1> QED
  BY <1>2, <1>5 DEF Fits

\* The loop of insert().
LEMMA WalkStep ==
  ASSUME TypeOK, Present, NEW sub, Tree(sub), Position(sub), InsertWalks
  PROVE  TypeOK' /\ Present' /\ \E g : Tree(g)' /\ Position(g)'
<1>1. /\ pc = "walk" /\ parent' = tmp /\ UNCHANGED <<data, treeVars, search_data>>
      /\ UNCHANGED <<root, left, right>>
  BY DEF InsertWalks, treeVars
<1>2. tmp \in Linked /\ Fits(sub, tmp) /\ i < element /\ i \in Nodes /\ i \in Int
  BY <1>1, ElementAssumption DEF Position, TypeOK, Nodes
<1>3. tmp \in Nodes /\ data[tmp] \in Int /\ data[i] \in Int /\ tmp \in 0..i-1
  <2>1. tmp \in Nodes /\ tmp < i /\ data[tmp] \in Int
    BY <1>2, LinkedAre
  <2>2. data[i] \in Int
    BY <1>2 DEF TypeOK
  <2> QED
    BY <1>2, <2>1, <2>2, NodesAre
<1>4. CASE data[tmp] # data[i] /\ UNCHANGED i
           /\ tmp' = (IF data[tmp] > data[i] THEN left[tmp] ELSE right[tmp])
           /\ pc' = IF tmp' = NULL THEN "link" ELSE "walk"
  <2>1. Linked' = Linked /\ Present' /\ Tree(sub)'
    BY <1>1, <1>4, TreeKept
  <2>2. TypeOK'
    BY <1>1, <1>4 DEF TypeOK, Steps
  <2>3. \/ data[tmp] > data[i] /\ tmp' = left[tmp]
        \/ data[tmp] < data[i] /\ tmp' = right[tmp]
    BY <1>3, <1>4
  <2>4. CASE tmp' = NULL
    <3>2. Fits(sub, parent)'
      BY <1>1, <1>2, <1>4, <2>1 DEF Fits
    <3> QED
      BY <1>1, <1>2, <1>3, <1>4, <2>1, <2>2, <2>3, <2>4, <3>2 DEF Position
  <2>5. CASE tmp' # NULL
    <3>1. PICK c : c = tmp'
      OBVIOUS
    <3>2. c \in Linked /\ Fits(sub, c)
      BY <1>2, <2>3, <2>5, <3>1, WalkDown
    <3>3. Fits(sub, tmp)'
      BY <1>1, <1>4, <2>1, <3>1, <3>2 DEF Fits
    <3> QED
      BY <1>4, <2>1, <2>2, <2>5, <3>1, <3>2, <3>3 DEF Position
  <2> QED
    BY <2>4, <2>5
<1>5. CASE data[tmp] = data[i] /\ i' = i + 1
           /\ pc' = IF i + 1 < element THEN "insert" ELSE "search"
  <2>1. Linked' = Linked
    BY <1>1, <1>2, <1>3, <1>5, LinkedNext
  <2>2. TypeOK'
    BY <1>1, <1>2, <1>5, ElementAssumption DEF TypeOK, Steps
  <2>3. \A m : Node(sub, m)' <=> Node(sub, m)
    BY <1>1, <2>1 DEF Node
  <2>a. root # NULL /\ i' # 0
    BY <1>2, <1>3, <1>5 DEF Tree
  <2>4. Tree(sub)'
    BY <1>1, <2>1, <2>3, <2>a DEF Tree
  <2>5. Present'
    <3> SUFFICES ASSUME NEW m \in 0..i PROVE \E n \in Linked : data[n] = data[m]
      BY <1>1, <1>2, <1>5, <2>1 DEF Present
    <3>1. CASE m = i
      BY <1>2, <1>5, <3>1
    <3>2. CASE m # i
      BY <1>2, <3>2 DEF Present
    <3> QED
      BY <3>1, <3>2
  <2>6. Position(sub)'
    BY <1>5 DEF Position
  <2> QED
    BY <2>2, <2>4, <2>5, <2>6
<1> QED
  BY <1>4, <1>5 DEF InsertWalks, Inserted

\* Each round of the loop of search() keeps the value in sight.
LEMMA SearchStep ==
  ASSUME TypeOK, Present, NEW sub, Tree(sub), Position(sub), SearchSteps
  PROVE  TypeOK' /\ Present' /\ \E g : Tree(g)' /\ Position(g)'
<1>1. pc = "compare" /\ UNCHANGED <<i, data, treeVars, search_data>> /\ UNCHANGED <<root, left, right>>
  BY DEF SearchSteps, treeVars
<1>2. Linked' = Linked /\ Present' /\ Tree(sub)'
  BY <1>1, TreeKept
<1>3. (tmp # NULL => tmp \in Linked) /\ \A n \in Linked : data[n] = search_data => n \in sub[tmp]
  BY <1>1 DEF Position
<1>4. TypeOK'
  BY <1>1 DEF SearchSteps, TypeOK, Steps
<1>5. CASE tmp # NULL /\ data[tmp] # search_data
  <2>1. pc' = "compare" /\ tmp' = IF data[tmp] > search_data THEN left[tmp] ELSE right[tmp]
    BY <1>1, <1>5 DEF SearchSteps, SearchChild
  <2>2. Node(sub, tmp) /\ tmp \in Linked /\ data[tmp] \in Int /\ search_data \in Int
    BY <1>3, <1>5, LinkedAre DEF Tree, TypeOK
  <2>3. tmp' # NULL => tmp' \in Linked
    BY <2>1, <2>2 DEF Node
  <2>4. ASSUME NEW n \in Linked, data[n] = search_data PROVE n \in sub[tmp']
    <3>1. n = tmp \/ n \in sub[left[tmp]] \/ n \in sub[right[tmp]]
      BY <1>3, <2>2, <2>4 DEF Node
    <3>2. n \in sub[left[tmp]] => data[n] < data[tmp]
      BY <2>2 DEF Node
    <3>3. n \in sub[right[tmp]] => data[n] > data[tmp]
      BY <2>2 DEF Node
    <3> QED
      BY <1>5, <2>1, <2>2, <2>4, <3>1, <3>2, <3>3
  <2>5. Position(sub)'
    BY <1>1, <1>2, <2>1, <2>3, <2>4 DEF Position
  <2> QED
    BY <1>2, <1>4, <2>5
<1>6. CASE ~(tmp # NULL /\ data[tmp] # search_data)
  <2>1. pc' = "found" /\ tmp' = tmp
    BY <1>1, <1>6 DEF SearchSteps
  <2>2. tmp = NULL => \A n \in Linked : data[n] # search_data
    BY <1>3 DEF Tree
  <2>3. Position(sub)'
    BY <1>1, <1>2, <1>3, <1>6, <2>1, <2>2 DEF Position
  <2> QED
    BY <1>2, <1>4, <2>3
<1> QED
  BY <1>5, <1>6

\* Every step preserves the invariant.
LEMMA StepIInv == ASSUME IInv, [Next]_vars PROVE IInv'
<1>0. PICK sub : Tree(sub) /\ Position(sub)
  BY DEF IInv
<1>a. TypeOK /\ Present
  BY DEF IInv
<1>1. CASE InsertBegins /\ root = NULL
  BY <1>0, <1>1, <1>a, RootStep DEF IInv
<1>2. CASE InsertBegins /\ root # NULL
  <2>1. pc' = "walk" /\ tmp' = root /\ pc = "insert" /\ UNCHANGED <<i, data, treeVars, search_data>>
    BY <1>2 DEF InsertBegins, treeVars
  <2>2. Linked' = Linked /\ Present' /\ Tree(sub)'
    BY <1>0, <1>a, <2>1, TreeKept
  <2>3. TypeOK'
    BY <1>a, <2>1 DEF TypeOK, Steps, treeVars
  <2>4. root \in Linked /\ Linked = sub[root]
    BY <1>0, <1>2 DEF Tree
  <2>5. Position(sub)'
    BY <2>1, <2>2, <2>4 DEF Position, Fits
  <2> QED
    BY <2>2, <2>3, <2>5 DEF IInv
<1>3. CASE InsertWalks
  BY <1>0, <1>3, <1>a, WalkStep DEF IInv
<1>4. CASE InsertLinks
  BY <1>0, <1>4, <1>a, LinkStep DEF IInv
<1>5. CASE SearchBegins
  <2>1. pc' = "compare" /\ tmp' = root /\ pc = "search" /\ UNCHANGED <<i, data, treeVars, search_data>>
    BY <1>5 DEF SearchBegins
  <2>2. Linked' = Linked /\ Present' /\ Tree(sub)'
    BY <1>0, <1>a, <2>1, TreeKept
  <2>3. TypeOK'
    BY <1>a, <2>1 DEF TypeOK, Steps, treeVars
  <2>4. (root # NULL => root \in Linked) /\ Linked = sub[root]
    BY <1>0 DEF Tree
  <2>5. Position(sub)'
    BY <2>1, <2>2, <2>4 DEF Position
  <2> QED
    BY <2>2, <2>3, <2>5 DEF IInv
<1>6. CASE SearchSteps
  BY <1>0, <1>6, <1>a, SearchStep DEF IInv
<1>7. CASE PrintBegins \/ PrintDown \/ PrintEnds
  <2>1. UNCHANGED <<i, data, treeVars, search_data>> /\ pc \in {"found", "print"}
        /\ pc' \in {"print", "done", "wild_pointer"}
    BY <1>7 DEF PrintBegins, PrintDown, PrintEnds
  <2>2. Present' /\ Tree(sub)'
    BY <1>0, <1>a, <2>1, TreeKept
  <2>3. TypeOK'
    BY <1>a, <2>1 DEF TypeOK, Steps, treeVars
  <2>4. Position(sub)'
    BY <2>1 DEF Position
  <2> QED
    BY <2>2, <2>3, <2>4 DEF IInv
<1>8. CASE UNCHANGED vars
  <2>1. UNCHANGED <<i, data, treeVars, search_data, pc, tmp, parent>> /\ UNCHANGED <<root, left, right>>
    BY <1>8 DEF vars, treeVars
  <2>2. Linked' = Linked /\ Present' /\ Tree(sub)'
    BY <1>0, <1>a, <2>1, TreeKept
  <2>3. TypeOK'
    BY <1>a, <2>1 DEF TypeOK
  <2>4. Fits(sub, tmp)' <=> Fits(sub, tmp)
    BY <2>1, <2>2 DEF Fits
  <2>5. Fits(sub, parent)' <=> Fits(sub, parent)
    BY <2>1, <2>2 DEF Fits
  <2>6. Position(sub)'
    BY <1>0, <2>1, <2>2, <2>4, <2>5 DEF Position
  <2> QED
    BY <2>2, <2>3, <2>6 DEF IInv
<1> QED
  BY <1>1, <1>2, <1>3, <1>4, <1>5, <1>6, <1>7, <1>8 DEF Next

\* It holds initially.
LEMMA InitIInv == Init => IInv
<1> SUFFICES ASSUME Init PROVE IInv
  OBVIOUS
<1>1. /\ pc = "insert" /\ i = 0 /\ root = NULL /\ data \in [Nodes -> Int] /\ search_data \in Int
      /\ left = [n \in Nodes |-> NULL] /\ right = [n \in Nodes |-> NULL]
  BY DataAssumption DEF Init
<1>2. TypeOK
  BY <1>1, ElementAssumption, NodesAre DEF TypeOK, Steps
<1>3. Linked = {}
  <2>1. \A n \in Nodes : ~(n < i)
    BY <1>1, NodesAre
  <2> QED
    BY <2>1 DEF Linked, FirstOfValue
<1>4. Present
  BY <1>1 DEF Present
<1>5. PICK sub : sub = [m \in Links |-> {}]
  OBVIOUS
<1>6. Tree(sub)
  BY <1>1, <1>3, <1>5, NodesAre DEF Tree
<1>7. Position(sub)
  BY <1>1 DEF Position
<1> QED
  BY <1>2, <1>4, <1>6, <1>7 DEF IInv

\* The invariant holds in every state of start().
LEMMA Invariance == Spec => []IInv
BY InitIInv, StepIInv, PTL DEF Spec

\* search() returns a node with the value if and only if there is one
\* (code.c:162-179), for every array and every value.
THEOREM SearchFinds == Spec => []SearchCorrect
<1>1. ASSUME IInv PROVE SearchCorrect
  <2> SUFFICES ASSUME pc = "found"
               PROVE  IF \E n \in Nodes : data[n] = search_data
                        THEN tmp # NULL /\ data[tmp] = search_data
                        ELSE tmp = NULL
    BY DEF SearchCorrect
  <2>1. PICK sub : Tree(sub) /\ Position(sub)
    BY <1>1 DEF IInv
  <2>2. IF tmp = NULL THEN \A n \in Linked : data[n] # search_data
                      ELSE tmp \in Linked /\ data[tmp] = search_data
    BY <2>1 DEF Position
  <2>3. i = element
    BY <1>1, ElementAssumption DEF IInv, TypeOK
  <2>4. \A m \in Nodes : \E n \in Linked : data[n] = data[m]
    BY <1>1, <2>3 DEF IInv, Present, Nodes
  <2>5. tmp # NULL => tmp \in Nodes
    BY <1>1, <2>2, LinkedAre DEF IInv
  <2> QED
    BY <2>2, <2>4, <2>5
<1> QED
  BY <1>1, Invariance, PTL

-----------------------------------------------------------------------------
\* A set of natural numbers that is not empty has a least element.
LEMMA LeastElement ==
  ASSUME NEW T \in SUBSET Nat, T # {}
  PROVE  \E x \in T : \A y \in T : x <= y
<1> DEFINE R == OpToRel(<, Nat)
<1>1. IsWellFoundedOn(R, Nat)
  BY NatLessThanWellFounded
<1>2. \A x, y \in Nat : x < y => <<x, y>> \in R
  BY DEF OpToRel
<1> HIDE DEF R
<1>3. PICK x \in T : \A y \in T : ~ (<<y, x>> \in R)
  BY <1>1, WFMin
<1>4. ASSUME NEW y \in T PROVE x <= y
  <2>1. x \in Nat /\ y \in Nat
    OBVIOUS
  <2>2. ~ (y < x)
    BY <1>2, <1>3, <2>1
  <2> QED
    BY <2>1, <2>2
<1> QED
  BY <1>4

\* A set with 0 and the successor of each of its numbers has every natural number.
LEMMA SetInduction ==
  ASSUME NEW S, 0 \in S, \A n \in Nat : n \in S => n + 1 \in S
  PROVE  Nat \subseteq S
<1> SUFFICES ASSUME Nat \ S # {} PROVE FALSE
  OBVIOUS
<1>1. PICK x \in Nat \ S : \A y \in Nat \ S : x <= y
  BY LeastElement
<1> QED
  BY <1>1

\* f[d] is what d steps make of b.
Repeats(f, V, b, step, N) ==
  /\ f \in [0..N -> V]
  /\ f[0] = b
  /\ \A d \in 1..N : f[d] = step[f[d-1]]

\* step is a function from V to V.
StaysIn(step, V) == step \in [V -> V]

\* A step on V can be repeated any number of times.
LEMMA Repeated ==
  ASSUME NEW V, NEW b \in V, NEW step, StaysIn(step, V), NEW N \in Nat
  PROVE  \E f : Repeats(f, V, b, step, N)
<1>0. step \in [V -> V]
  BY DEF StaysIn
<1> DEFINE Runs(f, n) == f[0] = b /\ \A d \in 1..n : f[d] = step[f[d-1]]
           S == {n \in Nat : \E f \in [0..n -> V] : Runs(f, n)}
<1>1. 0 \in S
  <2> DEFINE f == [d \in 0..0 |-> b]
  <2>1. f \in [0..0 -> V] /\ Runs(f, 0)
    OBVIOUS
  <2> QED
    BY <2>1
<1>2. ASSUME NEW n \in Nat, n \in S PROVE n + 1 \in S
  <2>1. PICK f \in [0..n -> V] : Runs(f, n)
    BY <1>2
  <2> DEFINE g == [d \in 0..n+1 |-> IF d = n + 1 THEN step[f[n]] ELSE f[d]]
  <2>2. f[n] \in V /\ step[f[n]] \in V
    BY <1>0
  <2>3. \A d \in 0..n+1 : d # n + 1 => d \in 0..n /\ f[d] \in V
    OBVIOUS
  <2>4. g \in [0..n+1 -> V]
    BY <2>2, <2>3
  <2>5. g[0] = b /\ g[n+1] = step[f[n]] /\ \A d \in 0..n : g[d] = f[d]
    BY <2>1
  <2> HIDE DEF g
  <2>6. ASSUME NEW d \in 1..n+1 PROVE g[d] = step[g[d-1]]
    <3>1. CASE d = n + 1
      <4>1. d - 1 = n /\ n \in 0..n
        BY <3>1
      <4> QED
        BY <2>5, <3>1, <4>1
    <3>2. CASE d # n + 1
      <4>1. d \in 1..n /\ d \in 0..n /\ d - 1 \in 0..n
        BY <3>2
      <4> QED
        BY <2>1, <2>5, <4>1
    <3> QED
      BY <3>1, <3>2
  <2> QED
    BY <2>4, <2>5, <2>6
<1> HIDE DEF S
<1>3. Nat \subseteq S
  BY <1>1, <1>2, SetInduction
<1> QED
  BY <1>3 DEF S, Repeats

-----------------------------------------------------------------------------
\* Sequence s has the nodes of T in ascending order.
Ascends(s, T) ==
  /\ s \in Seq(Nodes)
  /\ \A k \in 1..Len(s) : s[k] \in T
  /\ \A n \in T : \E k \in 1..Len(s) : s[k] = n
  /\ \A j, k \in 1..Len(s) : j < k => data[s[j]] < data[s[k]]

\* Ascending nodes below m, m itself and ascending nodes above m ascend.
LEMMA Joined ==
  ASSUME data \in [Nodes -> Int],
         NEW a, NEW A \in SUBSET Nodes, Ascends(a, A), NEW b, NEW B \in SUBSET Nodes, Ascends(b, B),
         NEW m \in Nodes, \A n \in A : data[n] < data[m], \A n \in B : data[n] > data[m]
  PROVE  Ascends(a \o <<m>> \o b, {m} \cup A \cup B)
<1> DEFINE c == a \o <<m>> \o b
           p == Len(a)
           q == Len(b)
<1>1. a \in Seq(Nodes) /\ b \in Seq(Nodes) /\ p \in Nat /\ q \in Nat
  BY DEF Ascends
<1>2. c \in Seq(Nodes) /\ Len(c) = p + 1 + q
  BY <1>1
<1>3. \A k \in 1..p : c[k] = a[k]
  BY <1>1
<1>4. c[p+1] = m
  BY <1>1
<1>5. \A k \in 1..q : c[p+1+k] = b[k]
  BY <1>1
<1> HIDE DEF c
<1>6. \A k \in 1..Len(c) : k \in 1..p \/ k = p + 1 \/ \E h \in 1..q : k = p + 1 + h
  <2> TAKE k \in 1..Len(c)
  <2>1. CASE k > p + 1
    <3>1. k - (p + 1) \in 1..q /\ k = p + 1 + (k - (p + 1))
      BY <1>1, <1>2, <2>1
    <3> QED
      BY <3>1
  <2> QED
    BY <1>1, <1>2, <2>1
<1>7. (\A k \in 1..p : a[k] \in A) /\ (\A k \in 1..q : b[k] \in B)
  BY DEF Ascends
<1>8. ASSUME NEW k \in 1..Len(c) PROVE c[k] \in {m} \cup A \cup B
  <2>1. CASE k \in 1..p
    BY <1>3, <1>7, <2>1
  <2>2. CASE k = p + 1
    BY <1>4, <2>2
  <2>3. CASE \E h \in 1..q : k = p + 1 + h
    BY <1>5, <1>7, <2>3
  <2> QED
    BY <1>6, <2>1, <2>2, <2>3
<1>9. ASSUME NEW n \in {m} \cup A \cup B PROVE \E k \in 1..Len(c) : c[k] = n
  <2>1. CASE n = m
    BY <1>1, <1>2, <1>4, <2>1
  <2>2. CASE n \in A
    <3>1. PICK k \in 1..p : a[k] = n
      BY <2>2 DEF Ascends
    <3> QED
      BY <1>1, <1>2, <1>3, <3>1
  <2>3. CASE n \in B
    <3>1. PICK k \in 1..q : b[k] = n
      BY <2>3 DEF Ascends
    <3>2. p + 1 + k \in 1..Len(c)
      BY <1>1, <1>2
    <3> QED
      BY <1>5, <3>1, <3>2
  <2> QED
    BY <2>1, <2>2, <2>3
<1>10. ASSUME NEW j \in 1..Len(c), NEW k \in 1..Len(c), j < k PROVE data[c[j]] < data[c[k]]
  <2>1. data[m] \in Int /\ (\A n \in A : data[n] \in Int) /\ (\A n \in B : data[n] \in Int)
    OBVIOUS
  <2>2. CASE j \in 1..p
    <3>1. c[j] = a[j] /\ a[j] \in A
      BY <1>3, <1>7, <2>2
    <3>2. CASE k \in 1..p
      <4>1. c[k] = a[k]
        BY <1>3, <3>2
      <4> QED
        BY <1>10, <2>2, <3>1, <3>2, <4>1 DEF Ascends
    <3>3. CASE k = p + 1
      BY <1>4, <3>1, <3>3
    <3>4. CASE \E h \in 1..q : k = p + 1 + h
      <4>1. c[k] \in B
        BY <1>5, <1>7, <3>4
      <4> QED
        BY <2>1, <3>1, <4>1
    <3> QED
      BY <1>6, <3>2, <3>3, <3>4
  <2>3. CASE j = p + 1
    <3>0. k \notin 1..p /\ k # p + 1
      BY <1>1, <1>10, <2>3
    <3>1. PICK h \in 1..q : k = p + 1 + h
      BY <1>6, <3>0
    <3>2. c[k] \in B
      BY <1>5, <1>7, <3>1
    <3> QED
      BY <1>4, <2>3, <3>2
  <2>4. CASE \E h \in 1..q : j = p + 1 + h
    <3>1. PICK g \in 1..q : j = p + 1 + g
      BY <2>4
    <3>0. k \notin 1..p /\ k # p + 1
      BY <1>1, <1>10, <3>1
    <3>2. PICK h \in 1..q : k = p + 1 + h
      BY <1>6, <3>0
    <3>3. c[j] = b[g] /\ c[k] = b[h]
      BY <1>5, <3>1, <3>2
    <3>4. g < h
      BY <1>1, <1>10, <3>1, <3>2
    <3> QED
      BY <3>3, <3>4 DEF Ascends
  <2> QED
    BY <1>6, <2>2, <2>3, <2>4
<1>11. Ascends(c, {m} \cup A \cup B)
  BY <1>2, <1>8, <1>9, <1>10 DEF Ascends
<1> QED
  BY <1>11 DEF c

-----------------------------------------------------------------------------
\* Reading the tree in order: the nodes below every node, ascending.
LEMMA InOrderIs ==
  ASSUME TypeOK, NEW sub, Tree(sub)
  PROVE  \A n \in Linked \cup {NULL} : Ascends(InOrder(n), sub[n])
<1>0. element \in Nat /\ element > 0 /\ data \in [Nodes -> Int]
  BY ElementAssumption DEF TypeOK
<1>1. \A m \in Nodes : left[m] \in Links /\ right[m] \in Links
  BY DEF TypeOK
<1> DEFINE V == [Links -> Seq(Nodes)]
           Joins(w, m) == IF m = NULL THEN <<>> ELSE w[left[m]] \o <<m>> \o w[right[m]]
           empty == [m \in Links |-> <<>>]
           Rule(g, d, m) == IF d = 0 \/ m = NULL THEN <<>>
                            ELSE g[d-1][left[m]] \o <<m>> \o g[d-1][right[m]]
           Image(g) == [d \in 0..element |-> [m \in Nodes \cup {NULL} |-> Rule(g, d, m)]]
           Walks(g) == g = Image(g)
           walk == CHOOSE g : Walks(g)
<1>2. \A n : InOrder(n) = walk[element][n]
  BY DEF InOrder
<1>3. \A m \in Links : m # NULL => m \in Nodes
  BY DEF Links
<1>4. \E g : Walks(g)
  <2> DEFINE step == [w \in V |-> [m \in Links |-> Joins(w, m)]]
  <2>1. empty \in V
    OBVIOUS
  <2>2. ASSUME NEW w \in V, NEW m \in Links PROVE Joins(w, m) \in Seq(Nodes)
    <3>1. CASE m = NULL
      BY <3>1
    <3>2. CASE m # NULL
      <4>1. w[left[m]] \in Seq(Nodes) /\ w[right[m]] \in Seq(Nodes) /\ <<m>> \in Seq(Nodes)
        BY <1>1, <1>3, <3>2
      <4> QED
        BY <3>2, <4>1
    <3> QED
      BY <3>1, <3>2
  <2>3. StaysIn(step, V)
    <3> HIDE DEF Joins
    <3> QED
      BY <2>2 DEF StaysIn
  <2>4. \A w \in V : step[w] = [m \in Links |-> Joins(w, m)]
    OBVIOUS
  <2> HIDE DEF step, empty, V
  <2>a. PICK f : Repeats(f, V, empty, step, element)
    BY <1>0, <2>1, <2>3, Repeated
  <2>5. f \in [0..element -> V] /\ f[0] = empty /\ \A d \in 1..element : f[d] = step[f[d-1]]
    BY <2>a DEF Repeats
  <2>6. ASSUME NEW d \in 0..element PROVE f[d] = [m \in Links |-> Rule(f, d, m)]
    <3>1. CASE d = 0
      BY <2>5, <3>1 DEF empty
    <3>2. CASE d # 0
      <4>1. d \in 1..element /\ d - 1 \in 0..element
        BY <1>0, <3>2
      <4>2. f[d-1] \in V
        BY <2>5, <4>1
      <4>3. f[d] = [m \in Links |-> Joins(f[d-1], m)]
        BY <2>4, <2>5, <4>1, <4>2
      <4>4. \A m : Joins(f[d-1], m) = Rule(f, d, m)
        BY <3>2
      <4> HIDE DEF Joins, Rule
      <4> QED
        BY <4>3, <4>4
    <3> QED
      BY <3>1, <3>2
  <2>7. f = [d \in 0..element |-> f[d]]
    BY <2>5
  <2> HIDE DEF Rule
  <2>8. f = [d \in 0..element |-> [m \in Links |-> Rule(f, d, m)]]
    BY <2>6, <2>7
  <2> QED
    BY <2>8 DEF Links
<1> HIDE DEF Walks
<1>5. Walks(walk)
  BY <1>4
<1> HIDE DEF walk
<1>6. walk = Image(walk)
  BY <1>5 DEF Walks
<1>7. \A d \in 0..element, m \in Links : walk[d][m] = Rule(walk, d, m)
  <2> HIDE DEF Rule
  <2>1. \A d \in 0..element : walk[d] = [m \in Nodes \cup {NULL} |-> Rule(walk, d, m)]
    BY <1>6, Zenon
  <2> QED
    BY <2>1, Zenon DEF Links
<1> DEFINE P(d) == \A m \in Linked \cup {NULL} :
                     (m # NULL => element - m <= d) => Ascends(walk[d][m], sub[m])
           S == {d \in Nat : d <= element => P(d)}
<1>8. Ascends(<<>>, {}) /\ sub[NULL] = {}
  BY DEF Ascends, Tree
<1>9. \A m \in Linked \cup {NULL} : m \in Links /\ (m # NULL => m \in Linked)
  BY NodesAre, LinkedAre
<1>a. \A m \in Linked : m \in Int /\ m >= 0 /\ m < element /\ m # NULL
  <2>1. \A m \in Linked : m \in Nodes /\ m # NULL
    BY LinkedAre
  <2> QED
    BY <2>1, NodesAre
<1>10. \A d \in 0..element : walk[d][NULL] = <<>>
  BY <1>7, NodesAre
<1>11. 0 \in S
  <2>1. \A m \in Linked : ~(element - m <= 0)
    BY <1>0, <1>a
  <2>2. 0 \in 0..element
    BY <1>0
  <2>3. Ascends(walk[0][NULL], sub[NULL])
    BY <1>8, <1>10, <2>2
  <2>4. P(0)
    BY <2>1, <2>3
  <2> QED
    BY <2>4
<1>12. ASSUME NEW d \in Nat, d \in S PROVE d + 1 \in S
  <2> SUFFICES ASSUME d + 1 <= element PROVE P(d + 1)
    OBVIOUS
  <2>1. P(d) /\ d \in 0..element /\ d + 1 \in 0..element
    BY <1>0, <1>12
  <2> SUFFICES ASSUME NEW m \in Linked \cup {NULL}, m # NULL => element - m <= d + 1
               PROVE  Ascends(walk[d+1][m], sub[m])
    OBVIOUS
  <2>2. CASE m = NULL
    BY <1>8, <1>10, <2>1, <2>2
  <2>3. CASE m # NULL
    <3>1. m \in Linked /\ m \in Nodes /\ m \in Links /\ m \in Int /\ Node(sub, m)
      BY <1>9, <2>3, LinkedAre, NodesAre DEF Tree
    <3>2. \A c \in {left[m], right[m]} : c \in Linked \cup {NULL} /\ (c # NULL => c > m)
      BY <3>1 DEF Node
    <3>3. ASSUME NEW c \in {left[m], right[m]}, c # NULL PROVE element - c <= d
      <4>1. c \in Int /\ c > m
        BY <1>a, <3>2, <3>3
      <4> QED
        BY <1>0, <2>3, <3>1, <4>1
    <3>4. \A c \in {left[m], right[m]} : Ascends(walk[d][c], sub[c]) /\ sub[c] \in SUBSET Nodes
      BY <1>9, <2>1, <3>2, <3>3 DEF Tree
    <3>5. Ascends(walk[d][left[m]], sub[left[m]]) /\ Ascends(walk[d][right[m]], sub[right[m]])
      BY <3>4
    <3>6. /\ \A n \in sub[left[m]] : data[n] < data[m]
          /\ \A n \in sub[right[m]] : data[n] > data[m]
          /\ sub[m] = {m} \cup sub[left[m]] \cup sub[right[m]]
      BY <3>1 DEF Node
    <3>7. Ascends(walk[d][left[m]] \o <<m>> \o walk[d][right[m]], sub[m])
      BY <1>0, <3>1, <3>4, <3>5, <3>6, Joined
    <3>8. walk[d+1][m] = walk[d][left[m]] \o <<m>> \o walk[d][right[m]]
      <4>1. walk[d+1][m] = Rule(walk, d + 1, m)
        BY <1>7, <2>1, <3>1
      <4>2. d + 1 # 0 /\ (d + 1) - 1 = d
        OBVIOUS
      <4> QED
        BY <2>3, <4>1, <4>2
    <3> QED
      BY <3>7, <3>8
  <2> QED
    BY <2>2, <2>3
<1> HIDE DEF S
<1>13. Nat \subseteq S
  BY <1>11, <1>12, SetInduction
<1>14. P(element)
  BY <1>0, <1>13 DEF S
<1>15. \A m \in Linked \cup {NULL} : m # NULL => element - m <= element
  BY <1>0, <1>a
<1> QED
  BY <1>2, <1>14, <1>15

\* At every step the nodes inserted so far form a search tree, each value once
\* and in ascending order (insert(), code.c:181-222), for every array.
THEOREM TreeSorted == Spec => []SearchTree
<1>1. IInv => SearchTree
  <2> SUFFICES ASSUME IInv PROVE SearchTree
    OBVIOUS
  <2>1. PICK sub : Tree(sub)
    BY DEF IInv
  <2>2. TypeOK /\ sub[root] = Linked /\ root \in Linked \cup {NULL}
    BY <2>1 DEF IInv, Tree
  <2> DEFINE s == InOrder(root)
  <2>3. Ascends(s, Linked)
    BY <2>1, <2>2, InOrderIs
  <2> HIDE DEF s
  <2>4. Len(s) \in Nat
    BY <2>3 DEF Ascends
  <2>5. \A k \in 1..Len(s)-1 : data[s[k]] < data[s[k+1]]
    <3> TAKE k \in 1..Len(s)-1
    <3>1. k \in 1..Len(s) /\ k + 1 \in 1..Len(s) /\ k < k + 1
      BY <2>4
    <3> QED
      BY <2>3, <3>1 DEF Ascends
  <2>6. {s[k] : k \in 1..Len(s)} = Linked
    BY <2>3 DEF Ascends
  <2> QED
    BY <2>5, <2>6 DEF SearchTree, Linked, s
<1> QED
  BY <1>1, Invariance, PTL

-----------------------------------------------------------------------------
\* A set of nodes that has every node whose successors it has.
LEMMA Downwards ==
  ASSUME NEW T, \A n \in Nodes : (\A k \in Nodes : k > n => k \in T) => n \in T
  PROVE  Nodes \subseteq T
<1> DEFINE S == {d \in Nat : \A k \in Nodes : element - k <= d => k \in T}
<1>0. element \in Nat
  BY ElementAssumption
<1>1. 0 \in S
  BY <1>0, NodesAre
<1>2. ASSUME NEW d \in Nat, d \in S PROVE d + 1 \in S
  <2> SUFFICES ASSUME NEW n \in Nodes, element - n <= d + 1 PROVE n \in T
    OBVIOUS
  <2>1. n \in Int
    BY NodesAre
  <2>2. ASSUME NEW k \in Nodes, k > n PROVE k \in T
    <3>1. k \in Int
      BY NodesAre
    <3>2. element - k <= d
      BY <1>0, <2>1, <2>2, <3>1
    <3> QED
      BY <1>2, <3>2
  <2> QED
    BY <2>2
<1> HIDE DEF S
<1>3. Nat \subseteq S
  BY <1>1, <1>2, SetInduction
<1>4. \A k \in Nodes : element - k <= element
  BY <1>0, NodesAre
<1> QED
  BY <1>0, <1>3, <1>4 DEF S

\* Seen from a node that is not below m, the nodes below m are all on one side.
OneSide(sub, r, m) ==
  /\ sub[m] \subseteq sub[r]
  /\ \A n \in sub[r] \ sub[m], y, z \in sub[m] : data[n] < data[y] => data[n] < data[z]

\* So it is for every node m below any node r.
LEMMA Apart ==
  ASSUME TypeOK, NEW sub, Tree(sub)
  PROVE  \A r \in Linked : \A m \in Linked : m \in sub[r] => OneSide(sub, r, m)
<1> DEFINE P(r) == \A m \in Linked : m \in sub[r] => OneSide(sub, r, m)
           T == {r \in Nodes : r \in Linked => P(r)}
<1>1. ASSUME NEW r \in Nodes, \A k \in Nodes : k > r => k \in T PROVE r \in T
  <2> SUFFICES ASSUME r \in Linked, NEW m \in Linked, m \in sub[r] PROVE OneSide(sub, r, m)
    OBVIOUS
  <2>1. Node(sub, r) /\ sub[NULL] = {}
    BY DEF Tree
  <2>2. sub[r] = {r} \cup sub[left[r]] \cup sub[right[r]]
    BY <2>1 DEF Node
  <2>3. /\ \A n \in sub[left[r]] : data[n] < data[r]
        /\ \A n \in sub[right[r]] : data[n] > data[r]
    BY <2>1 DEF Node
  <2>4. data[r] \in Int /\ \A c \in Links : \A n \in sub[c] : data[n] \in Int
    BY DEF TypeOK, Tree
  <2>5. left[r] \in Links /\ right[r] \in Links
    BY DEF TypeOK
  <2>6. ASSUME NEW c \in {left[r], right[r]}, m \in sub[c] PROVE OneSide(sub, c, m)
    <3>1. c # NULL /\ c \in Linked /\ c > r
      BY <2>1, <2>6 DEF Node
    <3>2. c \in T
      BY <1>1, <3>1, LinkedAre
    <3> QED
      BY <2>6, <3>1, <3>2
  <2>7. CASE m = r
    BY <2>7 DEF OneSide
  <2>8. CASE m \in sub[left[r]]
    <3>1. OneSide(sub, left[r], m)
      BY <2>6, <2>8
    <3>2. sub[m] \subseteq sub[left[r]]
      BY <3>1 DEF OneSide
    <3>3. ASSUME NEW n \in sub[r] \ sub[m], NEW y \in sub[m], NEW z \in sub[m], data[n] < data[y]
          PROVE  data[n] < data[z]
      <4>1. CASE n \in sub[left[r]]
        BY <3>1, <3>3, <4>1 DEF OneSide
      <4>2. CASE n = r \/ n \in sub[right[r]]
        <5>0. data[y] \in Int /\ data[n] \in Int
          BY <2>4, <2>5, <3>2, <4>2
        <5>1. data[y] < data[r]
          BY <2>3, <3>2
        <5>2. n = r \/ data[n] > data[r]
          BY <2>3, <4>2
        <5> QED
          BY <2>4, <3>3, <5>0, <5>1, <5>2
      <4> QED
        BY <2>2, <4>1, <4>2
    <3> QED
      BY <2>2, <3>2, <3>3 DEF OneSide
  <2>9. CASE m \in sub[right[r]]
    <3>1. OneSide(sub, right[r], m)
      BY <2>6, <2>9
    <3>2. sub[m] \subseteq sub[right[r]]
      BY <3>1 DEF OneSide
    <3>3. ASSUME NEW n \in sub[r] \ sub[m], NEW y \in sub[m], NEW z \in sub[m], data[n] < data[y]
          PROVE  data[n] < data[z]
      <4>1. CASE n \in sub[right[r]]
        BY <3>1, <3>3, <4>1 DEF OneSide
      <4>2. CASE n = r \/ n \in sub[left[r]]
        <5>0. data[z] \in Int /\ data[n] \in Int
          BY <2>4, <2>5, <3>2, <4>2
        <5>1. data[z] > data[r]
          BY <2>3, <3>2
        <5>2. n = r \/ data[n] < data[r]
          BY <2>3, <4>2
        <5> QED
          BY <2>4, <5>0, <5>1, <5>2
      <4> QED
        BY <2>2, <4>1, <4>2
    <3> QED
      BY <2>2, <3>2, <3>3 DEF OneSide
  <2> QED
    BY <2>2, <2>7, <2>8, <2>9
<1> HIDE DEF T
<1>2. Nodes \subseteq T
  BY <1>1, Downwards
<1> QED
  BY <1>2, LinkedAre DEF T

\* rb_first() and the end of rb_next(): the least of the nodes below n.
LEMMA LeftMostIs ==
  ASSUME TypeOK, NEW sub, Tree(sub), NEW n \in Linked
  PROVE  /\ LeftMost(n) \in Linked /\ LeftMost(n) \in sub[n]
         /\ \A x \in sub[n] : data[LeftMost(n)] <= data[x]
<1>0. element \in Nat /\ 0 \in 0..element /\ n \in Nodes
  BY ElementAssumption, LinkedAre
<1> DEFINE Rule(g, d) == IF d = 0 THEN n
                         ELSE IF left[g[d-1]] = NULL THEN g[d-1] ELSE left[g[d-1]]
           Image(g) == [d \in 0..element |-> Rule(g, d)]
           Goes(g) == g = Image(g)
           go == CHOOSE g : Goes(g)
<1>1. LeftMost(n) = go[element]
  BY DEF LeftMost
<1>2. \E g : Goes(g)
  <2> DEFINE step == [x \in Nodes |-> IF left[x] = NULL THEN x ELSE left[x]]
  <2>1. StaysIn(step, Nodes)
    BY DEF StaysIn, TypeOK, Links
  <2>2. \A x \in Nodes : step[x] = IF left[x] = NULL THEN x ELSE left[x]
    OBVIOUS
  <2> HIDE DEF step
  <2>3. PICK f : Repeats(f, Nodes, n, step, element)
    BY <1>0, <2>1, Repeated
  <2>4. f \in [0..element -> Nodes] /\ f[0] = n /\ \A d \in 1..element : f[d] = step[f[d-1]]
    BY <2>3 DEF Repeats
  <2>5. ASSUME NEW d \in 0..element PROVE f[d] = Rule(f, d)
    <3>1. CASE d = 0
      BY <2>4, <3>1
    <3>2. CASE d # 0
      <4>1. d \in 1..element /\ d - 1 \in 0..element
        BY <1>0, <3>2
      <4>2. f[d-1] \in Nodes
        BY <2>4, <4>1
      <4> QED
        BY <2>2, <2>4, <3>2, <4>1, <4>2
    <3> QED
      BY <3>1, <3>2
  <2>6. f = [d \in 0..element |-> f[d]]
    BY <2>4
  <2> HIDE DEF Rule
  <2> QED
    BY <2>5, <2>6
<1> HIDE DEF Goes
<1>3. Goes(go)
  BY <1>2
<1> HIDE DEF go
<1>4. go = Image(go)
  BY <1>3 DEF Goes
<1>5. \A d \in 0..element : go[d] = Rule(go, d)
  <2> HIDE DEF Rule
  <2> QED
    BY <1>4
<1> DEFINE Below(c) == /\ c \in Linked
                       /\ c \in sub[n]
                       /\ sub[c] \subseteq sub[n]
                       /\ \A x \in sub[n] \ sub[c] : \A y \in sub[c] : data[y] < data[x]
           P(d) == Below(go[d]) /\ (left[go[d]] = NULL \/ go[d] >= d)
           S == {d \in Nat : d <= element => P(d)}
<1>6. ASSUME NEW m \in Linked
      PROVE  /\ Node(sub, m) /\ m \in sub[m] /\ m \in Int /\ m < element /\ m \in Nodes
             /\ sub[NULL] = {} /\ data[m] \in Int
  <2>1. m \in Nodes /\ data[m] \in Int
    BY LinkedAre
  <2>2. m \in Int /\ m < element
    BY <2>1, NodesAre
  <2>3. Node(sub, m) /\ sub[NULL] = {}
    BY DEF Tree
  <2>4. m \in sub[m]
    BY <2>3 DEF Node
  <2> QED
    BY <2>1, <2>2, <2>3, <2>4
<1>7. \A x \in sub[n] : x \in Nodes /\ data[x] \in Int
  <2>1. n \in Links
    BY <1>0 DEF Links
  <2> QED
    BY <2>1 DEF Tree, TypeOK
<1>8. 0 \in S
  <2>1. go[0] = n
    BY <1>0, <1>5
  <2>2. n >= 0
    BY <1>0, NodesAre
  <2> QED
    BY <1>6, <2>1, <2>2
<1>9. ASSUME NEW d \in Nat, d \in S PROVE d + 1 \in S
  <2> SUFFICES ASSUME d + 1 <= element PROVE P(d + 1)
    <3> HIDE DEF P
    <3> QED
      OBVIOUS
  <2>1. P(d)
    <3> HIDE DEF P
    <3> QED
      BY <1>0, <1>9
  <2> DEFINE m == go[d]
  <2>2. go[d+1] = IF left[m] = NULL THEN m ELSE left[m]
    <3>1. d + 1 \in 0..element /\ d + 1 # 0 /\ (d + 1) - 1 = d
      BY <1>0
    <3> QED
      BY <1>5, <3>1
  <2>3. CASE left[m] = NULL
    BY <2>1, <2>2, <2>3
  <2>4. CASE left[m] # NULL
    <3> DEFINE c == left[m]
    <3>1. go[d+1] = c
      BY <2>2, <2>4
    <3>2. m \in Linked /\ Below(m) /\ m >= d
      BY <2>1, <2>4
    <3>3. Node(sub, m) /\ m \in Int /\ m \in Nodes
      BY <1>6, <3>2
    <3> HIDE DEF m
    <3>4. c \in Linked /\ c > m
      BY <2>4, <3>3 DEF Node
    <3>5. c \in sub[c] /\ c \in Int
      BY <1>6, <3>4
    <3>6. c >= d + 1
      BY <3>2, <3>3, <3>4, <3>5
    <3>7. sub[m] = {m} \cup sub[c] \cup sub[right[m]]
      BY <3>3 DEF Node
    <3>8. ASSUME NEW x \in sub[n] \ sub[c], NEW y \in sub[c] PROVE data[y] < data[x]
      <4>1. CASE x \notin sub[m]
        BY <3>2, <3>7, <3>8, <4>1
      <4>2. CASE x \in sub[m]
        <5>1. x = m \/ x \in sub[right[m]]
          BY <3>7, <3>8, <4>2
        <5>2. data[y] < data[m] /\ (x = m \/ data[x] > data[m])
          BY <3>3, <5>1 DEF Node
        <5>3. data[y] \in Int /\ data[x] \in Int /\ data[m] \in Int
          BY <1>7, <3>2, <3>7
        <5> QED
          BY <5>2, <5>3
      <4> QED
        BY <4>1, <4>2
    <3>9. Below(c)
      BY <3>2, <3>4, <3>5, <3>7, <3>8
    <3> QED
      BY <3>1, <3>6, <3>9
  <2> QED
    BY <2>3, <2>4
<1> HIDE DEF S
<1>10. Nat \subseteq S
  BY <1>8, <1>9, SetInduction
<1>11. P(element)
  BY <1>0, <1>10 DEF S
<1> DEFINE l == go[element]
<1>12. Below(l) /\ l \in Linked /\ (left[l] = NULL \/ l >= element)
  BY <1>11
<1> HIDE DEF l, S
<1>13. Node(sub, l) /\ l \in Int /\ l < element /\ l \in sub[l] /\ sub[NULL] = {} /\ data[l] \in Int
  BY <1>6, <1>12
<1>14. left[l] = NULL
  BY <1>0, <1>12, <1>13
<1>15. \A x \in sub[l] : x = l \/ data[x] > data[l]
  BY <1>13, <1>14 DEF Node
<1>16. ASSUME NEW x \in sub[n] PROVE data[l] <= data[x]
  <2>1. CASE x \in sub[l]
    BY <1>7, <1>13, <1>15, <2>1
  <2>2. CASE x \notin sub[l]
    <3>1. data[l] < data[x]
      BY <1>12, <1>13, <1>16, <2>2
    <3> QED
      BY <1>7, <1>13, <3>1
  <2> QED
    BY <2>1, <2>2
<1>17. LeftMost(n) = l
  BY <1>1 DEF l
<1> QED
  BY <1>12, <1>16, <1>17

-----------------------------------------------------------------------------
\* rb_first() finds the first node in order.
LEMMA FirstIs ==
  ASSUME TypeOK, NEW sub, Tree(sub), root # NULL, NEW s, Ascends(s, Linked)
  PROVE  Len(s) >= 1 /\ LeftMost(root) = s[1]
<1> DEFINE l == LeftMost(root)
<1>1. root \in Linked /\ sub[root] = Linked
  BY DEF Tree
<1>2. l \in Linked /\ \A x \in Linked : data[l] <= data[x]
  BY <1>1, LeftMostIs
<1> HIDE DEF l
<1>3. Len(s) \in Nat
  <2>1. s \in Seq(Nodes)
    BY DEF Ascends
  <2> QED
    BY <2>1
<1>4. PICK j \in 1..Len(s) : s[j] = l
  BY <1>2 DEF Ascends
<1>5. 1 \in 1..Len(s) /\ s[1] \in Linked
  BY <1>3, <1>4 DEF Ascends
<1>6. data[l] <= data[s[1]] /\ data[l] \in Int /\ data[s[1]] \in Int
  BY <1>2, <1>5, LinkedAre
<1>7. j # 1 => data[s[1]] < data[s[j]]
  BY <1>3, <1>4, <1>5 DEF Ascends
<1>8. j = 1
  BY <1>4, <1>6, <1>7
<1> QED
  BY <1>3, <1>4, <1>8 DEF l

\* rb_next() of a node with a right child finds the next node in order.
LEMMA NextIs ==
  ASSUME TypeOK, NEW sub, Tree(sub), NEW s, Ascends(s, Linked),
         NEW k \in 1..Len(s), tmp = s[k], right[tmp] # NULL
  PROVE  k + 1 <= Len(s) /\ RbNext = s[k+1]
<1> DEFINE l == RbNext
           r == right[tmp]
<1>1. tmp \in Linked
  BY DEF Ascends
<1>2. Node(sub, tmp)
  BY <1>1 DEF Tree
<1>3. r \in Linked
  BY <1>2 DEF Node
<1>4. l \in Linked /\ l \in sub[r] /\ \A x \in sub[r] : data[l] <= data[x]
  BY <1>3, LeftMostIs DEF RbNext
<1> HIDE DEF l
<1>5. sub[tmp] = {tmp} \cup sub[left[tmp]] \cup sub[r]
  BY <1>2 DEF Node
<1>6. /\ \A x \in sub[left[tmp]] : data[x] < data[tmp]
      /\ \A x \in sub[r] : data[x] > data[tmp]
  BY <1>2 DEF Node
<1> HIDE DEF r
<1>7. \A x \in Linked : data[x] \in Int
  BY LinkedAre
<1>8. Len(s) \in Nat /\ k \in Int /\ k >= 1
  <2>1. s \in Seq(Nodes)
    BY DEF Ascends
  <2>2. Len(s) \in Nat
    BY <2>1
  <2> QED
    BY <2>2
<1>9. PICK j \in 1..Len(s) : s[j] = l
  BY <1>4 DEF Ascends
<1>10. data[tmp] < data[l]
  BY <1>4, <1>6, <1>7, <1>1
<1>11. \A a, b \in 1..Len(s) : a < b => data[s[a]] < data[s[b]]
  BY DEF Ascends
<1>12. j > k
  <2>1. CASE j < k
    <3>1. data[l] < data[tmp]
      BY <1>9, <1>11, <2>1
    <3> QED
      BY <1>1, <1>4, <1>7, <1>10, <3>1
  <2>2. CASE j = k
    BY <1>1, <1>7, <1>9, <1>10, <2>2
  <2> QED
    BY <1>8, <2>1, <2>2
<1>13. k + 1 \in 1..Len(s) /\ k < k + 1 /\ (j # k + 1 => k + 1 < j)
  BY <1>8, <1>12
<1>14. SUFFICES ASSUME j # k + 1 PROVE FALSE
  BY <1>8, <1>9, <1>13 DEF l
<1>15. PICK x \in Linked : data[tmp] < data[x] /\ data[x] < data[l]
  <2>1. s[k+1] \in Linked
    BY <1>13 DEF Ascends
  <2>2. data[s[k]] < data[s[k+1]] /\ data[s[k+1]] < data[s[j]]
    BY <1>11, <1>13, <1>14
  <2> QED
    BY <1>9, <2>1, <2>2
<1>16. CASE x \in sub[tmp]
  <2>1. x = tmp \/ data[x] < data[tmp] \/ data[l] <= data[x]
    BY <1>4, <1>5, <1>6, <1>16
  <2> QED
    BY <1>1, <1>4, <1>7, <1>15, <2>1
<1>17. CASE x \notin sub[tmp]
  <2>1. root \in Linked /\ sub[root] = Linked
    <3>1. sub[root] = Linked /\ sub[NULL] = {}
      BY DEF Tree
    <3> QED
      BY <1>1, <3>1 DEF Tree
  <2>2. OneSide(sub, root, tmp)
    BY <1>1, <2>1, Apart
  <2>3. tmp \in sub[tmp] /\ l \in sub[tmp]
    BY <1>4, <1>5
  <2>4. data[x] < data[tmp]
    BY <1>15, <1>17, <2>1, <2>2, <2>3 DEF OneSide
  <2> QED
    BY <1>1, <1>7, <1>15, <2>4
<1> QED
  BY <1>16, <1>17

\* What print() has written and the node it is at.
Printing ==
  LET s == InOrder(root)
  IN  /\ out \in Seq(Int)
      /\ pc \notin {"print", "done", "wild_pointer"} => out = <<>>
      /\ \A k \in 1..Len(out) : out[k] = data[s[k]]
      /\ pc = "print" => Len(out) < Len(s) /\ tmp = s[Len(out)+1]

\* The order depends on the links alone.
LEMMA OrderKept ==
  ASSUME UNCHANGED treeVars
  PROVE  InOrder(root)' = InOrder(root)
<1> DEFINE Order(l, r, n) ==
             LET walk[d \in 0..element] ==
                   [m \in Nodes \cup {NULL} |->
                      IF d = 0 \/ m = NULL THEN <<>>
                      ELSE walk[d-1][l[m]] \o <<m>> \o walk[d-1][r[m]]]
             IN  walk[element][n]
<1>1. InOrder(root) = Order(left, right, root)
  BY DEF InOrder
<1>2. InOrder(root)' = Order(left', right', root')
  BY DEF InOrder
<1> HIDE DEF Order
<1> QED
  BY <1>1, <1>2 DEF treeVars

\* The entries after Append.
LEMMA Appended ==
  ASSUME NEW a \in Seq(Int), NEW x \in Int, NEW b, b = Append(a, x)
  PROVE  /\ b \in Seq(Int) /\ Len(b) = Len(a) + 1 /\ b[Len(a) + 1] = x
         /\ \A k \in 1..Len(a) : b[k] = a[k]
OBVIOUS

\* A step of print() writes the value of its node.
LEMMA PrintOne ==
  ASSUME TypeOK, NEW sub, Tree(sub), NEW s, s = InOrder(root), Printing, pc = "print",
         out' = Append(out, data[tmp])
  PROVE  /\ Ascends(s, Linked)
         /\ out' \in Seq(Int) /\ Len(out') = Len(out) + 1 /\ Len(out) \in Nat
         /\ Len(out') \in 1..Len(s) /\ tmp = s[Len(out')]
         /\ \A k \in 1..Len(out') : out'[k] = data[s[k]]
<1>1. sub[root] = Linked /\ root \in Linked \cup {NULL}
  BY DEF Tree
<1>2. Ascends(s, Linked)
  BY <1>1, InOrderIs
<1>3. Len(s) \in Nat
  BY <1>2 DEF Ascends
<1>4. /\ out \in Seq(Int) /\ Len(out) \in Nat
      /\ \A k \in 1..Len(out) : out[k] = data[s[k]]
      /\ Len(out) < Len(s) /\ tmp = s[Len(out)+1]
  BY DEF Printing
<1>5. Len(out) + 1 \in 1..Len(s)
  BY <1>3, <1>4
<1>6. tmp \in Linked /\ data[tmp] \in Int
  BY <1>2, <1>4, <1>5, LinkedAre DEF Ascends
<1>7. /\ out' \in Seq(Int) /\ Len(out') = Len(out) + 1 /\ out'[Len(out) + 1] = data[tmp]
      /\ \A k \in 1..Len(out) : out'[k] = out[k]
  BY <1>4, <1>6, Appended
<1>8. ASSUME NEW k \in 1..Len(out') PROVE out'[k] = data[s[k]]
  <2>1. CASE k = Len(out) + 1
    BY <1>4, <1>7, <2>1
  <2>2. CASE k # Len(out) + 1
    <3>1. k \in 1..Len(out)
      BY <1>4, <1>7, <2>2
    <3> QED
      BY <1>4, <1>7, <3>1
  <2> QED
    BY <2>1, <2>2
<1> QED
  BY <1>2, <1>4, <1>5, <1>7, <1>8

\* Every step preserves what print() relies on.
LEMMA PrintStep == IInv /\ Printing /\ [Next]_vars => Printing'
<1> SUFFICES ASSUME IInv, Printing, [Next]_vars PROVE Printing'
  OBVIOUS
<1>0. TypeOK /\ Len(<<>>) = 0 /\ <<>> \in Seq(Int)
  BY DEF IInv
<1>1. PICK sub : Tree(sub)
  BY DEF IInv
<1>2. PICK s : s = InOrder(root)
  OBVIOUS
<1>3. ASSUME out = <<>>, out' = <<>>, pc' # "print" PROVE Printing'
  <2>1. Len(out') = 0 /\ out' \in Seq(Int)
    BY <1>0, <1>3
  <2> QED
    BY <1>3, <2>1 DEF Printing
<1>4. CASE InsertBegins
  BY <1>3, <1>4 DEF InsertBegins, Inserted, Printing
<1>5. CASE InsertWalks
  BY <1>3, <1>5 DEF InsertWalks, Inserted, Printing
<1>6. CASE InsertLinks
  BY <1>3, <1>6 DEF InsertLinks, Inserted, Printing
<1>7. CASE SearchBegins
  BY <1>3, <1>7 DEF SearchBegins, Printing
<1>8. CASE SearchSteps
  BY <1>3, <1>8 DEF SearchSteps, Printing
<1>9. CASE PrintBegins
  <2>1. pc = "found" /\ tmp' = LeftMost(root) /\ pc' = "print" /\ UNCHANGED <<data, treeVars, out>>
    BY <1>9 DEF PrintBegins
  <2>2. out = <<>>
    BY <2>1 DEF Printing
  <2>3. root # NULL
    BY <1>0, <1>1, <2>1, ElementAssumption DEF TypeOK, Tree
  <2>4. Ascends(s, Linked)
    <3>1. sub[root] = Linked /\ root \in Linked \cup {NULL}
      BY <1>1 DEF Tree
    <3> QED
      BY <1>0, <1>1, <1>2, <3>1, InOrderIs
  <2>5. Len(s) >= 1 /\ LeftMost(root) = s[1] /\ Len(s) \in Nat
    BY <1>0, <1>1, <2>3, <2>4, FirstIs DEF Ascends
  <2>6. InOrder(root)' = s
    BY <1>2, <2>1, OrderKept
  <2>7. Len(out') = 0 /\ out' \in Seq(Int)
    BY <1>0, <2>1, <2>2
  <2>8. Len(out') < Len(s) /\ tmp' = s[Len(out') + 1]
    BY <2>1, <2>5, <2>7
  <2> QED
    BY <2>1, <2>6, <2>7, <2>8 DEF Printing
<1>10. CASE PrintDown
  <2>1. /\ pc = "print" /\ right[tmp] # NULL /\ out' = Append(out, data[tmp]) /\ tmp' = RbNext
        /\ pc' = pc /\ UNCHANGED <<data, treeVars>>
    BY <1>10 DEF PrintDown
  <2>2. /\ Ascends(s, Linked)
        /\ out' \in Seq(Int) /\ Len(out') = Len(out) + 1 /\ Len(out) \in Nat
        /\ Len(out') \in 1..Len(s) /\ tmp = s[Len(out')]
        /\ \A k \in 1..Len(out') : out'[k] = data[s[k]]
    BY <1>0, <1>1, <1>2, <2>1, PrintOne
  <2>3. Len(out') + 1 <= Len(s) /\ RbNext = s[Len(out')+1]
    <3>1. PICK k : k = Len(out')
      OBVIOUS
    <3>2. k \in 1..Len(s) /\ tmp = s[k]
      BY <2>2, <3>1
    <3>3. k + 1 <= Len(s) /\ RbNext = s[k+1]
      BY <1>0, <1>1, <2>1, <2>2, <3>2, NextIs
    <3> QED
      BY <3>1, <3>3
  <2>4. InOrder(root)' = s
    BY <1>2, <2>1, OrderKept
  <2>5. Len(out') < Len(s)
    BY <2>2, <2>3 DEF Ascends
  <2> QED
    BY <2>1, <2>2, <2>3, <2>4, <2>5 DEF Printing
<1>11. CASE PrintEnds
  <2>1. /\ pc = "print" /\ out' = Append(out, data[tmp]) /\ pc' \in {"done", "wild_pointer"}
        /\ UNCHANGED <<data, treeVars>>
    BY <1>11 DEF PrintEnds
  <2>2. out' \in Seq(Int) /\ \A k \in 1..Len(out') : out'[k] = data[s[k]]
    BY <1>0, <1>1, <1>2, <2>1, PrintOne
  <2>3. InOrder(root)' = s
    BY <1>2, <2>1, OrderKept
  <2> QED
    BY <2>1, <2>2, <2>3 DEF Printing
<1>12. CASE UNCHANGED vars
  <2>1. UNCHANGED <<pc, data, treeVars, tmp, out>>
    BY <1>12 DEF vars
  <2>2. InOrder(root)' = InOrder(root)
    BY <2>1, OrderKept
  <2> QED
    BY <2>1, <2>2 DEF Printing
<1> QED
  BY <1>4, <1>5, <1>6, <1>7, <1>8, <1>9, <1>10, <1>11, <1>12 DEF Next

\* What print() has written is the beginning of the values in ascending order
\* (code.c:141-160), for every array.
THEOREM PrintSorted == Spec => []PrintsAscending
<1>1. Init => Printing
  <2> SUFFICES ASSUME Init PROVE Printing
    OBVIOUS
  <2>1. out = <<>> /\ pc = "insert"
    BY DEF Init
  <2>2. Len(out) = 0 /\ out \in Seq(Int)
    BY <2>1
  <2> QED
    BY <2>1, <2>2 DEF Printing
<1>2. Printing => PrintsAscending
  BY DEF Printing, PrintsAscending
<1> QED
  BY <1>1, <1>2, Invariance, PrintStep, PTL DEF Spec

=============================================================================
