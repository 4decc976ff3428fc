---------------------------- MODULE RedBlackTree ----------------------------
(***************************************************************************)
(* src/red_black_tree/code.c: start() fills an array of tree nodes,        *)
(* inserts them one by one into a binary search tree without rebalancing,  *)
(* searches it and prints it in order.  The parent pointers are never      *)
(* initialised, and the nodes live on the stack of start().                *)
(***************************************************************************)
EXTENDS Integers, Sequences

CONSTANTS
  element,  \* number of nodes, 14 in the code
  Arrays,   \* the contents data may have; the code has data[i] = 100 * i
  Keys      \* the values that may be searched for; 200 in the code

Nodes == 0..element-1

ASSUME ElementAssumption == element \in Nat \ {0}

\* data and search_data are ints.
ASSUME DataAssumption == Arrays \subseteq [Nodes -> Int] /\ Keys \subseteq Int

NULL == -1

VARIABLES
  pc,           \* next statement
  i,            \* the node being inserted
  data,
  root,
  left, right,  \* rb_left and rb_right of every node
  tmp,          \* the node under inspection in insert(), search() and print()
  parent,       \* insert(): the last node visited
  search_data,
  out           \* the values printed

treeVars == <<root, left, right>>
vars == <<pc, i, data, treeVars, tmp, parent, search_data, out>>

Init ==
  /\ pc = "insert"
  /\ i = 0
  /\ data \in Arrays
  /\ root = NULL
  /\ left = [n \in Nodes |-> NULL]
  /\ right = [n \in Nodes |-> NULL]
  /\ tmp = NULL
  /\ parent = NULL
  /\ search_data \in Keys
  /\ out = <<>>

-----------------------------------------------------------------------------
(* insert() *)

\* insert() returns; start() goes on with the next node or with the search.
Inserted ==
  /\ i' = i + 1
  /\ pc' = IF i + 1 < element THEN "insert" ELSE "search"

InsertBegins ==
  /\ pc = "insert"
  /\ IF root = NULL
       THEN root' = i /\ Inserted /\ UNCHANGED tmp
       ELSE tmp' = root /\ pc' = "walk" /\ UNCHANGED <<i, root>>
  /\ UNCHANGED <<data, left, right, parent, search_data, out>>

\* Faulty variant: equal values go on to the right.
InsertWalksDuplicates ==
  /\ pc = "walk"
  /\ parent' = tmp
  /\ tmp' = IF data[tmp] > data[i] THEN left[tmp] ELSE right[tmp]
  /\ pc' = IF tmp' = NULL THEN "link" ELSE "walk"
  /\ UNCHANGED <<i, data, treeVars, search_data, out>>

\* One round of the loop; a node with the same value ends it with tmp # NULL.
InsertWalks ==
  /\ pc = "walk"
  /\ parent' = tmp
  /\ \/ /\ data[tmp] # data[i]
        /\ tmp' = IF data[tmp] > data[i] THEN left[tmp] ELSE right[tmp]
        /\ pc' = IF tmp' = NULL THEN "link" ELSE "walk"
        /\ UNCHANGED i
     \/ /\ data[tmp] = data[i]
        /\ Inserted
        /\ UNCHANGED tmp
  /\ UNCHANGED <<data, treeVars, search_data, out>>

\* Faulty variant: the parent is linked to itself.
LinkedRightSelf == [right EXCEPT ![parent] = parent]

LinkedRight == [right EXCEPT ![parent] = i]

InsertLinks ==
  /\ pc = "link"
  /\ left'  = IF data[parent] > data[i] THEN [left EXCEPT ![parent] = i] ELSE left
  /\ right' = IF data[parent] > data[i] THEN right ELSE LinkedRight
  /\ Inserted
  /\ UNCHANGED <<data, root, tmp, parent, search_data, out>>

-----------------------------------------------------------------------------
(* search() *)

SearchBegins ==
  /\ pc = "search"
  /\ tmp' = root
  /\ pc' = "compare"
  /\ UNCHANGED <<i, data, treeVars, parent, search_data, out>>

\* Faulty variant: the comparison is reversed.
SearchChildReversed == IF data[tmp] < search_data THEN left[tmp] ELSE right[tmp]

SearchChild == IF data[tmp] > search_data THEN left[tmp] ELSE right[tmp]

SearchSteps ==
  /\ pc = "compare"
  /\ IF tmp # NULL /\ data[tmp] # search_data
       THEN /\ tmp' = SearchChild
            /\ UNCHANGED pc
       ELSE pc' = "found" /\ UNCHANGED tmp
  /\ UNCHANGED <<i, data, treeVars, parent, search_data, out>>

-----------------------------------------------------------------------------
(* print(): rb_first() and rb_next() *)

\* The end of a chain of left children, starting at n.
LeftMost(n) ==
  LET go[m \in 0..element] == IF m = 0 THEN n
                              ELSE IF left[go[m-1]] = NULL THEN go[m-1] ELSE left[go[m-1]]
  IN  go[element]

PrintBegins ==
  /\ pc = "found"
  /\ tmp' = LeftMost(root)
  /\ pc' = "print"
  /\ UNCHANGED <<i, data, treeVars, parent, search_data, out>>

\* Faulty variant: the right child comes next, whatever is on its left.
RbNextRight == right[tmp]

\* rb_next() of a node with a right child is the leftmost node below that child.
RbNext == LeftMost(right[tmp])

PrintDown ==
  /\ pc = "print"
  /\ right[tmp] # NULL
  /\ out' = Append(out, data[tmp])
  /\ tmp' = RbNext
  /\ UNCHANGED <<pc, i, data, treeVars, parent, search_data>>

\* The parent pointer of a node holds whatever was on the stack.  rb_next()
\* returns NULL if that is the node's own address, or 0 when it has to go up; any
\* other value leads out of the tree, where the model stops.
PrintEnds ==
  /\ pc = "print"
  /\ out' = Append(out, data[tmp])
  /\ tmp' = NULL
  /\ \/ pc' = "done"
     \/ right[tmp] = NULL /\ pc' = "wild_pointer"
  /\ UNCHANGED <<i, data, treeVars, parent, search_data>>

-----------------------------------------------------------------------------
Next == InsertBegins \/ InsertWalks \/ InsertLinks \/ SearchBegins \/ SearchSteps
        \/ PrintBegins \/ PrintDown \/ PrintEnds

Spec == Init /\ [][Next]_vars

\* start() runs without interruption.
FairSpec == Spec /\ WF_vars(Next)

-----------------------------------------------------------------------------
(* Properties *)

\* The nodes in the subtree of n, in order.
InOrder(n) ==
  LET walk[d \in 0..element] ==
        [m \in Nodes \cup {NULL} |->
           IF d = 0 \/ m = NULL THEN <<>>
           ELSE walk[d-1][left[m]] \o <<m>> \o walk[d-1][right[m]]]
  IN  walk[element][n]

\* The nodes that insert() should have linked: the first node with each value.
FirstOfValue(n) == n < i /\ \A m \in 0..n-1 : data[m] # data[n]

\* At every step the nodes inserted so far form a search tree: read in order, each
\* value appears once and in ascending order (code.c:181-222).
SearchTree ==
  LET s == InOrder(root)
  IN  /\ \A k \in 1..Len(s)-1 : data[s[k]] < data[s[k+1]]
      /\ {s[k] : k \in 1..Len(s)} = {n \in Nodes : FirstOfValue(n)}

\* search() returns a node with the value if and only if there is one
\* (code.c:162-179).
SearchCorrect ==
  pc = "found" => IF \E n \in Nodes : data[n] = search_data
                    THEN tmp # NULL /\ data[tmp] = search_data
                    ELSE tmp = NULL

\* What print() has written is the beginning of the values in ascending order
\* (code.c:141-160).
PrintsAscending ==
  LET s == InOrder(root) IN \A k \in 1..Len(out) : out[k] = data[s[k]]

\* Every loop of start() ends (code.c:104-135).
Terminates == <>(pc \in {"done", "wild_pointer"})

(* What the repository says and the code does not keep *)

\* code.c:61-62: "rb_next() subsequently returns the next element until all nodes
\* are traversed."
PrintsAll == pc \in {"done", "wild_pointer"} => pc = "done" /\ Len(out) = Len(InOrder(root))

=============================================================================
