----------------------------- MODULE Containers -----------------------------
(***************************************************************************)
(* src/link_list/code.c and src/radix_tree/code.c: start() fills a global  *)
(* container, prints what it finds in it, and takes out what it put in.    *)
(* One element of each container is a variable on start()'s stack.         *)
(***************************************************************************)
EXTENDS CodeKo, Sequences

CONSTANT NODES   \* length of fvar[], 5 in the code

ASSUME NodesAssumption == NODES \in Nat \ {0}

VARIABLES
  mylist,   \* the list, from mylist.next on: indexes of fvar[], or Temp
  fvar,     \* the nodes of fvar[] that are allocated
  mytree,   \* the keys in the radix tree; each leads to the stack variable item
  out       \* what start() printed

containersVars == <<mylist, fvar, mytree, out>>

ContainersInit == mylist = <<>> /\ fvar = {} /\ mytree = {} /\ out = <<>>

ContainersLoad == mylist' = <<>> /\ fvar' = {} /\ mytree' = {} /\ out' = <<>>

Temp == NODES   \* the node on the stack

-----------------------------------------------------------------------------
(* link_list *)

\* A failed allocation returns without freeing the nodes before it.
ListAlloc ==
  /\ dir = "link_list"
  /\ pc = "kmalloc"
  /\ \/ /\ fvar' = fvar \cup {i}
        /\ i' = (i + 1) % NODES
        /\ pc' = IF i + 1 = NODES THEN "list_add" ELSE pc
     \/ /\ pc' = "error"
        /\ UNCHANGED <<fvar, i>>
  /\ UNCHANGED <<dir, mylist, out>>

ListAdd ==
  /\ dir = "link_list"
  /\ pc = "list_add"
  /\ mylist' = <<i>> \o mylist
  /\ i' = (i + 1) % NODES
  /\ pc' = IF i + 1 = NODES THEN "print_1" ELSE pc
  /\ UNCHANGED <<dir, fvar, out>>

PrintList(a, b) ==
  /\ Goto("link_list", a, b)
  /\ out' = Append(out, mylist)
  /\ UNCHANGED <<i, mylist, fvar>>

ListAddTail ==
  /\ Goto("link_list", "list_add_tail", "print_2")
  /\ mylist' = Append(mylist, Temp)
  /\ UNCHANGED <<i, fvar, out>>

\* list_del(): the neighbours of entry n become neighbours of each other.
Unlinked(list, n) ==
  LET k == CHOOSE j \in 1 .. Len(list) : list[j] = n
  IN  SubSeq(list, 1, k - 1) \o SubSeq(list, k + 1, Len(list))

\* Faulty variant: only the allocated node is taken off the list.
ListDelKeepsTemp ==
  /\ Goto("link_list", "list_del", "print_3")
  /\ mylist' = Unlinked(mylist, 0)
  /\ UNCHANGED <<i, fvar, out>>

\* Faulty variant: the nodes are freed here, before the last print_list().
ListDelFrees ==
  /\ Goto("link_list", "list_del", "print_3")
  /\ mylist' = Unlinked(Unlinked(mylist, Temp), 0)
  /\ fvar' = {}
  /\ UNCHANGED <<i, out>>

ListDel ==
  /\ Goto("link_list", "list_del", "print_3")
  /\ mylist' = Unlinked(Unlinked(mylist, Temp), 0)
  /\ UNCHANGED <<i, fvar, out>>

\* All the nodes are freed; those after fvar[0] are still on the list.
ListFree ==
  /\ dir = "link_list"
  /\ pc = "kfree"
  /\ fvar' = fvar \ {i}
  /\ i' = (i + 1) % NODES
  /\ pc' = IF i + 1 = NODES THEN "return" ELSE pc
  /\ UNCHANGED <<dir, mylist, out>>

LinkList ==
  /\ \/ ListAlloc \/ ListAdd \/ PrintList("print_1", "list_add_tail") \/ ListAddTail
     \/ PrintList("print_2", "list_del") \/ ListDel \/ PrintList("print_3", "kfree")
     \/ ListFree
  /\ UNCHANGED mytree

-----------------------------------------------------------------------------
(* radix_tree *)

Key == 5

FailKey == 50

\* The tree may have to allocate a node.
RadixInsert ==
  /\ dir = "radix_tree"
  /\ pc = "radix_tree_insert"
  /\ \/ mytree' = mytree \cup {Key} /\ pc' = "lookup_failkey"
     \/ pc' = "error" /\ UNCHANGED mytree
  /\ UNCHANGED <<dir, out>>

RadixLookup(a, k, b) ==
  /\ Goto("radix_tree", a, b)
  /\ out' = Append(out, k \in mytree)
  /\ UNCHANGED mytree

RadixDelete(a, k, b) ==
  /\ Goto("radix_tree", a, b)
  /\ out' = Append(out, k \in mytree)
  /\ mytree' = mytree \ {k}

RadixTree ==
  /\ \/ RadixInsert
     \/ RadixLookup("lookup_failkey", FailKey, "lookup_key")
     \/ RadixLookup("lookup_key", Key, "delete_failkey")
     \/ RadixDelete("delete_failkey", FailKey, "delete_key")
     \/ RadixDelete("delete_key", Key, "return")
  /\ UNCHANGED <<i, mylist, fvar>>

=============================================================================
