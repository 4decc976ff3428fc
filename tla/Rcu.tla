-------------------------------- MODULE Rcu --------------------------------
(***************************************************************************)
(* src/rcu/code.c: start() builds a list of element nodes, replaces the    *)
(* node holding 10, deletes the one holding 20 and prints the list before, *)
(* between and after.  The deleted node is freed by an RCU callback, which *)
(* runs after a grace period, concurrently with start() or after it.       *)
(***************************************************************************)
EXTENDS Integers, Sequences

CONSTANT element  \* number of nodes, 5 in the code

ASSUME ElementAssumption == element \in Nat \ {0}

HEAD == -1           \* head_mylist
NewNode == element   \* new_node, a static variable
Nodes == 0..element  \* val[0], ..., val[element-1] and new_node
NULL == -2           \* a list pointer nobody has set

VARIABLES
  preempt,   \* CONFIG_PREEMPT: start() is preemptible outside rcu_read_lock(); never changes
  pc,        \* next statement of start(); "live", "gone" and "load_failed" after it
  i,         \* loop index
  next,      \* list pointers of the head and of every node
  prev,
  data,
  tmp1,      \* the cursor of list_for_each_entry()
  locked,    \* mylist_lock is held
  flag,
  callback,  \* call_rcu(): "none", "queued", "ready" (grace period over), "done"
  victim,    \* the node the callback frees
  freed,
  out,       \* what the three reader loops printed
  fault      \* "none", or the stray access or unlock that happened

vars == <<preempt, pc, i, next, prev, data, tmp1, locked, flag, callback, victim, freed, out, fault>>

Init ==
  /\ preempt \in BOOLEAN
  /\ pc = "kmalloc"
  /\ i = 0
  /\ next = [n \in Nodes \cup {HEAD} |-> IF n = HEAD THEN HEAD ELSE NULL]
  /\ prev = next
  /\ data = [n \in Nodes |-> 0]
  /\ tmp1 = HEAD
  /\ locked = FALSE
  /\ flag = 0
  /\ callback = "none"
  /\ victim = HEAD
  /\ freed = {}
  /\ out = [r \in 0..2 |-> <<>>]
  /\ fault = "none"

-----------------------------------------------------------------------------
(* start() *)

Kmalloc ==
  /\ pc = "kmalloc"
  /\ \/ /\ data' = [data EXCEPT ![i] = 10 * i]
        /\ i' = IF i + 1 < element THEN i + 1 ELSE 0
        /\ pc' = IF i + 1 < element THEN "kmalloc" ELSE "add"
     \/ pc' = "load_failed" /\ UNCHANGED <<data, i>>
  /\ UNCHANGED <<next, prev, tmp1, locked, flag, callback, victim, freed, out, fault>>

\* Faulty variant: the new entry does not become its successor's predecessor.
AddedPrevOneWay(n) == [prev EXCEPT ![n] = HEAD]

AddedPrev(n) == [prev EXCEPT ![n] = HEAD, ![next[HEAD]] = n]

\* list_add_rcu() between the head and its successor, under mylist_lock.  The
\* last addition leads to the first reader loop, whose cursor starts there.
ListAddRcu ==
  /\ pc = "add"
  /\ next' = [next EXCEPT ![i] = next[HEAD], ![HEAD] = i]
  /\ prev' = AddedPrev(i)
  /\ i' = i + 1
  /\ pc' = IF i + 1 < element THEN "add" ELSE "read0"
  /\ tmp1' = i
  /\ UNCHANGED <<data, locked, flag, callback, victim, freed, out, fault>>

\* One round, or the end, of a reader loop.
Reader(r, label, following) ==
  /\ pc = label
  /\ IF tmp1 = HEAD
       THEN tmp1' = next[HEAD] /\ pc' = following /\ UNCHANGED <<out, fault>>
       ELSE IF tmp1 \in freed
       THEN fault' = "use_after_free" /\ UNCHANGED <<tmp1, pc, out>>
       ELSE /\ out' = [out EXCEPT ![r] = Append(@, data[tmp1])]
            /\ tmp1' = next[tmp1]
            /\ UNCHANGED <<pc, fault>>
  /\ UNCHANGED <<i, next, prev, data, flag, callback, victim, freed>>

\* synchronize_rcu() returns when every reader has left; none is in when
\* start() itself calls it.
Read0 == Reader(0, "read0", "update") /\ UNCHANGED locked

\* Faulty variant: the predecessor still points to the replaced node.
ReplacedNextUnpublished(old) == [next EXCEPT ![NewNode] = next[old]]

ReplacedNext(old) == [next EXCEPT ![NewNode] = next[old], ![prev[old]] = NewNode]

\* list_replace_rcu() leaves the old node's own next pointer alone, which is
\* what the loop goes on with.
Update ==
  /\ pc = "update"
  /\ tmp1 # HEAD
  /\ IF data[tmp1] = 10
       THEN /\ data' = [data EXCEPT ![NewNode] = 1400]
            /\ next' = ReplacedNext(tmp1)
            /\ prev' = [prev EXCEPT ![NewNode] = prev[tmp1], ![next[tmp1]] = NewNode, ![tmp1] = NULL]
       ELSE UNCHANGED <<data, next, prev>>
  /\ tmp1' = next[tmp1]
  /\ UNCHANGED <<pc, i, locked, flag, callback, victim, freed, out, fault>>

UpdateEnds ==
  /\ pc = "update"
  /\ tmp1 = HEAD
  /\ tmp1' = next[HEAD]
  /\ pc' = "read1"
  /\ UNCHANGED <<i, next, prev, data, locked, flag, callback, victim, freed, out, fault>>

\* The second reader loop; then flag = 0 and mylist_lock is taken.
Read1 ==
  /\ Reader(1, "read1", "delete")
  /\ locked' = (pc' = "delete")

\* To unlock a lock that nobody holds breaks it.
SpinUnlock ==
  /\ locked' = FALSE
  /\ fault' = IF locked THEN fault ELSE "double_unlock"

\* list_del_rcu() leaves the deleted node's next pointer alone.
Delete ==
  /\ pc = "delete"
  /\ tmp1 # HEAD
  /\ IF data[tmp1] = 20
       THEN /\ flag' = 1
            /\ next' = [next EXCEPT ![prev[tmp1]] = next[tmp1]]
            /\ prev' = [prev EXCEPT ![next[tmp1]] = prev[tmp1], ![tmp1] = NULL]
            /\ SpinUnlock
            /\ pc' = "call_rcu"
            /\ UNCHANGED tmp1
       ELSE /\ tmp1' = next[tmp1]
            /\ UNCHANGED <<flag, next, prev, locked, pc, fault>>
  /\ UNCHANGED <<i, data, callback, victim, freed, out>>

CallRcu ==
  /\ pc = "call_rcu"
  /\ callback' = "queued"
  /\ victim' = tmp1
  /\ pc' = "advance"
  /\ UNCHANGED <<i, next, prev, data, tmp1, locked, flag, freed, out, fault>>

\* The loop reads its next entry from the node it has just handed to RCU, and
\* the rcu_read_lock() that would protect it is commented out.
Advance ==
  /\ pc = "advance"
  /\ IF tmp1 \in freed
       THEN fault' = "use_after_free" /\ UNCHANGED <<tmp1, pc>>
       ELSE tmp1' = next[tmp1] /\ pc' = "delete" /\ UNCHANGED fault
  /\ UNCHANGED <<i, next, prev, data, locked, flag, callback, victim, freed, out>>

\* Faulty variant: flag is not looked at.
DeleteEndsUnlocks ==
  /\ pc = "delete"
  /\ tmp1 = HEAD
  /\ SpinUnlock
  /\ tmp1' = next[HEAD]
  /\ pc' = "read2"
  /\ UNCHANGED <<i, next, prev, data, flag, callback, victim, freed, out>>

DeleteEnds ==
  /\ pc = "delete"
  /\ tmp1 = HEAD
  /\ IF flag = 0 THEN SpinUnlock ELSE UNCHANGED <<locked, fault>>
  /\ tmp1' = next[HEAD]
  /\ pc' = "read2"
  /\ UNCHANGED <<i, next, prev, data, flag, callback, victim, freed, out>>

Read2 == Reader(2, "read2", "live") /\ UNCHANGED locked

\* end() neither waits for the callback nor frees the list.
End ==
  /\ pc = "live"
  /\ pc' = "gone"
  /\ UNCHANGED <<i, next, prev, data, tmp1, locked, flag, callback, victim, freed, out, fault>>

-----------------------------------------------------------------------------
(* RCU *)

\* Faulty variant: the callback runs without waiting for a grace period.
QuiescentAlways == TRUE

\* Without kernel preemption start() keeps its CPU from call_rcu() to its return.
Quiescent == preempt \/ pc \in {"live", "gone"}

\* A grace period ends when every CPU has been preemptible once.
GracePeriod ==
  /\ callback = "queued"
  /\ Quiescent
  /\ callback' = "ready"
  /\ UNCHANGED <<pc, i, next, prev, data, tmp1, locked, flag, victim, freed, out, fault>>

\* Faulty variant: the test of t is inverted, so kfree() is never reached.
KfreeInverted == UNCHANGED freed

Kfree == freed' = freed \cup {victim}

DestroyOldStructure ==
  /\ callback = "ready"
  /\ callback' = "done"
  /\ Kfree
  /\ fault' = IF pc = "gone" THEN "text_gone" ELSE fault
  /\ UNCHANGED <<pc, i, next, prev, data, tmp1, locked, flag, victim, out>>

-----------------------------------------------------------------------------
Start == Kmalloc \/ ListAddRcu \/ Read0 \/ Update \/ UpdateEnds \/ Read1
         \/ Delete \/ CallRcu \/ Advance \/ DeleteEnds \/ Read2

Softirq == GracePeriod \/ DestroyOldStructure

Next == fault = "none" /\ (Start \/ End \/ Softirq) /\ UNCHANGED preempt

Spec == Init /\ [][Next]_vars

\* start() runs to its end, and RCU ends every grace period.
FairSpec == Spec /\ WF_vars(Next /\ Start) /\ WF_vars(Next /\ Softirq)

-----------------------------------------------------------------------------
(* Properties *)

\* The nodes on the list from n on, first node first.
Chain == LET walk[m \in 0..element+1] ==
               IF m = 0 THEN <<next[HEAD]>>
               ELSE LET w == walk[m-1]
                    IN  IF w[Len(w)] = HEAD THEN w ELSE Append(w, next[w[Len(w)]])
         IN  walk[element+1]

\* The list stays a circle through the head whose prev pointers mirror its next
\* pointers, through additions, replacement and deletion (code.c:117-224).
ListWellFormed ==
  /\ Chain[Len(Chain)] = HEAD
  /\ \A m \in 1..Len(Chain) : prev[Chain[m]] = IF m = 1 THEN HEAD ELSE Chain[m-1]

\* mylist_lock is held exactly while the delete loop looks for its node; it is
\* released once, by the loop or after it, never twice (code.c:202-227).
LockReleasedOnce == (locked <=> pc = "delete" /\ flag = 0) /\ fault # "double_unlock"

\* The values printed by loop r: as allocated, newest first; then with 1400 in
\* place of 10; then without 20, which is third from the end if it is there.
Expected(r) ==
  LET all == [m \in 1..element |-> 10 * (element - m)]
      new == [m \in 1..element |-> IF all[m] = 10 THEN 1400 ELSE all[m]]
      short == [m \in 1..element-1 |-> IF m < element - 2 THEN new[m] ELSE new[m+1]]
  IN  IF r = 0 THEN all ELSE IF r = 1 \/ element <= 2 THEN new ELSE short

\* Each reader loop prints the list as sample_output:2-17 shows it (code.c:133-142,
\* 187-194, 233-240).
ReadersPrint ==
  \A r \in 0..2 : \/ out[r] = SubSeq(Expected(r), 1, Len(out[r])) /\ pc \notin {"live", "gone"}
                  \/ out[r] = Expected(r)

\* Without kernel preemption no loop touches a freed node (code.c:204-224, 233).
NoUseAfterFree == ~preempt => fault # "use_after_free"

\* The deleted node is freed in the end (code.c:85-98, 220).
DeletedNodeFreed == callback = "queued" ~> (victim \in freed \/ fault # "none")

(* What the repository says and the code does not keep *)

\* code.c:217-218: "Dispose/destroy the node. As it is confirmed that the there
\* is no reader pending".  The deleting loop is itself a reader of the node.
NoReaderPending == callback = "done" => pc # "advance"

=============================================================================
