--------------------------- MODULE TaskWalkProofs ---------------------------
(***************************************************************************)
(* Proof that the walk of task_struct is correct, for any set of           *)
(* processes.  The argument is a rank: processes are forked at the tail of *)
(* the list, so next pointers, stale ones included, lead to higher ranks.  *)
(***************************************************************************)
EXTENDS LoaderProofs

Procs == Task \cup {InitTask}

States == {"unborn", "linked", "exited", "freed"}

Gone == {"exited", "freed"}

WalkType ==
  /\ tasks \in [Procs -> Procs]
  /\ state \in [Task -> States]
  /\ since \in [Task -> States]
  /\ task \in Procs
  /\ seen \in Seq(Task)

\* Process p is on the list, or it left the list after the walk had begun.
During(p) == p = InitTask \/ state[p] = "linked" \/ (state[p] \in Gone /\ since[p] \notin Gone)

\* What the pointers and the states say without the walk.
ListInv ==
  /\ \A t \in Task :
       /\ since[t] = "linked" => state[t] # "unborn"
       /\ since[t] \in Gone => state[t] \in Gone
       /\ state[t] = "unborn" => tasks[t] = InitTask
  /\ \A p \in Procs : tasks[p] = InitTask \/ state[tasks[p]] # "unborn"
  /\ \A p \in Procs : OnList(p) => OnList(tasks[p])
  /\ \A p, q \in Procs : OnList(p) /\ OnList(q) /\ tasks[p] = tasks[q] => p = q
  /\ \A p \in Procs : OnList(p) => \E q \in Procs : OnList(q) /\ tasks[q] = p
  /\ \A p \in Procs : During(p) => During(tasks[p])

\* Process t comes after p and, if p has been left behind, was there from the
\* beginning of the walk.
Follows(r, p, t) ==
  /\ state[t] = "linked"
  /\ r[t] > r[p]
  /\ OnList(p) \/ (During(p) /\ since[t] = "linked")

\* Next pointers lead to higher ranks and jump over no process that counts.
Ranked(r) ==
  /\ r[InitTask] = 0
  /\ \A t \in Task : r[t] > 0
  /\ \A p \in Procs : tasks[p] # InitTask => r[p] < r[tasks[p]]
  /\ \A p \in Procs, t \in Task : Follows(r, p, t) =>
       tasks[p] # InitTask /\ (t = tasks[p] \/ r[t] > r[tasks[p]])

\* What has been printed, in ascending order of ranks.
SeenInv(r) ==
  /\ \A k \in 1 .. Len(seen) : state[seen[k]] # "unborn"
  /\ \A j, k \in 1 .. Len(seen) : j < k => r[seen[j]] < r[seen[k]]
  /\ pc = "current" => seen = <<>>

PrintedTask(t) == \E k \in 1 .. Len(seen) : seen[k] = t

\* What is still to come.
CursorInv(r) ==
  pc = "for_each_process" =>
    /\ During(task)
    /\ task # InitTask =>
         /\ state[task] # "unborn"
         /\ \A k \in 1 .. Len(seen) : r[seen[k]] < r[task]
    /\ \A t \in Task : since[t] = "linked" /\ state[t] = "linked" /\ ~PrintedTask(t) =>
         task # InitTask /\ (t = task \/ r[t] > r[task])
    /\ ~preempt => \A t \in Task : state[t] = "freed" => since[t] \in Gone

\* What the walk leaves when it is over, or has met a freed process.
EndInv ==
  /\ dir = "task_struct" /\ pc = "return" =>
       \A t \in Task : since[t] = "linked" /\ state[t] = "linked" => PrintedTask(t)
  /\ fault = "use_after_free" => preempt

WalkInv ==
  /\ WalkType
  /\ ListInv
  /\ EndInv
  /\ \E r \in [Procs -> Nat] : Ranked(r) /\ SeenInv(r) /\ CursorInv(r)

-----------------------------------------------------------------------------
(* Steps that do not concern the walk *)

\* A step that leaves the list and the walk alone keeps the invariant.
LEMMA WalkUnchanged ==
  ASSUME WalkInv, UNCHANGED taskVars, preempt' = preempt,
         pc' \in {"current", "for_each_process"} => pc' = pc,
         dir' = "task_struct" /\ pc' = "return" => dir' = dir /\ pc' = pc,
         fault' = fault \/ fault' # "use_after_free"
  PROVE  WalkInv'
<1> USE DEF taskVars
<1>1. WalkType' /\ ListInv'
  BY DEF WalkInv, WalkType, ListInv, OnList, During
<1>2. EndInv'
  BY DEF WalkInv, EndInv, PrintedTask
<1>3. PICK r \in [Procs -> Nat] : Ranked(r) /\ SeenInv(r) /\ CursorInv(r)
  BY DEF WalkInv
<1>4. Ranked(r)'
  BY <1>3 DEF Ranked, Follows, OnList, During
<1>5. SeenInv(r)' /\ CursorInv(r)'
  BY <1>3 DEF SeenInv, CursorInv, During, PrintedTask
<1>6. QED
  BY <1>1, <1>2, <1>3, <1>4, <1>5 DEF WalkInv

\* A list that is empty but for its head satisfies the invariant.
LEMMA WalkReset ==
  ASSUME TaskLoad, pc' # "for_each_process",
         ~(dir' = "task_struct" /\ pc' = "return"), fault' # "use_after_free"
  PROVE  WalkInv'
<1> USE TaskAssumption DEF TaskLoad, Alone, Unborn, Procs, States, Gone
<1>1. WalkType'
  BY DEF WalkType
<1>2. ListInv'
  BY DEF ListInv, OnList, During
<1>3. EndInv'
  BY DEF EndInv
<1> DEFINE r == [p \in Procs |-> IF p = InitTask THEN 0 ELSE 1]
<1>4. r \in [Procs -> Nat] /\ Ranked(r)' /\ SeenInv(r)' /\ CursorInv(r)'
  BY DEF Ranked, Follows, SeenInv, CursorInv
<1> HIDE DEF r
<1>5. QED
  BY <1>1, <1>2, <1>3, <1>4 DEF WalkInv

-----------------------------------------------------------------------------
(* Other tasks *)

\* A new process goes to the tail of the list and gets the highest rank there.
LEMMA ForkStep ==
  ASSUME WalkInv, NEW x \in Task, Fork(x), UNCHANGED <<pc, dir, preempt, fault>>
  PROVE  WalkInv'
<1> USE TaskAssumption DEF Procs, States, Gone
<1>1. /\ Elsewhere /\ state[x] = "unborn"
      /\ tasks' = [p \in DOMAIN tasks |->
                     IF OnList(p) /\ tasks[p] = InitTask THEN x ELSE tasks[p]]
      /\ state' = [state EXCEPT ![x] = "linked"]
      /\ UNCHANGED <<since, task, seen>>
  BY DEF Fork
<1>2. WalkType /\ ListInv /\ EndInv
  BY DEF WalkInv
<1>3. WalkType'
  BY <1>1, <1>2 DEF WalkType
<1>4. ListInv'
  <2>1. \A p \in Procs : OnList(p)' <=> OnList(p) \/ p = x
    BY <1>1, <1>2 DEF WalkType, OnList
  <2>2. \A p \in Procs : During(p)' <=> During(p) \/ p = x
    BY <1>1, <1>2 DEF WalkType, During, ListInv
  <2>3. \A p \in Procs : tasks'[p] = IF OnList(p) /\ tasks[p] = InitTask THEN x ELSE tasks[p]
    BY <1>1, <1>2 DEF WalkType
  <2>4. ~OnList(x) /\ tasks[x] = InitTask /\ OnList(InitTask) /\ During(InitTask)
    BY <1>1, <1>2 DEF ListInv, OnList, During
  <2>5. \A t \in Task : /\ (since[t] = "linked" => state[t] # "unborn")'
                        /\ (since[t] \in Gone => state[t] \in Gone)'
                        /\ (state[t] = "unborn" => tasks[t] = InitTask)'
    BY <1>1, <1>2, <2>3 DEF WalkType, ListInv, OnList
  <2>6. \A p \in Procs : (tasks[p] = InitTask \/ state[tasks[p]] # "unborn")'
    BY <1>1, <1>2, <2>3 DEF WalkType, ListInv
  <2>7. \A p \in Procs : (OnList(p) => OnList(tasks[p]))'
    BY <1>2, <1>3, <2>1, <2>3, <2>4 DEF WalkType, ListInv
  <2>8. \A p, q \in Procs : (OnList(p) /\ OnList(q) /\ tasks[p] = tasks[q] => p = q)'
    BY <1>1, <1>2, <2>1, <2>3, <2>4 DEF WalkType, ListInv, OnList
  <2>9. \A p \in Procs : (During(p) => During(tasks[p]))'
    BY <1>2, <1>3, <2>2, <2>3, <2>4 DEF WalkType, ListInv
  <2>10. \A p \in Procs : (OnList(p) => \E q \in Procs : OnList(q) /\ tasks[q] = p)'
    <3> SUFFICES ASSUME NEW p \in Procs, OnList(p)'
                 PROVE  \E q \in Procs : OnList(q)' /\ tasks'[q] = p
      OBVIOUS
    <3>1. CASE p = InitTask
      BY <3>1, <2>1, <2>3, <2>4
    <3>2. CASE p = x
      <4>1. PICK q \in Procs : OnList(q) /\ tasks[q] = InitTask
        BY <1>2, <2>4 DEF ListInv
      <4>2. OnList(q)' /\ tasks'[q] = x
        BY <4>1, <2>1, <2>3
      <4>3. QED
        BY <3>2, <4>2
    <3>3. CASE p # x /\ p # InitTask
      <4>1. PICK q \in Procs : OnList(q) /\ tasks[q] = p
        BY <1>2, <2>1, <3>3 DEF ListInv
      <4>2. OnList(q)' /\ tasks'[q] = p
        BY <3>3, <4>1, <2>1, <2>3
      <4>3. QED
        BY <4>2
    <3>4. QED
      BY <3>1, <3>2, <3>3
  <2>11. QED
    BY <2>5, <2>6, <2>7, <2>8, <2>9, <2>10 DEF ListInv
<1>5. EndInv'
  BY <1>1, <1>2 DEF EndInv, Elsewhere
<1>6. PICK r \in [Procs -> Nat] : Ranked(r) /\ SeenInv(r) /\ CursorInv(r)
  BY DEF WalkInv
<1>7. PICK q \in Procs : OnList(q) /\ tasks[q] = InitTask
  BY <1>2 DEF ListInv, OnList
<1>8. ~OnList(x) /\ q # x
  BY <1>1, <1>7 DEF OnList
<1>9. \A p \in Procs : /\ tasks'[p] = IF p = q THEN x ELSE tasks[p]
                       /\ OnList(p)' <=> OnList(p) \/ p = x
                       /\ During(p)' <=> During(p) \/ p = x
  <2>1. \A p \in Procs : OnList(p) /\ tasks[p] = InitTask <=> p = q
    BY <1>2, <1>7 DEF ListInv
  <2>2. \A p \in Procs : tasks'[p] = IF p = q THEN x ELSE tasks[p]
    BY <1>1, <1>2, <2>1 DEF WalkType
  <2>3. \A p \in Procs : OnList(p)' <=> OnList(p) \/ p = x
    BY <1>1, <1>2 DEF WalkType, OnList
  <2>4. \A p \in Procs : During(p)' <=> During(p) \/ p = x
    BY <1>1, <1>2 DEF WalkType, During, ListInv
  <2>5. QED
    BY <2>2, <2>3, <2>4
<1> DEFINE r1 == [r EXCEPT ![x] = r[q] + 1]
<1>10. /\ r1 \in [Procs -> Nat] /\ r1[x] = r[q] + 1
       /\ \A p \in Procs : p # x => r1[p] = r[p]
  BY <1>6
<1> HIDE DEF r1
<1>11. \A t \in Task : state[t] = "linked" => r[t] <= r[q]
  <2> SUFFICES ASSUME NEW t \in Task, state[t] = "linked", ~(r[t] <= r[q]) PROVE FALSE
    OBVIOUS
  <2>1. r[t] > r[q]
    BY <1>6
  <2>2. Follows(r, q, t)
    BY <2>1, <1>7 DEF Follows
  <2>3. QED
    BY <2>2, <1>6, <1>7 DEF Ranked
<1>12. Ranked(r1)'
  <2>1. r1[InitTask] = 0 /\ \A t \in Task : r1[t] > 0
    BY <1>6, <1>10 DEF Ranked
  <2>2. \A p \in Procs : tasks'[p] # InitTask => r1[p] < r1[tasks'[p]]
    <3> SUFFICES ASSUME NEW p \in Procs, tasks'[p] # InitTask PROVE r1[p] < r1[tasks'[p]]
      OBVIOUS
    <3>1. CASE p = q
      BY <3>1, <1>6, <1>8, <1>9, <1>10
    <3>2. CASE p # q
      <4>1. tasks'[p] = tasks[p] /\ tasks[p] # x /\ p # x
        BY Zenon, <3>2, <1>1, <1>2, <1>9 DEF ListInv
      <4>2. QED
        BY <4>1, <1>2, <1>6, <1>10 DEF Ranked, WalkType
    <3>3. QED
      BY <3>1, <3>2
  <2>3. ASSUME NEW p \in Procs, NEW t \in Task, Follows(r1, p, t)'
        PROVE  tasks'[p] # InitTask /\ (t = tasks'[p] \/ r1[t] > r1[tasks'[p]])
    <3>1. /\ t = x \/ state[t] = "linked"
          /\ r1[t] > r1[p]
          /\ OnList(p) \/ p = x \/ (During(p) /\ since[t] = "linked")
      BY Zenon, <2>3, <1>1, <1>2, <1>9 DEF Follows, WalkType
    <3>2. since[t] = "linked" => t # x
      BY <1>1, <1>2 DEF ListInv
    <3>3. CASE p = x
      BY <3>1, <3>3, <1>6, <1>10, <1>11
    <3>4. CASE p # x /\ t = x
      <4>1. OnList(p)
        BY <3>1, <3>2, <3>4
      <4>2. CASE p = q
        BY <4>2, <3>4, <1>9
      <4>3. CASE p # q
        <5>1. tasks'[p] = tasks[p] /\ tasks[p] \in Task /\ state[tasks[p]] = "linked"
          <6>1. tasks'[p] = tasks[p] /\ tasks[p] \in Procs
            BY Zenon, <4>3, <1>2, <1>9 DEF WalkType
          <6>2. OnList(tasks[p]) /\ tasks[p] # InitTask
            BY <4>1, <4>3, <1>2, <1>7 DEF ListInv
          <6>3. QED
            BY <6>1, <6>2 DEF OnList
        <5>2. QED
          BY <5>1, <3>4, <1>1, <1>6, <1>10, <1>11
      <4>4. QED
        BY <4>2, <4>3
    <3>5. CASE p # x /\ t # x
      <4>1. Follows(r, p, t)
        BY Zenon, <3>1, <3>5, <1>10 DEF Follows
      <4>2. tasks[p] # InitTask /\ (t = tasks[p] \/ r[t] > r[tasks[p]])
        BY Zenon, <4>1, <1>6 DEF Ranked
      <4>3. p # q /\ tasks[p] # x
        BY Zenon, <4>2, <1>1, <1>2, <1>7 DEF ListInv
      <4>4. QED
        BY <3>5, <4>2, <4>3, <1>2, <1>9, <1>10 DEF WalkType
    <3>6. QED
      BY <3>3, <3>4, <3>5
  <2>4. QED
    BY <2>1, <2>2, <2>3 DEF Ranked
<1>13. \A k \in 1 .. Len(seen) : seen[k] # x /\ seen[k] \in Task /\ r1[seen[k]] = r[seen[k]]
  <2>1. \A k \in 1 .. Len(seen) : seen[k] \in Task
    BY <1>2 DEF WalkType
  <2>2. \A k \in 1 .. Len(seen) : seen[k] # x
    BY <1>1, <1>6 DEF SeenInv
  <2>3. QED
    BY <2>1, <2>2, <1>10
<1>14. SeenInv(r1)'
  BY <1>1, <1>2, <1>6, <1>13 DEF SeenInv, WalkType
<1>15. CursorInv(r1)'
  <2> SUFFICES ASSUME pc = "for_each_process" PROVE CursorInv(r1)'
    BY Zenon DEF CursorInv
  <2>1. task # x /\ task \in Procs
    BY <1>1, <1>2, <1>6 DEF CursorInv, WalkType
  <2>2. During(task)'
    BY Zenon, <1>1, <1>6, <1>9, <2>1 DEF CursorInv
  <2>3. task # InitTask => /\ state'[task] # "unborn"
                           /\ \A k \in 1 .. Len(seen) : r1[seen[k]] < r1[task]
    BY <1>1, <1>2, <1>6, <1>10, <1>13, <2>1 DEF CursorInv, WalkType
  <2>4. ASSUME NEW t \in Task, since[t] = "linked", state'[t] = "linked", ~PrintedTask(t)
        PROVE  task # InitTask /\ (t = task \/ r1[t] > r1[task])
    <3>1. t # x /\ state[t] = "linked"
      BY <2>4, <1>1, <1>2 DEF ListInv, WalkType
    <3>2. QED
      BY Zenon, <3>1, <2>1, <2>4, <1>6, <1>10 DEF CursorInv
  <2>5. ~preempt => \A t \in Task : state'[t] = "freed" => since[t] \in Gone
    BY <1>1, <1>2, <1>6 DEF CursorInv, WalkType
  <2>6. QED
    BY Zenon, <1>1, <2>2, <2>3, <2>4, <2>5 DEF CursorInv, PrintedTask
<1>16. QED
  BY <1>3, <1>4, <1>5, <1>10, <1>12, <1>14, <1>15 DEF WalkInv

\* A process that exits leaves the list; those that point to it still do, or
\* point to its successor, which has a higher rank.
LEMMA ExitStep ==
  ASSUME WalkInv, NEW x \in Task, Exit(x), UNCHANGED <<pc, dir, preempt, fault>>
  PROVE  WalkInv'
<1> USE TaskAssumption DEF Procs, States, Gone
<1>1. /\ Elsewhere /\ state[x] = "linked"
      /\ tasks' = [p \in DOMAIN tasks |-> IF OnList(p) /\ tasks[p] = x THEN tasks[x] ELSE tasks[p]]
      /\ state' = [state EXCEPT ![x] = "exited"]
      /\ UNCHANGED <<since, task, seen>>
  BY DEF Exit
<1>2. WalkType /\ ListInv /\ EndInv
  BY DEF WalkInv
<1>3. WalkType'
  BY <1>1, <1>2 DEF WalkType
<1>4. PICK r \in [Procs -> Nat] : Ranked(r) /\ SeenInv(r) /\ CursorInv(r)
  BY DEF WalkInv
<1>5. OnList(x) /\ x # InitTask /\ tasks[x] # x /\ tasks[x] \in Procs
  BY <1>1, <1>2, <1>4 DEF OnList, Ranked, WalkType
<1>6. \A p \in Procs :
        /\ tasks'[p] = IF OnList(p) /\ tasks[p] = x THEN tasks[x] ELSE tasks[p]
        /\ tasks'[p] \in Procs
  BY <1>1, <1>2, <1>3 DEF WalkType
<1>7. \A p \in Procs : OnList(p)' <=> OnList(p) /\ p # x
  BY <1>1, <1>2 DEF WalkType, OnList
<1>8. \A p \in Procs : During(p)' <=> During(p)
  BY <1>1, <1>2 DEF WalkType, During, ListInv
<1>9. ListInv'
  <2>1. \A t \in Task : /\ (since[t] = "linked" => state[t] # "unborn")'
                        /\ (since[t] \in Gone => state[t] \in Gone)'
                        /\ (state[t] = "unborn" => tasks[t] = InitTask)'
    BY <1>1, <1>2, <1>6 DEF WalkType, ListInv, OnList
  <2>2. \A p \in Procs : (tasks[p] = InitTask \/ state[tasks[p]] # "unborn")'
    BY <1>1, <1>2, <1>6 DEF WalkType, ListInv
  <2>3. \A p \in Procs : (OnList(p) => OnList(tasks[p]))'
    BY <1>2, <1>5, <1>6, <1>7 DEF ListInv
  <2>4. \A p, q \in Procs : (OnList(p) /\ OnList(q) /\ tasks[p] = tasks[q] => p = q)'
    <3> SUFFICES ASSUME NEW p \in Procs, NEW q \in Procs,
                        OnList(p)', OnList(q)', tasks'[p] = tasks'[q]
                 PROVE  p = q
      OBVIOUS
    <3>1. OnList(p) /\ OnList(q) /\ p # x /\ q # x
      BY <1>7
    <3>2. /\ tasks'[p] = IF tasks[p] = x THEN tasks[x] ELSE tasks[p]
          /\ tasks'[q] = IF tasks[q] = x THEN tasks[x] ELSE tasks[q]
      BY <3>1, <1>6
    <3>3. \A y, z \in Procs : OnList(y) /\ OnList(z) /\ tasks[y] = tasks[z] => y = z
      BY Zenon, <1>2 DEF ListInv
    <3>4. QED
      BY Zenon, <3>1, <3>2, <3>3, <1>5
  <2>5. \A p \in Procs : (During(p) => During(tasks[p]))'
    <3> SUFFICES ASSUME NEW p \in Procs, During(p)' PROVE During(tasks'[p])
      BY <1>6, <1>8, SMTT(20) DEF During
    <3>1. During(p) /\ During(x)
      BY Zenon, <1>5, <1>8 DEF OnList, During
    <3>2. During(tasks[p]) /\ During(tasks[x])
      BY <3>1, <1>2 DEF ListInv
    <3>3. QED
      BY Zenon, <3>2, <1>6
  <2>6. ASSUME NEW p \in Procs, OnList(p)'
        PROVE  \E q \in Procs : OnList(q)' /\ tasks'[q] = p
    <3>1. PICK q \in Procs : OnList(q) /\ tasks[q] = p
      BY <1>2, <1>7, <2>6 DEF ListInv
    <3>2. CASE q # x
      BY <3>1, <3>2, <2>6, <1>6, <1>7
    <3>3. CASE q = x
      <4>1. PICK y \in Procs : OnList(y) /\ tasks[y] = x
        BY <1>2, <1>5 DEF ListInv
      <4>2. OnList(y)' /\ tasks'[y] = p
        BY <4>1, <3>1, <3>3, <1>5, <1>6, <1>7
      <4>3. QED
        BY <4>2
    <3>4. QED
      BY <3>2, <3>3
  <2>7. QED
    BY <2>1, <2>2, <2>3, <2>4, <2>5, <2>6 DEF ListInv
<1>10. EndInv'
  BY Zenon, <1>1, <1>2 DEF EndInv, Elsewhere
<1>11. Ranked(r)'
  <2>1. \A p \in Procs : tasks'[p] # InitTask => r[p] < r[tasks'[p]]
    <3> SUFFICES ASSUME NEW p \in Procs, tasks'[p] # InitTask PROVE r[p] < r[tasks'[p]]
      OBVIOUS
    <3>1. CASE OnList(p) /\ tasks[p] = x
      <4>1. tasks'[p] = tasks[x] /\ r[p] < r[x] /\ r[x] < r[tasks[x]]
        BY Zenon, <3>1, <1>4, <1>5, <1>6 DEF Ranked
      <4>2. QED
        BY <4>1, <1>4, <1>5
    <3>2. CASE ~(OnList(p) /\ tasks[p] = x)
      BY Zenon, <3>2, <1>4, <1>6 DEF Ranked
    <3>3. QED
      BY <3>1, <3>2
  <2>2. ASSUME NEW p \in Procs, NEW t \in Task, Follows(r, p, t)'
        PROVE  tasks'[p] # InitTask /\ (t = tasks'[p] \/ r[t] > r[tasks'[p]])
    <3>1. t # x /\ Follows(r, p, t)
      BY <2>2, <1>1, <1>2, <1>7, <1>8 DEF Follows, WalkType
    <3>2. tasks[p] # InitTask /\ (t = tasks[p] \/ r[t] > r[tasks[p]])
      BY <3>1, <1>4 DEF Ranked
    <3>3. CASE OnList(p) /\ tasks[p] = x
      <4>1. Follows(r, x, t)
        BY <3>1, <3>2, <3>3, <1>5 DEF Follows
      <4>2. tasks[x] # InitTask /\ (t = tasks[x] \/ r[t] > r[tasks[x]])
        BY <4>1, <1>4 DEF Ranked
      <4>3. QED
        BY <3>3, <4>2, <1>6
    <3>4. CASE ~(OnList(p) /\ tasks[p] = x)
      BY <3>2, <3>4, <1>6
    <3>5. QED
      BY <3>3, <3>4
  <2>3. QED
    BY Zenon, <2>1, <2>2, <1>4 DEF Ranked
<1>12. SeenInv(r)'
  BY <1>1, <1>2, <1>4 DEF SeenInv, WalkType
<1>13. CursorInv(r)'
  BY <1>1, <1>2, <1>4, <1>8 DEF CursorInv, WalkType, PrintedTask
<1>14. QED
  BY <1>3, <1>4, <1>9, <1>10, <1>11, <1>12, <1>13 DEF WalkInv

\* The memory of an exited process is given back: on a kernel without
\* preemption not while the walk could still come across it.
LEMMA FreeTaskStep ==
  ASSUME WalkInv, NEW x \in Task, GracePeriod(x), UNCHANGED <<pc, dir, preempt, fault>>
  PROVE  WalkInv'
<1> USE TaskAssumption DEF Procs, States, Gone
<1>1. /\ pc = "current" \/ (pc = "for_each_process" /\ (preempt \/ since[x] = "exited"))
      /\ state[x] = "exited"
      /\ state' = [state EXCEPT ![x] = "freed"]
      /\ UNCHANGED <<tasks, since, task, seen>>
  BY DEF GracePeriod
<1>2. WalkType /\ ListInv /\ EndInv
  BY DEF WalkInv
<1>3. WalkType'
  BY <1>1, <1>2 DEF WalkType
<1>4. \A p \in Procs : (OnList(p)' <=> OnList(p)) /\ (During(p)' <=> During(p))
  BY <1>1, <1>2 DEF WalkType, OnList, During
<1>5. ListInv'
  <2>1. \A p \in Procs : tasks[p] \in Procs
    BY <1>2 DEF WalkType
  <2>2. \A t \in Task : /\ (since[t] = "linked" => state[t] # "unborn")'
                        /\ (since[t] \in Gone => state[t] \in Gone)'
                        /\ (state[t] = "unborn" => tasks[t] = InitTask)'
    BY <1>1, <1>2 DEF WalkType, ListInv
  <2>3. \A p \in Procs : (tasks[p] = InitTask \/ state[tasks[p]] # "unborn")'
    BY <1>1, <1>2, <2>1 DEF WalkType, ListInv
  <2>4. QED
    BY Zenon, <1>1, <1>2, <1>4, <2>1, <2>2, <2>3 DEF ListInv
<1>6. EndInv'
  BY <1>1, <1>2 DEF EndInv
<1>7. PICK r \in [Procs -> Nat] : Ranked(r) /\ SeenInv(r) /\ CursorInv(r)
  BY DEF WalkInv
<1>8. Ranked(r)'
  BY <1>1, <1>2, <1>4, <1>7 DEF Ranked, Follows, WalkType
<1>9. SeenInv(r)'
  BY <1>1, <1>2, <1>7 DEF SeenInv, WalkType
<1>10. CursorInv(r)'
  BY <1>1, <1>2, <1>4, <1>7 DEF CursorInv, WalkType, PrintedTask
<1>11. QED
  BY <1>3, <1>5, <1>6, <1>7, <1>8, <1>9, <1>10 DEF WalkInv

-----------------------------------------------------------------------------
(* The walk *)

\* At its beginning no process has left the list since.
LEMMA BeginStep ==
  ASSUME WalkInv, WalkBegin, preempt' = preempt
  PROVE  WalkInv'
<1> USE TaskAssumption DEF Procs, States, Gone
<1>1. /\ pc = "current" /\ pc' = "for_each_process" /\ task' = tasks[InitTask] /\ since' = state
      /\ UNCHANGED <<tasks, state, seen, fault>>
  BY DEF WalkBegin, Goto
<1>2. WalkType /\ ListInv /\ EndInv
  BY DEF WalkInv
<1>3. WalkType'
  BY <1>1, <1>2 DEF WalkType
<1>4. PICK r \in [Procs -> Nat] : Ranked(r) /\ SeenInv(r) /\ CursorInv(r)
  BY DEF WalkInv
<1>5. \A p \in Procs : (OnList(p)' <=> OnList(p)) /\ (During(p)' <=> OnList(p))
  BY <1>1, <1>2 DEF WalkType, OnList, During
<1>6. ListInv'
  <2>1. \A p \in Procs : tasks[p] \in Procs
    BY <1>2 DEF WalkType
  <2>2. QED
    BY Zenon, <1>1, <1>2, <1>5, <2>1 DEF ListInv
<1>7. EndInv'
  BY Zenon, <1>1, <1>2 DEF EndInv
<1>8. Ranked(r)'
  BY Zenon, <1>1, <1>2, <1>4, <1>5 DEF Ranked, Follows
<1>9. SeenInv(r)'
  BY <1>1, <1>4 DEF SeenInv
<1>10. CursorInv(r)'
  <2>1. seen' = <<>> /\ InitTask \in Procs /\ tasks[InitTask] \in Procs /\ OnList(InitTask)
    BY <1>1, <1>2, <1>4 DEF SeenInv, WalkType, OnList
  <2>2. OnList(tasks[InitTask])
    BY Zenon, <1>2, <2>1 DEF ListInv
  <2>3. tasks[InitTask] # InitTask => state[tasks[InitTask]] # "unborn"
    BY <1>2, <2>1 DEF ListInv
  <2>4. \A t \in Task : state[t] = "linked" =>
          tasks[InitTask] # InitTask /\ (t = tasks[InitTask] \/ r[t] > r[tasks[InitTask]])
    BY <1>4, <2>1 DEF Ranked, Follows
  <2>5. During(task)'
    BY <1>1, <2>2 DEF OnList, During
  <2>6. QED
    BY <1>1, <2>1, <2>3, <2>4, <2>5 DEF CursorInv
<1>11. QED
  BY <1>3, <1>4, <1>6, <1>7, <1>8, <1>9, <1>10 DEF WalkInv

\* One turn of the loop: the process printed has the highest rank so far, and
\* the next one jumps over none that must be printed.
LEMMA TurnStep ==
  ASSUME WalkInv, WalkStep, preempt' = preempt, fault = "none"
  PROVE  WalkInv'
<1> USE TaskAssumption DEF Procs, States, Gone
<1>1. /\ pc = "for_each_process" /\ pc' = "for_each_process" /\ task # InitTask
      /\ fault' = IF state[task] = "freed" THEN "use_after_free" ELSE fault
      /\ seen' = Append(seen, task) /\ task' = tasks[task]
      /\ UNCHANGED <<tasks, state, since>>
  BY DEF WalkStep, NextTask, Goto
<1>2. WalkType /\ ListInv /\ EndInv
  BY DEF WalkInv
<1>3. task \in Task /\ tasks[task] \in Procs
  BY <1>1, <1>2 DEF WalkType
<1>4. WalkType'
  BY <1>1, <1>2, <1>3 DEF WalkType
<1>5. PICK r \in [Procs -> Nat] : Ranked(r) /\ SeenInv(r) /\ CursorInv(r)
  BY DEF WalkInv
<1>6. /\ Len(seen) \in Nat /\ Len(seen') = Len(seen) + 1 /\ seen'[Len(seen) + 1] = task
      /\ \A k \in 1 .. Len(seen) : seen'[k] = seen[k] /\ seen[k] \in Task
  BY <1>1, <1>2, <1>3 DEF WalkType
<1>len. Len(seen) \in Nat /\ Len(seen') = Len(seen) + 1
  BY <1>6
<1>dom. /\ \A k \in 1 .. Len(seen') : k \in 1 .. Len(seen) \/ k = Len(seen) + 1
        /\ \A k \in 1 .. Len(seen) : k \in 1 .. Len(seen')
        /\ Len(seen) + 1 \in 1 .. Len(seen')
  BY <1>len
<1>7. /\ During(task) /\ state[task] # "unborn"
      /\ \A k \in 1 .. Len(seen) : r[seen[k]] < r[task]
      /\ \A t \in Task : since[t] = "linked" /\ state[t] = "linked" /\ ~PrintedTask(t) =>
           t = task \/ r[t] > r[task]
      /\ ~preempt => \A t \in Task : state[t] = "freed" => since[t] \in Gone
  BY <1>1, <1>5 DEF CursorInv
<1>8. ListInv' /\ Ranked(r)'
  <2>1. \A p \in Procs : (OnList(p)' <=> OnList(p)) /\ (During(p)' <=> During(p))
    BY <1>1 DEF OnList, During
  <2>2. ListInv'
    BY Zenon, <1>1, <1>2 DEF ListInv, OnList, During
  <2>3. Ranked(r)'
    BY Zenon, <1>1, <1>5, <2>1 DEF Ranked, Follows
  <2>4. QED
    BY <2>2, <2>3
<1>9. EndInv'
  <2>1. CASE state[task] = "freed"
    <3>1. since[task] \notin Gone
      BY <2>1, <1>1, <1>7 DEF During
    <3>2. preempt
      BY <2>1, <1>3, <1>7, <3>1
    <3>3. QED
      BY <1>1, <3>2 DEF EndInv
  <2>2. CASE state[task] # "freed"
    BY <2>2, <1>1 DEF EndInv
  <2>3. QED
    BY <2>1, <2>2
<1>10. SeenInv(r)'
  <2>1. \A k \in 1 .. Len(seen') : state[seen'[k]] # "unborn"
    BY <1>5, <1>6, <1>dom, <1>7 DEF SeenInv
  <2>2. \A j, k \in 1 .. Len(seen') : j < k => r[seen'[j]] < r[seen'[k]]
    BY <1>5, <1>6, <1>7 DEF SeenInv
  <2>3. QED
    BY <1>1, <2>1, <2>2 DEF SeenInv
<1>11. CursorInv(r)'
  <2>1. During(tasks[task])
    BY <1>2, <1>3, <1>7 DEF ListInv
  <2>2. During(task)'
    BY <1>1, <2>1 DEF During
  <2>3. tasks[task] # InitTask =>
          /\ state[tasks[task]] # "unborn"
          /\ r[task] < r[tasks[task]]
    BY <1>2, <1>3, <1>5 DEF ListInv, Ranked
  <2>4. tasks[task] # InitTask => \A k \in 1 .. Len(seen') : r[seen'[k]] < r[tasks[task]]
    <3> SUFFICES ASSUME tasks[task] # InitTask, NEW k \in 1 .. Len(seen')
                 PROVE  r[seen'[k]] < r[tasks[task]]
      OBVIOUS
    <3>1. r[task] \in Nat /\ r[tasks[task]] \in Nat /\ r[task] < r[tasks[task]]
      BY <1>3, <1>5, <2>3
    <3>2. CASE k = Len(seen) + 1
      BY <3>1, <3>2, <1>6
    <3>3. CASE k \in 1 .. Len(seen)
      <4>1. seen'[k] = seen[k] /\ r[seen[k]] < r[task] /\ r[seen[k]] \in Nat
        BY <3>3, <1>5, <1>6, <1>7
      <4>2. QED
        BY <3>1, <4>1
    <3>4. QED
      BY <1>dom, <3>2, <3>3
  <2>5. ASSUME NEW t \in Task, since[t] = "linked", state[t] = "linked", ~PrintedTask(t)'
        PROVE  tasks[task] # InitTask /\ (t = tasks[task] \/ r[t] > r[tasks[task]])
    <3>1. ~PrintedTask(t) /\ t # task
      BY Zenon, <2>5, <1>6, <1>dom DEF PrintedTask
    <3>2. r[t] > r[task]
      BY <2>5, <3>1, <1>7
    <3>3. Follows(r, task, t)
      BY <2>5, <3>2, <1>7 DEF Follows
    <3>4. QED
      BY <3>3, <1>3, <1>5 DEF Ranked
  <2>6. ~preempt' => \A t \in Task : state'[t] = "freed" => since'[t] \in Gone
    BY <1>1, <1>7
  <2>7. QED
    BY Zenon, <1>1, <2>2, <2>3, <2>4, <2>5, <2>6 DEF CursorInv
<1>12. QED
  BY <1>4, <1>5, <1>8, <1>9, <1>10, <1>11 DEF WalkInv

\* Back at the head of the list nothing is left to print.
LEMMA EndStep ==
  ASSUME WalkInv, WalkEnd, preempt' = preempt
  PROVE  WalkInv'
<1>1. pc = "for_each_process" /\ pc' = "return" /\ task = InitTask /\ UNCHANGED <<taskVars, fault>>
  BY DEF WalkEnd, Goto
<1> USE DEF taskVars
<1>2. WalkType' /\ ListInv'
  BY <1>1 DEF WalkInv, WalkType, ListInv, OnList, During
<1>3. PICK r \in [Procs -> Nat] : Ranked(r) /\ SeenInv(r) /\ CursorInv(r)
  BY DEF WalkInv
<1>4. EndInv'
  BY Zenon, <1>1, <1>3 DEF WalkInv, EndInv, CursorInv, PrintedTask
<1>5. Ranked(r)'
  BY Zenon, <1>1, <1>3 DEF Ranked, Follows, OnList, During
<1>6. SeenInv(r)' /\ CursorInv(r)'
  BY <1>1, <1>3 DEF SeenInv, CursorInv
<1>7. QED
  BY <1>2, <1>3, <1>4, <1>5, <1>6 DEF WalkInv

-----------------------------------------------------------------------------
(* The theorem *)

\* The statements of the other directories.
LEMMA OtherStatement ==
  ASSUME Statement, ~Walk
  PROVE  /\ UNCHANGED taskVars /\ dir' # "task_struct"
         /\ pc' \notin {"current", "for_each_process"}
         /\ fault' = fault \/ fault' = "bad_free"
<1>1. UNCHANGED taskVars /\ dir' # "task_struct"
  BY StatementDir, StatementKeepsDir DEF Statement
<1>2. Spinlock \/ Mutex1 => pc' \notin {"current", "for_each_process"}
  BY DEF Spinlock, Goto, SpinLockInit, SpinLock, SpinTake, SpinDrop, SpinIsLocked, SpinTrylock,
     SpinUnlock, SpinLockIrqsave, SpinUnlockIrqrestore, SpinLockIrq, SpinUnlockIrq, SpinLockBh,
     SpinUnlockBh, Mutex1, MutexInit, MutexLock, MutexIsLocked, MutexTrylock, MutexLockSignal,
     MutexUnlock
<1>3. Memory1 \/ Memory2 => /\ pc' \notin {"current", "for_each_process"}
                            /\ fault' = fault \/ fault' = "bad_free"
  BY DEF Memory1, MemPage, MemPages, MemAddress, Memory2, MemZeroed, MemObject, MemVirtual,
     MemHigh, Kmap, Alloc, Free, Goto
<1>4. LinkList \/ RadixTree => pc' \notin {"current", "for_each_process"}
  BY Zenon DEF LinkList, ListAlloc, ListAdd, PrintList, ListAddTail, ListDel, ListFree,
     RadixTree, RadixInsert, RadixLookup, RadixDelete, Goto
<1>5. Registration => pc' \notin {"current", "for_each_process"}
  BY DEF Registration, RequestIrq, FreeIrq, WaitIrq, KallsymsLookupName, RegisterKprobe,
     UnregisterKprobe, WaitHits, Goto
<1>6. QED
  BY <1>1, <1>2, <1>3, <1>4, <1>5 DEF Statement

\* Every step keeps the invariant of the walk.
LEMMA WalkInvStep == ASSUME WalkInv, [Next]_vars PROVE WalkInv'
<1>1. CASE Next /\ Load
  <2>1. \A d \in Dirs : Entry[d] \notin {"for_each_process", "return"}
    BY DirsKnown DEF Entry
  <2>2. TaskLoad /\ pc' \notin {"for_each_process", "return"} /\ fault' = "none"
    BY <1>1, <2>1 DEF Next, Load, Insmod, kernelVars
  <2>3. QED
    BY <2>2, WalkReset
<1>2. CASE Next /\ LoaderStep
  <2>1. TaskLoad /\ pc' \notin {"for_each_process", "return"} /\ fault' = "none"
    BY <1>2 DEF Next, LoaderStep, DoOneInitcall, FreeModule, kernelVars
  <2>2. QED
    BY <2>1, WalkReset
<1>3. CASE Unload
  BY <1>3, WalkUnchanged DEF Unload, Rmmod, ExitEntry, kernelVars
<1>4. CASE Statement /\ ~Walk /\ preempt' = preempt
  BY <1>4, OtherStatement, WalkUnchanged
<1>5. CASE Next /\ Walk /\ preempt' = preempt
  BY <1>5, BeginStep, TurnStep, EndStep DEF Walk, Next
<1>6. CASE Synchronize
  BY <1>6, WalkUnchanged DEF Synchronize, SynchronizeIrq, Goto, kernelVars
<1>7. CASE Away \/ Back
  BY <1>7, WalkUnchanged DEF Away, Back, Switch, Irq, Resume
<1>8. CASE Call \/ CallEnds
  BY <1>8, WalkUnchanged DEF Call, CallEnds, kernelVars
<1>9. CASE Others
  BY <1>9, ForkStep, ExitStep, FreeTaskStep DEF Others, kernelVars
<1>10. CASE UNCHANGED vars
  BY <1>10, WalkUnchanged DEF vars, kernelVars
<1>11. QED
  BY <1>1, <1>2, <1>3, <1>4, <1>5, <1>6, <1>7, <1>8, <1>9, <1>10 DEF Next, Self

\* The walk prints no process twice, misses none that was there all the time,
\* and meets freed memory only with preemption, for any set of processes.
THEOREM WalkSafe == Spec => []WalkCorrect
<1>1. Init => WalkInv
  <2> SUFFICES ASSUME Init PROVE WalkInv
    OBVIOUS
  <2> USE TaskAssumption DEF Init, CodeKoInit, TaskInit, Alone, Unborn, Procs, States, Gone
  <2>1. WalkType
    BY DEF WalkType
  <2>2. ListInv
    BY DEF ListInv, OnList, During
  <2>3. EndInv
    BY DEF EndInv
  <2> DEFINE r == [p \in Procs |-> IF p = InitTask THEN 0 ELSE 1]
  <2>4. r \in [Procs -> Nat] /\ Ranked(r) /\ SeenInv(r) /\ CursorInv(r)
    <3>1. r \in [Procs -> Nat]
      OBVIOUS
    <3>2. Ranked(r)
      BY DEF Ranked, Follows
    <3>3. SeenInv(r) /\ CursorInv(r)
      BY DEF SeenInv, CursorInv
    <3>4. QED
      BY <3>1, <3>2, <3>3
  <2> HIDE DEF r
  <2>5. QED
    BY <2>1, <2>2, <2>3, <2>4 DEF WalkInv
<1>2. WalkInv => WalkCorrect
  <2> SUFFICES ASSUME WalkInv PROVE WalkCorrect
    OBVIOUS
  <2>1. PICK r \in [Procs -> Nat] : SeenInv(r)
    BY DEF WalkInv
  <2>2. seen \in Seq(Task) /\ DOMAIN seen = 1 .. Len(seen) /\ Len(seen) \in Nat
    BY DEF WalkInv, WalkType
  <2>3. \A k \in 1 .. Len(seen) : seen[k] \in Procs /\ r[seen[k]] \in Nat
    BY <2>1, <2>2 DEF Procs
  <2>4. \A j, k \in 1 .. Len(seen) : seen[j] = seen[k] => j = k
    <3> SUFFICES ASSUME NEW j \in 1 .. Len(seen), NEW k \in 1 .. Len(seen), seen[j] = seen[k], j # k
                 PROVE  FALSE
      OBVIOUS
    <3>1. j < k \/ k < j
      BY <2>2
    <3>2. r[seen[j]] < r[seen[k]] \/ r[seen[k]] < r[seen[j]]
      BY <3>1, <2>1 DEF SeenInv
    <3>3. QED
      BY <3>2, <2>3
  <2>5. IsInjective(seen)
    BY <2>2, <2>4 DEF IsInjective
  <2>6. \A t : PrintedTask(t) => t \in Range(seen)
    BY <2>2 DEF PrintedTask, Range
  <2>7. QED
    BY Zenon, <2>5, <2>6 DEF WalkInv, EndInv, WalkCorrect
<1>3. QED
  BY <1>1, <1>2, WalkInvStep, PTL DEF Spec

=============================================================================
