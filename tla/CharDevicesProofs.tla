------------------------- MODULE CharDevicesProofs -------------------------
(* Proofs about CharDevices, for any number of processes. *)
EXTENDS CharDevices, TLAPS

\* The types, as far as the buffer of the mmap driver depends on them; a process
\* that has not opened its file has mapped nothing.
StateOK ==
  /\ mod \in [Driver -> {"out", "registered", "live", "exiting"}]
  /\ file \in [Proc -> Driver \cup {"none", "stale"}]
  /\ mapped \in [Proc -> {"no", "live", "stale"}]
  /\ pc \in [Proc -> {"open", "call", "use", "close", "exit", "done"}]
  /\ major \in Driver \cup {"none", "stale"}
  /\ \A p \in Proc : pc[p] = "open" => mapped[p] = "no"

\* Files and the major number lead to the mmap driver only while it is there.
RegisteredInv ==
  mod["mmap"] = "out" => major # "mmap" /\ \A p \in Proc : file[p] # "mmap"

\* BufferLiveUntilRelease is not inductive: a file can be opened before there is
\* a buffer, but it cannot be mapped then.
LoadingInv ==
  mod["mmap"] = "registered" =>
    buffer = "null" /\ \A p \in Proc : file[p] = "mmap" => mapped[p] = "no"

IInv == StateOK /\ RegisteredInv /\ LoadingInv /\ BufferLiveUntilRelease

\* A bad access changes nothing else.
LEMMA FaultStep ==
  ASSUME IInv, NEW f, Fault(f)
  PROVE  IInv'
BY DEF IInv, StateOK, RegisteredInv, LoadingInv, BufferLiveUntilRelease, Fault, kernVars, procVars

\* Loading and unloading either driver preserves the invariant.
LEMMA LoadStep ==
  ASSUME IInv, Load
  PROVE  IInv'
<1> USE DEF IInv, StateOK, RegisteredInv, LoadingInv, BufferLiveUntilRelease, Driver, procVars
<1>1. CASE MmapInit
  <2>1. /\ mod["mmap"] = "out" /\ mod' = [mod EXCEPT !["mmap"] = "registered"]
        /\ major' = "mmap" /\ buffer' = "null" /\ UNCHANGED <<pc, file, mapped>>
    BY <1>1 DEF MmapInit
  <2>2. mod'["mmap"] = "registered"
    BY <2>1
  <2> QED
    BY <2>1, <2>2
<1>2. CASE MmapInitKmalloc
  <2>1. CASE buffer' = "live" /\ mod' = [mod EXCEPT !["mmap"] = "live"] /\ UNCHANGED <<major, file>>
    <3>1. mod'["mmap"] = "live" /\ UNCHANGED <<pc, mapped>> /\ mod["mmap"] = "registered"
      BY <1>2, <2>1 DEF MmapInitKmalloc
    <3> QED
      BY <2>1, <3>1
  <2>2. CASE mod' = [mod EXCEPT !["mmap"] = "out"] /\ major' = "stale" /\ file' = Orphaned("mmap")
    <3>1. mod'["mmap"] = "out" /\ UNCHANGED <<pc, mapped>>
      BY <1>2, <2>2 DEF MmapInitKmalloc
    <3>2. file' \in [Proc -> Driver \cup {"none", "stale"}] /\ \A p \in Proc : file'[p] # "mmap"
      BY <2>2 DEF Orphaned
    <3> QED
      BY <2>2, <3>1, <3>2
  <2> QED
    BY <1>2, <2>1, <2>2 DEF MmapInitKmalloc
<1>3. CASE MmapExit
  <2>1. /\ mod["mmap"] = "live" /\ mod' = [mod EXCEPT !["mmap"] = "exiting"]
        /\ mapped' = Unbacked /\ UNCHANGED <<major, pc, file>>
    BY <1>3 DEF MmapExit
  <2>2. mod'["mmap"] = "exiting"
    BY <2>1
  <2>3. /\ mapped' \in [Proc -> {"no", "live", "stale"}]
        /\ \A p \in Proc : pc'[p] = "open" => mapped'[p] = "no"
    BY <2>1 DEF Unbacked
  <2> QED
    BY <2>1, <2>2, <2>3
<1>4. CASE MmapExitUnregister
  <2>1. /\ mod' = [mod EXCEPT !["mmap"] = "out"] /\ major' = "none"
        /\ file' = Orphaned("mmap") /\ UNCHANGED <<pc, mapped>>
    BY <1>4 DEF MmapExitUnregister
  <2>2. mod'["mmap"] = "out"
    BY <2>1
  <2>3. file' \in [Proc -> Driver \cup {"none", "stale"}] /\ \A p \in Proc : file'[p] # "mmap"
    BY <2>1 DEF Orphaned
  <2> QED
    BY <2>1, <2>2, <2>3
<1>5. CASE IoctlInit
  BY <1>5 DEF IoctlInit
<1>6. CASE IoctlExit
  <2>1. /\ mod' = [mod EXCEPT !["ioctl"] = "out"] /\ major' = "none"
        /\ file' = Orphaned("ioctl") /\ UNCHANGED <<buffer, released, pc, mapped>>
    BY <1>6 DEF IoctlExit
  <2>2. mod'["mmap"] = mod["mmap"]
    BY <2>1
  <2>3. file' \in [Proc -> Driver \cup {"none", "stale"}] /\ \A p \in Proc : file'[p] = "mmap" <=> file[p] = "mmap"
    BY <2>1 DEF Orphaned
  <2> QED
    BY <2>1, <2>2, <2>3
<1> QED
  BY <1>1, <1>2, <1>3, <1>4, <1>5, <1>6 DEF Load

\* The last close of a file, or the end of the process that has it mapped.
LEMMA ReleaseStep ==
  ASSUME IInv, NEW p \in Proc, DevRelease(p), pc[p] # "open"
  PROVE  IInv'
<1> USE DEF IInv, StateOK, RegisteredInv, LoadingInv, BufferLiveUntilRelease
<1>1. CASE file[p] = "stale"
  BY <1>1, FaultStep DEF DevRelease
<1>2. CASE file[p] # "stale"
  <2>1. /\ file' = [file EXCEPT ![p] = "none"]
        /\ pc' = [pc EXCEPT ![p] = "done"]
        /\ UNCHANGED <<mod, major>>
    BY <1>2 DEF DevRelease
  <2>2. CASE file[p] = "mmap"
    <3>1. /\ released' = TRUE
          /\ mapped' = [Unbacked EXCEPT ![p] = "no"]
          /\ buffer' = IF buffer = "null" THEN "null" ELSE "freed"
      BY <1>2, <2>2 DEF DevRelease, KfreeBuffer
    <3>2. /\ mapped' \in [Proc -> {"no", "live", "stale"}]
          /\ \A q \in Proc : mapped[q] = "no" => mapped'[q] = "no"
      BY <3>1 DEF Unbacked
    <3> QED
      BY <2>1, <3>1, <3>2
  <2>3. CASE file[p] # "mmap"
    <3>1. UNCHANGED <<buffer, released, mapped>>
      BY <1>2, <2>3 DEF DevRelease
    <3> QED
      BY <2>1, <3>1
  <2> QED
    BY <2>2, <2>3
<1> QED
  BY <1>1, <1>2

\* Every statement of mmap.c and ioctl.c preserves the invariant.
LEMMA ProcessStep ==
  ASSUME IInv, NEW p \in Proc, Process(p)
  PROVE  IInv'
<1> USE DEF IInv, StateOK, RegisteredInv, LoadingInv, BufferLiveUntilRelease
<1>1. CASE DevOpen(p)
  <2>1. CASE major = "stale"
    BY <1>1, <2>1, FaultStep DEF DevOpen
  <2>2. CASE major # "stale"
    BY <1>1, <2>2 DEF DevOpen, kernVars
  <2> QED
    BY <2>1, <2>2
<1>2. CASE DevMmap(p)
  <2>1. CASE file[p] = "stale" \/ (file[p] = "mmap" /\ buffer = "null")
    BY <1>2, <2>1, FaultStep DEF DevMmap
  <2>2. CASE ~(file[p] = "stale" \/ (file[p] = "mmap" /\ buffer = "null"))
    <3>1. PICK ok \in {file[p] = "mmap", FALSE}, b \in {"live", "stale"} :
            /\ buffer # "freed" => b = "live"
            /\ mapped' = [mapped EXCEPT ![p] = IF ok THEN b ELSE "no"]
            /\ pc' = [pc EXCEPT ![p] = IF ok THEN "use" ELSE "close"]
            /\ UNCHANGED <<mod, major, buffer, released, file>>
      BY <1>2, <2>2 DEF DevMmap, kernVars
    <3>2. /\ mapped' \in [Proc -> {"no", "live", "stale"}]
          /\ pc' \in [Proc -> {"open", "call", "use", "close", "exit", "done"}]
          /\ \A q \in Proc : pc'[q] = "open" => mapped'[q] = "no"
      BY <3>1
    <3>3. mod["mmap"] = "registered" => \A q \in Proc : file[q] = "mmap" => mapped'[q] = "no"
      BY <2>2, <3>1
    <3>4. mod["mmap"] = "live" /\ ~released => \A q \in Proc : file[q] = "mmap" => mapped'[q] # "stale"
      BY <3>1
    <3> QED
      BY <3>1, <3>2, <3>3, <3>4
  <2> QED
    BY <2>1, <2>2
<1>3. CASE UseMapping(p)
  <2>1. CASE mapped[p] = "stale"
    BY <1>3, <2>1, FaultStep DEF UseMapping
  <2>2. CASE mapped[p] # "stale"
    BY <1>3, <2>2 DEF UseMapping, kernVars
  <2> QED
    BY <2>1, <2>2
<1>4. CASE DevIoctl(p)
  <2>1. CASE file[p] = "stale"
    BY <1>4, <2>1, FaultStep DEF DevIoctl
  <2>2. CASE file[p] # "stale"
    BY <1>4, <2>2 DEF DevIoctl, kernVars
  <2> QED
    BY <2>1, <2>2
<1>5. CASE Close(p)
  <2>1. CASE mapped[p] = "no"
    BY <1>5, <2>1, ReleaseStep DEF Close
  <2>2. CASE mapped[p] # "no"
    BY <1>5, <2>2 DEF Close, kernVars
  <2> QED
    BY <2>1, <2>2
<1>6. CASE Exit(p)
  BY <1>6, ReleaseStep DEF Exit
<1> QED
  BY <1>1, <1>2, <1>3, <1>4, <1>5, <1>6 DEF Process

\* The invariant holds in every reachable state.
THEOREM Invariance == Spec => []IInv
<1>1. Init => IInv
  BY DEF Init, IInv, StateOK, RegisteredInv, LoadingInv,
     BufferLiveUntilRelease, Driver
<1>2. ASSUME IInv, [Next]_vars PROVE IInv'
  <2>1. CASE UNCHANGED vars
    BY <1>2, <2>1 DEF vars, kernVars, procVars, IInv, StateOK, RegisteredInv,
       LoadingInv, BufferLiveUntilRelease
  <2> QED
    BY <1>2, <2>1, LoadStep, ProcessStep DEF Next
<1> QED
  BY <1>1, <1>2, PTL DEF Spec

\* Every step of a process leaves drivers and registrations alone.
LEMMA ProcessKeepsDrivers ==
  ASSUME NEW p \in Proc, Process(p)
  PROVE  UNCHANGED <<mod, major>>
<1>1. DevRelease(p) => UNCHANGED <<mod, major>>
  BY DEF DevRelease, Fault, kernVars
<1> QED
  BY <1>1 DEF Process, DevOpen, DevMmap, UseMapping, DevIoctl, Close, Exit, Fault, kernVars

\* The major number leads to a driver exactly as long as it is in the kernel,
\* although both drivers claim it and a failed load is not undone
\* (mmap/code.c:98, 113-115, 162; ioctl/code.c:115, 175).
THEOREM MajorCorrect == Spec => []MajorFollowsDriver
<1>1. Init => MajorFollowsDriver
  BY DEF Init, MajorFollowsDriver, Driver
<1>2. ASSUME MajorFollowsDriver, IInv, [Next]_vars PROVE MajorFollowsDriver'
  <2> USE <1>2 DEF MajorFollowsDriver, Driver, IInv, StateOK
  <2>1. CASE MmapInit
    <3>1. mod'["mmap"] = "registered" /\ mod'["ioctl"] = mod["ioctl"]
      BY <2>1 DEF MmapInit
    <3> QED
      BY <2>1, <3>1 DEF MmapInit
  <2>2. CASE MmapInitKmalloc
    <3>1. /\ mod["mmap"] = "registered" /\ mod'["ioctl"] = mod["ioctl"]
          /\ \/ mod'["mmap"] = "live" /\ major' = major
             \/ mod'["mmap"] = "out" /\ major' = "stale"
      BY <2>2 DEF MmapInitKmalloc
    <3> QED
      BY <3>1
  <2>3. CASE MmapExit
    <3>1. mod'["mmap"] = "exiting" /\ mod'["ioctl"] = mod["ioctl"] /\ major' = major
      BY <2>3 DEF MmapExit
    <3> QED
      BY <2>3, <3>1 DEF MmapExit
  <2>4. CASE MmapExitUnregister
    <3>1. mod'["mmap"] = "out" /\ mod'["ioctl"] = mod["ioctl"] /\ major' = "none"
      BY <2>4 DEF MmapExitUnregister
    <3> QED
      BY <2>4, <3>1 DEF MmapExitUnregister
  <2>5. CASE IoctlInit
    <3>1. mod'["ioctl"] = "live" /\ mod'["mmap"] = mod["mmap"] /\ major' = "ioctl"
      BY <2>5 DEF IoctlInit
    <3> QED
      BY <2>5, <3>1 DEF IoctlInit
  <2>6. CASE IoctlExit
    <3>1. mod'["ioctl"] = "out" /\ mod'["mmap"] = mod["mmap"] /\ major' = "none"
      BY <2>6 DEF IoctlExit
    <3> QED
      BY <2>6, <3>1 DEF IoctlExit
  <2>7. CASE UNCHANGED vars \/ \E p \in Proc : Process(p)
    BY <2>7, ProcessKeepsDrivers DEF vars, kernVars
  <2> QED
    BY <2>1, <2>2, <2>3, <2>4, <2>5, <2>6, <2>7 DEF Next, Load
<1> QED
  BY <1>1, <1>2, Invariance, PTL DEF Spec

\* Until the first release of one of its files, or the exit function, the buffer
\* of the mmap driver exists and backs every mapping made through the driver,
\* however many processes there are and whatever was loaded before
\* (mmap/code.c:98-130, 146-161).
THEOREM BufferCorrect == Spec => []BufferLiveUntilRelease
<1>1. IInv => BufferLiveUntilRelease
  BY DEF IInv
<1> QED
  BY <1>1, Invariance, PTL

=============================================================================
