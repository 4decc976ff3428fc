---------------------------- MODULE CharDevices ----------------------------
(***************************************************************************)
(* src/mmap/code.c and src/ioctl/code.c, two character drivers that claim  *)
(* the same major number, 150, and the same device node, together with the *)
(* user programs mmap/mmap.c and ioctl/ioctl.c.  Neither file_operations   *)
(* has an .owner, so an open file does not keep its module loaded.         *)
(***************************************************************************)
EXTENDS Integers

CONSTANTS
  MmapProc,   \* processes running mmap.c
  IoctlProc   \* processes running ioctl.c, or another client that sends any command

ASSUME ProcAssumption == MmapProc \cap IoctlProc = {}

Proc == MmapProc \cup IoctlProc
Driver == {"mmap", "ioctl"}
EACCES == -13
ENOTTY == -25

VARIABLES
  mod,       \* driver d: "out", "registered" (no buffer yet), "live" or
             \* "exiting" (buffer freed, still registered)
  major,     \* whose file_operations major number 150 leads to, "none", or
             \* "stale": those of a module that has been discarded
  buffer,    \* mmap's kernel buffer: "null", "live" or "freed"
  released,  \* a file of the mmap driver was released since it was loaded
  pc,        \* next statement of process p
  file,      \* the driver behind p's struct file, "none" or "stale"
  mapped,    \* p's mapping of buffer: "no", "live", or "stale" once buffer is freed
  reply,     \* return code of p's ioctl()
  fault      \* the bad access that happened, or "none"

kernVars == <<mod, major, buffer, released>>
procVars == <<pc, file, mapped, reply>>
vars == <<kernVars, procVars, fault>>

Init ==
  /\ mod = [d \in Driver |-> "out"]
  /\ major = "none"
  /\ buffer = "null"
  /\ released = FALSE
  /\ pc = [p \in Proc |-> "open"]
  /\ file = [p \in Proc |-> "none"]
  /\ mapped = [p \in Proc |-> "no"]
  /\ reply = [p \in Proc |-> 0]
  /\ fault = "none"

\* Files of a driver whose text goes away lead nowhere.
Orphaned(d) == [p \in Proc |-> IF file[p] = d THEN "stale" ELSE file[p]]

Fault(f) == fault' = f /\ UNCHANGED <<kernVars, procVars>>

-----------------------------------------------------------------------------
(* Loading and unloading *)

\* register_chrdev() fails if the major number is taken; then nothing changes.
MmapInit ==
  /\ mod["mmap"] = "out"
  /\ major = "none"
  /\ major' = "mmap"
  /\ mod' = [mod EXCEPT !["mmap"] = "registered"]
  /\ buffer' = "null"
  /\ released' = FALSE
  /\ UNCHANGED <<procVars, fault>>

\* Faulty variant: the result of kmalloc() is not looked at.
MmapInitUnchecked ==
  /\ mod["mmap"] = "registered"
  /\ buffer' \in {"live", "null"}
  /\ mod' = [mod EXCEPT !["mmap"] = "live"]
  /\ UNCHANGED <<major, released, procVars, fault>>

\* Without memory the module is discarded but stays registered.
MmapInitKmalloc ==
  /\ mod["mmap"] = "registered"
  /\ \/ /\ buffer' = "live"
        /\ mod' = [mod EXCEPT !["mmap"] = "live"]
        /\ UNCHANGED <<major, file>>
     \/ /\ mod' = [mod EXCEPT !["mmap"] = "out"]
        /\ major' = "stale"
        /\ file' = Orphaned("mmap")
        /\ UNCHANGED buffer
  /\ UNCHANGED <<released, pc, mapped, reply, fault>>

\* Faulty variant: the result of register_chrdev() is not looked at.
IoctlInitUnchecked ==
  /\ mod["ioctl"] = "out"
  /\ major' = IF major = "none" THEN "ioctl" ELSE major
  /\ mod' = [mod EXCEPT !["ioctl"] = "live"]
  /\ UNCHANGED <<buffer, released, procVars, fault>>

IoctlInit ==
  /\ mod["ioctl"] = "out"
  /\ major = "none"
  /\ major' = "ioctl"
  /\ mod' = [mod EXCEPT !["ioctl"] = "live"]
  /\ UNCHANGED <<buffer, released, procVars, fault>>

\* if (buffer) kfree(buffer), which leaves the pointer as it is.
KfreeBuffer ==
  /\ buffer' = IF buffer = "null" THEN "null" ELSE "freed"
  /\ fault' = IF buffer = "freed" THEN "double_free" ELSE fault

\* Mappings once kfree(buffer) has run.
Unbacked == [p \in Proc |-> IF mapped[p] = "live" THEN "stale" ELSE mapped[p]]

\* The buffer goes first: the device can still be opened and mapped.
MmapExit ==
  /\ mod["mmap"] = "live"
  /\ KfreeBuffer
  /\ mod' = [mod EXCEPT !["mmap"] = "exiting"]
  /\ mapped' = Unbacked
  /\ UNCHANGED <<major, released, pc, file, reply>>

MmapExitUnregister ==
  /\ mod["mmap"] = "exiting"
  /\ major' = "none"
  /\ mod' = [mod EXCEPT !["mmap"] = "out"]
  /\ file' = Orphaned("mmap")
  /\ UNCHANGED <<buffer, released, pc, mapped, reply, fault>>

IoctlExit ==
  /\ mod["ioctl"] = "live"
  /\ major' = "none"
  /\ mod' = [mod EXCEPT !["ioctl"] = "out"]
  /\ file' = Orphaned("ioctl")
  /\ UNCHANGED <<buffer, released, pc, mapped, reply, fault>>

-----------------------------------------------------------------------------
(* File operations, called by process p *)

\* open() fails if nothing is registered; the program then ends.
DevOpen(p) ==
  /\ pc[p] = "open"
  /\ IF major = "stale" THEN Fault("stale_fops") ELSE
       /\ file' = [file EXCEPT ![p] = major]
       /\ pc' = [pc EXCEPT ![p] = IF major = "none" THEN "done" ELSE "call"]
       /\ UNCHANGED <<kernVars, mapped, reply, fault>>

\* Faulty variant: a failed mmap() is tried again.
DevMmapRetries(p) ==
  /\ pc[p] = "call"
  /\ p \in MmapProc
  /\ IF file[p] = "stale" THEN Fault("text_gone") ELSE
       /\ file[p] = "mmap"
       /\ mapped' = [mapped EXCEPT ![p] = IF buffer = "live" THEN "live" ELSE "stale"]
       /\ pc' = [pc EXCEPT ![p] = "use"]
       /\ UNCHANGED <<kernVars, file, reply, fault>>

\* mmap() fails if remap_pfn_range() does, and on a file of the ioctl driver.
\* A module that is still being loaded would have a null buffer mapped.
DevMmap(p) ==
  /\ pc[p] = "call"
  /\ p \in MmapProc
  /\ IF file[p] = "stale" THEN Fault("text_gone")
     ELSE IF file[p] = "mmap" /\ buffer = "null" THEN Fault("null_map") ELSE
       /\ LET backing == IF buffer = "freed" THEN "stale" ELSE "live" IN
          \E ok \in {file[p] = "mmap", FALSE} :
            /\ mapped' = [mapped EXCEPT ![p] = IF ok THEN backing ELSE "no"]
            /\ pc' = [pc EXCEPT ![p] = IF ok THEN "use" ELSE "close"]
       /\ UNCHANGED <<kernVars, file, reply, fault>>

\* addr[0] = 'A'
UseMapping(p) ==
  /\ pc[p] = "use"
  /\ IF mapped[p] = "stale" THEN Fault("stale_map") ELSE
       /\ pc' = [pc EXCEPT ![p] = "close"]
       /\ UNCHANGED <<kernVars, file, mapped, reply, fault>>

\* The return codes of dev_ioctl(): copy_to_user() of GET and copy_from_user() of
\* SET may fail; CLR and an unknown command always succeed.
DevIoctlResult(cmd) == IF cmd \in {"GET", "SET"} THEN {0, EACCES} ELSE {0}

\* The kernel itself refuses an ioctl() on a file of the mmap driver.
DevIoctl(p) ==
  /\ pc[p] = "call"
  /\ p \in IoctlProc
  /\ IF file[p] = "stale" THEN Fault("text_gone") ELSE
       /\ \E cmd \in {"GET", "CLR", "SET", "other"} :
            \E rc \in IF file[p] = "ioctl" THEN DevIoctlResult(cmd) ELSE {ENOTTY} :
               reply' = [reply EXCEPT ![p] = rc]
       /\ pc' = [pc EXCEPT ![p] = "close"]
       /\ UNCHANGED <<kernVars, file, mapped, fault>>

\* dev_release() of the driver behind p's file; p has no more business.
DevRelease(p) ==
  IF file[p] = "stale" THEN Fault("text_gone") ELSE
    /\ IF file[p] = "mmap"
         THEN KfreeBuffer /\ released' = TRUE /\ mapped' = [Unbacked EXCEPT ![p] = "no"]
         ELSE UNCHANGED <<buffer, fault, released, mapped>>
    /\ file' = [file EXCEPT ![p] = "none"]
    /\ pc' = [pc EXCEPT ![p] = "done"]
    /\ UNCHANGED <<mod, major, reply>>

\* close(fd) drops the last reference unless the file is mapped.
Close(p) ==
  /\ pc[p] = "close"
  /\ IF mapped[p] = "no" THEN DevRelease(p) ELSE
       /\ pc' = [pc EXCEPT ![p] = "exit"]
       /\ UNCHANGED <<kernVars, file, mapped, reply, fault>>

\* The mapping of mmap.c goes away with the process.
Exit(p) ==
  /\ pc[p] = "exit"
  /\ DevRelease(p)

-----------------------------------------------------------------------------
Load == MmapInit \/ MmapInitKmalloc \/ MmapExit \/ MmapExitUnregister \/ IoctlInit \/ IoctlExit

Process(p) == DevOpen(p) \/ DevMmap(p) \/ UseMapping(p) \/ DevIoctl(p) \/ Close(p) \/ Exit(p)

Next == fault = "none" /\ (Load \/ \E p \in Proc : Process(p))

Spec == Init /\ [][Next]_vars

\* Processes are scheduled; loading and unloading is up to the administrator.
FairSpec == Spec /\ \A p \in Proc : WF_vars(fault = "none" /\ Process(p))

-----------------------------------------------------------------------------
(* Properties *)

\* Both drivers claim major number 150 (mmap/code.c:98, ioctl/code.c:115), and each
\* exit function unregisters it without asking whose it is (mmap/code.c:162,
\* ioctl/code.c:175).  All the same it leads to a driver exactly as long as that
\* driver is in the kernel: loading one never takes it from the other.
MajorFollowsDriver == \A d \in Driver : major = d <=> mod[d] # "out"

\* From the end of its init function to its exit function, and as long as no file
\* of the mmap driver has been released, its buffer is there to be mapped and
\* behind every mapping made through it, even one of a process that opened the
\* device while the module was still being loaded (mmap/code.c:98-130, 146-161).
BufferLiveUntilRelease ==
  mod["mmap"] = "live" /\ ~released =>
    buffer = "live" /\ \A p \in Proc : file[p] = "mmap" => mapped[p] # "stale"

\* Every process ends, whatever is loaded and unloaded meanwhile
\* (mmap/mmap.c:16-67, ioctl/ioctl.c:20-67).
ProcessesEnd == \A p \in Proc : pc[p] = "call" ~> (pc[p] = "done" \/ fault # "none")

(* What the repository says and the code does not keep *)

\* mmap/README:1-11: load the module, run the program, unload the module.  The
\* buffer is not freed twice.
BufferFreedOnce == fault # "double_free"

=============================================================================
