---------------------------- MODULE PMAllocation ----------------------------
(***************************************************************************)
(* How the tool knows persistent memory (src/src/utils.hpp): SysBefore and *)
(* SysAfter run at the entry and the exit of every system call of every    *)
(* thread and keep the list allocs, IsPMAddress searches it.  Addresses    *)
(* are counted in pages; page 0 is never mapped.                           *)
(*                                                                         *)
(* The kernel is external: a call takes effect somewhere between its entry *)
(* and its exit.                                                           *)
(***************************************************************************)
EXTENDS Integers, Sequences, SequencesExt

CONSTANTS Thread,
          LastPage,   \* bound: pages 1 .. LastPage
          MaxSize,    \* bound: pages of a mapping
          MaxCalls    \* bound: system calls

ASSUME PMAssumption == /\ LastPage \in Nat \ {0}
                       /\ MaxSize \in 1 .. LastPage
                       /\ MaxCalls \in Nat

VARIABLES
  allocs,       \* sequence of PMAllocation
  found_alloc,
  calls,        \* calls[t]: the system call t is in, or {}
  pm            \* pages the kernel maps to a file on pm_mount, shared

(* What really happened, for the properties only. *)
VARIABLES
  ncalls,
  overtaken,  \* during an mmap of persistent memory another thread began one
              \* as well or returned from a call
  torn,       \* pages of a munmap that was not of one allocation as a whole
  kept        \* pages of an allocation whose munmap failed

vars == <<allocs, found_alloc, calls, pm, ncalls, overtaken, torn, kept>>

Page == 1 .. LastPage
Pages(start, size) == start .. start + size - 1

Failed == -1

\* PMAllocation, as SysBefore makes it: its start comes later.
NewAllocation(size) ==
  [start |-> 0, end |-> size, size |-> size, unmapped |-> FALSE]

Init == /\ allocs = <<>>
        /\ found_alloc = FALSE
        /\ calls = [t \in Thread |-> {}]
        /\ pm = {}
        /\ ncalls = 0 /\ overtaken = FALSE
        /\ torn = {} /\ kept = {}

\* IsPMAddress
IsPMAddress(address, size) ==
  \E i \in DOMAIN allocs : /\ ~allocs[i].unmapped
                           /\ address >= allocs[i].start
                           /\ address + size <= allocs[i].end

\* A call on its way into the kernel.
Call(num, address, size) ==
  [num |-> num, address |-> address, size |-> size,
   done |-> FALSE, return_value |-> 0]

\* The pages that the kernel has mapped but the application does not know
\* yet, and those that the application has given up but the kernel not.
Mapped(c) == c.num = "mmap" /\ c.done /\ c.return_value # Failed
Unmapping(c) == c.num = "munmap" /\ ~c.done
CallPages(c) ==
  Pages(IF c.num = "mmap" THEN c.return_value ELSE c.address, c.size)

\* Persistent pages the application can be using: the mmap has returned
\* and no munmap has begun.
Usable ==
  {p \in pm : \A t \in Thread : \A c \in calls[t] :
                Mapped(c) \/ Unmapping(c) => p \notin CallPages(c)}

-----------------------------------------------------------------------------
(* The calls: t enters with SysBefore.                                     *)

Enter(t, call) ==
  /\ calls[t] = {} /\ ncalls < MaxCalls
  /\ calls' = [calls EXCEPT ![t] = {call}]
  /\ ncalls' = ncalls + 1

\* mmap of a file on pm_mount, not private.
MmapBefore(t, size) ==
  /\ Enter(t, Call("mmap", 0, size))
  /\ allocs' = Append(allocs, NewAllocation(size))
  /\ found_alloc' = TRUE
  /\ overtaken' = (overtaken \/ found_alloc)
  /\ UNCHANGED <<pm, torn, kept>>

\* The test of munmap without its second half.
MatchesStart(alloc, address, size) == alloc.start = address

Matches(alloc, address, size) == alloc.start = address /\ alloc.size = size

\* munmap marks before the kernel has unmapped anything.  The application
\* unmaps what it has; unmapping other memory changes nothing here.
MunmapBefore(t, address, size) ==
  /\ Pages(address, size) \subseteq Usable
  /\ Enter(t, Call("munmap", address, size))
  /\ allocs' = [i \in DOMAIN allocs |->
                  [allocs[i] EXCEPT
                     !.unmapped = @ \/ Matches(allocs[i], address, size)]]
  /\ torn' = torn \cup
       {p \in Pages(address, size) :
          \E i \in DOMAIN allocs :
            /\ p \in Pages(allocs[i].start, allocs[i].size)
            /\ <<allocs[i].start, allocs[i].size>> # <<address, size>>}
  /\ UNCHANGED <<found_alloc, pm, overtaken, kept>>

\* Any other system call, among them mmap of other memory.
OtherBefore(t) ==
  /\ Enter(t, Call("other", 0, 0))
  /\ UNCHANGED <<allocs, found_alloc, pm, overtaken, torn, kept>>

-----------------------------------------------------------------------------
(* The kernel.                                                             *)

Finish(t, c, return_value) ==
  calls' = [calls EXCEPT
              ![t] = {[c EXCEPT !.done = TRUE,
                                !.return_value = return_value]}]

Kernel(t) ==
  \E c \in calls[t] :
    /\ ~c.done
    /\ \/ /\ c.num = "mmap"
          /\ \/ Finish(t, c, Failed) /\ UNCHANGED pm
             \/ \E start \in Page :
                  /\ Pages(start, c.size) \subseteq Page \ pm
                  /\ Finish(t, c, start)
                  /\ pm' = pm \cup Pages(start, c.size)
          /\ UNCHANGED kept
       \/ /\ c.num = "munmap"
          /\ \/ /\ Finish(t, c, 0)
                /\ pm' = pm \ Pages(c.address, c.size)
                /\ UNCHANGED kept
             \/ /\ Finish(t, c, Failed)
                /\ kept' = kept \cup Pages(c.address, c.size)
                /\ UNCHANGED pm
       \/ /\ c.num = "other"
          /\ \E return_value \in {Failed} \cup 0 .. LastPage :
               Finish(t, c, return_value)
          /\ UNCHANGED <<pm, kept>>
    /\ UNCHANGED <<allocs, found_alloc, ncalls, overtaken, torn>>

-----------------------------------------------------------------------------
(* The exit.                                                               *)

\* set_start
SetStart(alloc, start) ==
  [alloc EXCEPT !.start = start, !.end = start + alloc.size]

\* What SysAfter makes of the list if it forgets a failed call's entry.
AfterCallNoPop(return_value) ==
  IF ~found_alloc \/ return_value = Failed THEN allocs
  ELSE [allocs EXCEPT ![Len(allocs)] = SetStart(@, return_value)]

\* What SysAfter makes of the list: it takes the call that returns for the
\* one that made the last entry.
AfterCall(return_value) ==
  IF ~found_alloc THEN allocs
  ELSE IF return_value = Failed THEN Front(allocs)
  ELSE [allocs EXCEPT ![Len(allocs)] = SetStart(@, return_value)]

\* A flag that a failed call does not clear.
FoundAfterCallKept(return_value) == found_alloc /\ return_value = Failed

FoundAfterCall(return_value) == FALSE

SysAfter(t) ==
  \E c \in calls[t] :
    /\ c.done
    /\ allocs' = AfterCall(c.return_value)
    /\ found_alloc' = FoundAfterCall(c.return_value)
    /\ calls' = [calls EXCEPT ![t] = {}]
    /\ overtaken' = (overtaken \/ (found_alloc /\ c.num # "mmap"))
    /\ UNCHANGED <<pm, ncalls, torn, kept>>

Done == /\ ncalls = MaxCalls /\ \A t \in Thread : calls[t] = {}
        /\ UNCHANGED vars

Next ==
  \/ \E t \in Thread :
       \/ \E size \in 1 .. MaxSize :
            \/ MmapBefore(t, size)
            \/ \E address \in Page : MunmapBefore(t, address, size)
       \/ OtherBefore(t)
       \/ Kernel(t)
       \/ SysAfter(t)
  \/ Done

Spec == Init /\ [][Next]_vars

-----------------------------------------------------------------------------
(* Properties *)

\* allocs is a list of intervals, and the flag promises a last entry.
TypeOK ==
  /\ found_alloc \in BOOLEAN /\ overtaken \in BOOLEAN
  /\ \A i \in DOMAIN allocs :
       /\ allocs[i].size \in 1 .. MaxSize
       /\ allocs[i].start \in 0 .. LastPage
       /\ allocs[i].end = allocs[i].start + allocs[i].size
       /\ allocs[i].unmapped \in BOOLEAN
  /\ found_alloc => allocs # <<>>
  /\ pm \subseteq Page /\ torn \subseteq Page /\ kept \subseteq Page
  /\ ncalls \in 0 .. MaxCalls

\* No access to persistent memory is overlooked as long as no mmap of it was
\* overtaken, whatever was mapped, unmapped in parts, remapped or refused
\* before; except on pages whose munmap failed.
PMTracked ==
  ~overtaken => \A p \in Usable \ kept : IsPMAddress(p, 1)

\* Under the same premise nothing else passes for persistent memory, except
\* pages that were unmapped in parts, and low addresses while an mmap is in
\* progress, whose entry still starts at 0.
OnlyPMTracked ==
  ~overtaken /\ ~found_alloc =>
    \A p \in Page : IsPMAddress(p, 1) => p \in pm \cup torn

\* "Function will return true if the write is operating on Pmem", in a run
\* in which no munmap fails.
PmWritesSeen ==
  kept = {} => \A p \in Usable : IsPMAddress(p, 1)
=============================================================================
