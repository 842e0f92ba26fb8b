------------------------- MODULE PMAllocationProofs -------------------------
(***************************************************************************)
(* What PMAllocation promises, for every number of threads, pages and      *)
(* system calls.  The invariant says of every call in progress which pages *)
(* are between the kernel and the application because of it, and, as long  *)
(* as no mmap was overtaken, that the last entry of allocs is the one of   *)
(* the only mmap in progress.                                              *)
(***************************************************************************)
EXTENDS PMAllocation, SequenceTheorems, TLAPS

-----------------------------------------------------------------------------
(* The inductive invariant                                                 *)

AllocType == [start : 0 .. LastPage, end : Nat, size : 1 .. MaxSize,
              unmapped : BOOLEAN]

CallType == [num : {"mmap", "munmap", "other"}, address : 0 .. LastPage,
             size : 0 .. MaxSize, done : BOOLEAN,
             return_value : {Failed} \cup 0 .. LastPage]

CallOK(c) ==
  /\ c \in CallType
  /\ c.num # "other" => c.size # 0
  /\ c.num = "munmap" => c.address # 0
  /\ c.num = "mmap" /\ c.done => c.return_value # 0

TypeInv ==
  /\ allocs \in Seq(AllocType)
  /\ \A i \in DOMAIN allocs : allocs[i].end = allocs[i].start + allocs[i].size
  /\ found_alloc \in BOOLEAN /\ overtaken \in BOOLEAN
  /\ found_alloc => allocs # <<>>
  /\ calls \in [Thread -> SUBSET CallType]
  /\ \A t \in Thread : \A c \in calls[t] : CallOK(c) /\ calls[t] = {c}
  /\ pm \subseteq Page /\ torn \subseteq Page /\ kept \subseteq Page
  /\ ncalls \in 0 .. MaxCalls

\* Page p is in the hands of call c.
Holds(c, p) == (Mapped(c) \/ Unmapping(c)) /\ p \in CallPages(c)

\* These pages are persistent memory, and of one call only.
HandsInv ==
  \A t \in Thread : \A c \in calls[t] : \A p \in Int :
    Holds(c, p) =>
      /\ p \in pm
      /\ \A u \in Thread : \A d \in calls[u] : Holds(d, p) => u = t

\* The last entry is of the only mmap in progress.
PendingInv ==
  ~overtaken =>
    /\ \A t \in Thread : \A c \in calls[t] : c.num = "mmap" =>
         /\ found_alloc /\ allocs[Len(allocs)].size = c.size
         /\ \A u \in Thread : \A d \in calls[u] : d.num = "mmap" => u = t
    /\ \A i \in DOMAIN allocs :
         allocs[i].start = 0 => found_alloc /\ i = Len(allocs)
    /\ found_alloc => /\ allocs[Len(allocs)].start = 0
                      /\ ~allocs[Len(allocs)].unmapped

\* An entry whose mmap has returned and that no munmap has named.
Covers(a, p) == /\ ~a.unmapped /\ a.start # 0
                /\ a.start <= p /\ p + 1 <= a.end

TrackedInv ==
  ~overtaken => \A p \in Usable \ kept : \E i \in DOMAIN allocs :
                                            Covers(allocs[i], p)

OnlyInv ==
  ~overtaken =>
    \A i \in DOMAIN allocs : \A p \in Int :
      Covers(allocs[i], p) =>
        \/ p \in torn
        \/ /\ p \in pm
           /\ \A t \in Thread : \A c \in calls[t] :
                ~(Unmapping(c) /\ p \in CallPages(c))

PMInv == TypeInv /\ HandsInv /\ PendingInv /\ TrackedInv /\ OnlyInv

-----------------------------------------------------------------------------
(* What the actions do to the calls                                        *)

LEMMA ConstantsTyped ==
  /\ LastPage \in Nat /\ MaxSize \in Nat /\ MaxCalls \in Nat
  /\ MaxSize <= LastPage /\ LastPage # 0 /\ MaxSize # 0
BY PMAssumption

\* Call t is now c, and the calls of the others are what they were.
NowIn(t, c) ==
  /\ calls' = [calls EXCEPT ![t] = {c}]
  /\ calls'[t] = {c}
  /\ \A u \in Thread : u # t => calls'[u] = calls[u]

LEMMA EnterCall ==
  ASSUME TypeInv, NEW t \in Thread,
         NEW num \in {"mmap", "munmap", "other"}, NEW address \in 0 .. LastPage,
         NEW size \in 0 .. MaxSize,
         num # "other" => size # 0, num = "munmap" => address # 0,
         Enter(t, Call(num, address, size))
  PROVE  /\ calls[t] = {}
         /\ NowIn(t, Call(num, address, size))
         /\ CallOK(Call(num, address, size))
         /\ ncalls' \in 0 .. MaxCalls
<1>1. Call(num, address, size) \in CallType
  BY ConstantsTyped DEF Call, CallType, Failed
<1>2. CallOK(Call(num, address, size))
  BY <1>1 DEF CallOK, Call
<1>3. ncalls' \in 0 .. MaxCalls
  BY ConstantsTyped DEF TypeInv, Enter
<1>4. calls[t] = {} /\ NowIn(t, Call(num, address, size))
  BY DEF TypeInv, Enter, NowIn
<1>5. QED BY <1>2, <1>3, <1>4

LEMMA CallsTyped ==
  ASSUME TypeInv, NEW t \in Thread, NEW c, NowIn(t, c), CallOK(c)
  PROVE  /\ calls' \in [Thread -> SUBSET CallType]
         /\ \A u \in Thread : \A d \in calls'[u] :
              CallOK(d) /\ calls'[u] = {d}
<1>1. c \in CallType
  BY DEF CallOK
<1>2. calls' \in [Thread -> SUBSET CallType]
  BY <1>1 DEF TypeInv, NowIn
<1>3. ASSUME NEW u \in Thread, NEW d \in calls'[u]
      PROVE  CallOK(d) /\ calls'[u] = {d}
  <2>1. CASE u = t
    BY <2>1 DEF NowIn
  <2>2. CASE u # t
    BY <2>2 DEF NowIn, TypeInv
  <2>3. QED BY <2>1, <2>2
<1>4. QED BY <1>2, <1>3

\* The kernel has answered r to the call c of t, which is now d.
Answered(t, c, d, r) ==
  /\ c \in calls[t] /\ CallOK(c) /\ ~c.done
  /\ CallOK(d) /\ NowIn(t, d)
  /\ d.num = c.num /\ d.address = c.address /\ d.size = c.size
  /\ d.done /\ d.return_value = r
  /\ UNCHANGED <<allocs, found_alloc, ncalls, overtaken, torn>>

KernelMaps(t, c, start) ==
  /\ c.num = "mmap" /\ start \in Page
  /\ Pages(start, c.size) \subseteq Page \ pm
  /\ pm' = pm \cup Pages(start, c.size) /\ kept' = kept

KernelUnmaps(t, c) ==
  /\ c.num = "munmap"
  /\ pm' = pm \ Pages(c.address, c.size) /\ kept' = kept

KernelKeeps(t, c) ==
  /\ c.num = "munmap"
  /\ kept' = kept \cup Pages(c.address, c.size) /\ pm' = pm

KernelOther(t, c, r) ==
  /\ c.num = "other" \/ (c.num = "mmap" /\ r = Failed)
  /\ pm' = pm /\ kept' = kept

LEMMA FinishAnswers ==
  ASSUME TypeInv, NEW t \in Thread, NEW c \in calls[t], ~c.done,
         NEW r \in {Failed} \cup 0 .. LastPage, c.num = "mmap" => r # 0,
         Finish(t, c, r),
         UNCHANGED <<allocs, found_alloc, ncalls, overtaken, torn>>
  PROVE  \E d : Answered(t, c, d, r)
<1> DEFINE d == [c EXCEPT !.done = TRUE, !.return_value = r]
<1>1. CallOK(c) /\ c \in CallType
  BY DEF TypeInv, CallOK
<1>2. d \in CallType
  BY <1>1 DEF CallType
<1>3. /\ d.num = c.num /\ d.address = c.address /\ d.size = c.size
      /\ d.done /\ d.return_value = r
  BY <1>1 DEF CallType
<1>4. calls' = [calls EXCEPT ![t] = {d}]
  BY DEF Finish
<1> HIDE DEF d
<1>5. NowIn(t, d)
  BY <1>4 DEF NowIn, TypeInv
<1>6. Answered(t, c, d, r)
  BY <1>1, <1>2, <1>3, <1>5 DEF Answered, CallOK
<1>7. QED BY <1>6

LEMMA KernelCases ==
  ASSUME TypeInv, NEW t \in Thread, Kernel(t)
  PROVE  \E c, d, r :
           /\ Answered(t, c, d, r)
           /\ \/ KernelMaps(t, c, r)
              \/ KernelUnmaps(t, c) /\ r = 0
              \/ KernelKeeps(t, c) /\ r = Failed
              \/ KernelOther(t, c, r)
<1>1. PICK c \in calls[t] :
        /\ ~c.done
        /\ \/ /\ c.num = "mmap"
              /\ \/ Finish(t, c, Failed) /\ UNCHANGED pm
                 \/ \E start \in Page :
                      /\ Pages(start, c.size) \subseteq Page \ pm
                      /\ Finish(t, c, start)
                      /\ pm' = pm \cup Pages(start, c.size)
              /\ UNCHANGED kept
           \/ /\ c.num = "munmap"
              /\ \/ /\ Finish(t, c, 0)
                    /\ pm' = pm \ Pages(c.address, c.size)
                    /\ UNCHANGED kept
                 \/ /\ Finish(t, c, Failed)
                    /\ kept' = kept \cup Pages(c.address, c.size)
                    /\ UNCHANGED pm
           \/ /\ c.num = "other"
              /\ \E return_value \in {Failed} \cup 0 .. LastPage :
                   Finish(t, c, return_value)
              /\ UNCHANGED <<pm, kept>>
        /\ UNCHANGED <<allocs, found_alloc, ncalls, overtaken, torn>>
  BY DEF Kernel
<1>2. Failed \in {Failed} \cup 0 .. LastPage /\ Failed # 0
  BY DEF Failed
<1>3. CASE c.num = "mmap" /\ Finish(t, c, Failed) /\ UNCHANGED <<pm, kept>>
  BY <1>1, <1>2, <1>3, FinishAnswers DEF KernelOther
<1>4. ASSUME c.num = "mmap", NEW start \in Page,
             Pages(start, c.size) \subseteq Page \ pm, Finish(t, c, start),
             pm' = pm \cup Pages(start, c.size), UNCHANGED kept
      PROVE  \E d : Answered(t, c, d, start) /\ KernelMaps(t, c, start)
  <2>1. start \in {Failed} \cup 0 .. LastPage /\ start # 0
    BY DEF Page
  <2>2. QED BY <1>1, <1>4, <2>1, FinishAnswers DEF KernelMaps
<1>5. CASE /\ c.num = "munmap" /\ Finish(t, c, 0)
           /\ pm' = pm \ Pages(c.address, c.size) /\ UNCHANGED kept
  <2>1. 0 \in {Failed} \cup 0 .. LastPage /\ c.num # "mmap"
    BY <1>5, ConstantsTyped
  <2>2. QED BY <1>1, <1>5, <2>1, FinishAnswers DEF KernelUnmaps
<1>6. CASE /\ c.num = "munmap" /\ Finish(t, c, Failed)
           /\ kept' = kept \cup Pages(c.address, c.size) /\ UNCHANGED pm
  BY <1>1, <1>2, <1>6, FinishAnswers DEF KernelKeeps
<1>7. CASE /\ c.num = "other" /\ UNCHANGED <<pm, kept>>
           /\ \E r \in {Failed} \cup 0 .. LastPage : Finish(t, c, r)
  BY <1>1, <1>7, FinishAnswers DEF KernelOther
<1>8. QED BY <1>1, <1>3, <1>4, <1>5, <1>6, <1>7

-----------------------------------------------------------------------------
(* What the actions do to the entries                                      *)

\* The list is longer by an entry of this size that has no place yet.
Made(size) ==
  /\ allocs' \in Seq(AllocType)
  /\ Len(allocs') = Len(allocs) + 1
  /\ DOMAIN allocs \subseteq DOMAIN allocs'
  /\ \A i \in DOMAIN allocs : allocs'[i] = allocs[i]
  /\ allocs'[Len(allocs')] = NewAllocation(size)

\* The entries of this place and size are marked, the others as they were.
Marked(address, size) ==
  /\ allocs' \in Seq(AllocType)
  /\ Len(allocs') = Len(allocs) /\ DOMAIN allocs' = DOMAIN allocs
  /\ \A i \in DOMAIN allocs :
       /\ allocs'[i].start = allocs[i].start
       /\ allocs'[i].end = allocs[i].end
       /\ allocs'[i].size = allocs[i].size
       /\ ~allocs'[i].unmapped <=>
            ~allocs[i].unmapped /\ ~Matches(allocs[i], address, size)

\* The last entry is placed at `start`, the others as they were.
Placed(start) ==
  /\ allocs' \in Seq(AllocType)
  /\ Len(allocs') = Len(allocs) /\ DOMAIN allocs' = DOMAIN allocs
  /\ \A i \in DOMAIN allocs : i # Len(allocs) => allocs'[i] = allocs[i]
  /\ allocs'[Len(allocs)].start = start
  /\ allocs'[Len(allocs)].end = start + allocs[Len(allocs)].size
  /\ allocs'[Len(allocs)].size = allocs[Len(allocs)].size
  /\ allocs'[Len(allocs)].unmapped = allocs[Len(allocs)].unmapped

\* The last entry is gone, the others as they were.
Dropped ==
  /\ allocs' \in Seq(AllocType)
  /\ Len(allocs') = Len(allocs) - 1 /\ DOMAIN allocs' = 1 .. Len(allocs) - 1
  /\ \A i \in DOMAIN allocs' : i \in DOMAIN allocs /\ allocs'[i] = allocs[i]

LEMMA EntryTyped ==
  ASSUME TypeInv, NEW i \in DOMAIN allocs
  PROVE  allocs[i] \in AllocType
BY DEF TypeInv

LEMMA LastEntry ==
  ASSUME TypeInv, found_alloc
  PROVE  /\ Len(allocs) \in DOMAIN allocs /\ allocs # <<>>
         /\ Len(allocs) \in Nat \ {0}
         /\ DOMAIN allocs = 1 .. Len(allocs)
         /\ allocs[Len(allocs)] \in AllocType
BY DEF TypeInv

LEMMA MmapMakes ==
  ASSUME TypeInv, NEW size \in 1 .. MaxSize,
         allocs' = Append(allocs, NewAllocation(size))
  PROVE  Made(size)
<1>1. NewAllocation(size) \in AllocType
  BY ConstantsTyped DEF NewAllocation, AllocType
<1>2. allocs \in Seq(AllocType)
  BY DEF TypeInv
<1>3. QED BY <1>1, <1>2 DEF Made

LEMMA MunmapMarks ==
  ASSUME TypeInv, NEW address, NEW size,
         allocs' = [i \in DOMAIN allocs |->
                      [allocs[i] EXCEPT
                         !.unmapped = @ \/ Matches(allocs[i], address, size)]]
  PROVE  Marked(address, size)
<1>1. ASSUME NEW i \in DOMAIN allocs
      PROVE  /\ allocs'[i].start = allocs[i].start
             /\ allocs'[i].end = allocs[i].end
             /\ allocs'[i].size = allocs[i].size
             /\ ~allocs'[i].unmapped <=>
                  ~allocs[i].unmapped /\ ~Matches(allocs[i], address, size)
             /\ allocs'[i] \in AllocType
  <2>1. PICK m \in BOOLEAN : m <=> Matches(allocs[i], address, size)
    BY DEF Matches
  <2>2. allocs[i] \in AllocType /\ allocs[i].unmapped \in BOOLEAN
    BY EntryTyped DEF AllocType
  <2>3. PICK x \in BOOLEAN : x <=> (allocs[i].unmapped \/ m)
    BY <2>2
  <2>4. allocs'[i] = [allocs[i] EXCEPT !.unmapped = x]
    BY <2>1, <2>2, <2>3
  <2>5. QED BY <2>1, <2>2, <2>3, <2>4 DEF AllocType
<1>2. Len(allocs) \in Nat /\ DOMAIN allocs = 1 .. Len(allocs)
  BY DEF TypeInv
<1>3. allocs' \in [1 .. Len(allocs) -> AllocType]
  BY <1>1, <1>2
<1>4. allocs' \in Seq(AllocType) /\ Len(allocs') = Len(allocs)
      /\ DOMAIN allocs' = DOMAIN allocs
  BY <1>2, <1>3, SeqDef
<1>5. QED BY <1>1, <1>4 DEF Marked

LEMMA ReturnPlaces ==
  ASSUME TypeInv, found_alloc, NEW r \in 0 .. LastPage,
         allocs' = AfterCall(r)
  PROVE  Placed(r)
<1> DEFINE a == allocs[Len(allocs)]
<1>1. r # Failed
  BY ConstantsTyped DEF Failed
<1>2. a \in AllocType /\ a.size \in Nat /\ r + a.size \in Nat
  BY LastEntry, ConstantsTyped DEF AllocType
<1>3. /\ SetStart(a, r) \in AllocType
      /\ SetStart(a, r).start = r /\ SetStart(a, r).end = r + a.size
      /\ SetStart(a, r).size = a.size
      /\ SetStart(a, r).unmapped = a.unmapped
  BY <1>2 DEF SetStart, AllocType
<1>4. allocs' = [allocs EXCEPT ![Len(allocs)] = SetStart(a, r)]
  BY <1>1 DEF AfterCall
<1> HIDE DEF a
<1>5. allocs \in Seq(AllocType)
  BY DEF TypeInv
<1>6. QED BY <1>3, <1>4, <1>5, LastEntry DEF Placed, a

LEMMA ReturnDrops ==
  ASSUME TypeInv, found_alloc, allocs' = AfterCall(Failed)
  PROVE  Dropped
<1>1. allocs' = SubSeq(allocs, 1, Len(allocs) - 1)
  BY DEF AfterCall, Front
<1>2. allocs \in Seq(AllocType)
  BY DEF TypeInv
<1>3. QED BY <1>1, <1>2, LastEntry, SubSeqProperties DEF Dropped

LEMMA ReturnLeaves ==
  ASSUME ~found_alloc, NEW r, allocs' = AfterCall(r)
  PROVE  allocs' = allocs
BY DEF AfterCall

-----------------------------------------------------------------------------
(* The invariant is kept: the types                                        *)

LEMMA EndsKept ==
  ASSUME TypeInv, NEW size \in 1 .. MaxSize, Made(size),
         NEW i \in DOMAIN allocs'
  PROVE  allocs'[i].end = allocs'[i].start + allocs'[i].size
<1>1. /\ DOMAIN allocs' = 1 .. Len(allocs) + 1
      /\ DOMAIN allocs = 1 .. Len(allocs) /\ Len(allocs) \in Nat
  BY DEF Made, TypeInv
<1>2. CASE i \in DOMAIN allocs
  BY <1>2 DEF Made, TypeInv
<1>3. CASE i = Len(allocs) + 1
  BY <1>3 DEF Made, NewAllocation
<1>4. QED BY <1>1, <1>2, <1>3

\* SysAfter, as t returns from its call c.
Returns(t, c) ==
  /\ c \in calls[t] /\ CallOK(c) /\ c.done
  /\ c.return_value \in {Failed} \cup 0 .. LastPage
  /\ calls' = [calls EXCEPT ![t] = {}]
  /\ calls'[t] = {} /\ \A u \in Thread : u # t => calls'[u] = calls[u]
  /\ found_alloc' = FALSE
  /\ overtaken' = (overtaken \/ (found_alloc /\ c.num # "mmap"))
  /\ UNCHANGED <<pm, ncalls, torn, kept>>

ListAfter(r) ==
  \/ ~found_alloc /\ allocs' = allocs
  \/ found_alloc /\ r # Failed /\ Placed(r)
  \/ found_alloc /\ r = Failed /\ Dropped

LEMMA SysAfterCases ==
  ASSUME TypeInv, NEW t \in Thread, SysAfter(t)
  PROVE  \E c : Returns(t, c) /\ ListAfter(c.return_value)
<1>1. PICK c \in calls[t] :
        /\ c.done
        /\ allocs' = AfterCall(c.return_value)
        /\ found_alloc' = FALSE
        /\ calls' = [calls EXCEPT ![t] = {}]
        /\ overtaken' = (overtaken \/ (found_alloc /\ c.num # "mmap"))
        /\ UNCHANGED <<pm, ncalls, torn, kept>>
  BY DEF SysAfter, FoundAfterCall
<1>2. CallOK(c) /\ c.return_value \in {Failed} \cup 0 .. LastPage
  BY DEF TypeInv, CallOK, CallType
<1>3. Returns(t, c)
  BY <1>1, <1>2 DEF Returns, TypeInv
<1>4. ListAfter(c.return_value)
  BY <1>1, <1>2, ReturnPlaces, ReturnDrops, ReturnLeaves
     DEF ListAfter, TypeInv
<1>5. QED BY <1>3, <1>4

LEMMA TypeStep ==
  ASSUME TypeInv, HandsInv, Next
  PROVE  TypeInv'
<1>1. ASSUME NEW t \in Thread, NEW size \in 1 .. MaxSize, MmapBefore(t, size)
      PROVE  TypeInv'
  <2>1. Enter(t, Call("mmap", 0, size)) /\ Made(size)
        /\ found_alloc' = TRUE /\ overtaken' \in BOOLEAN
        /\ UNCHANGED <<pm, torn, kept>>
    BY <1>1, MmapMakes DEF MmapBefore, TypeInv
  <2>2. /\ NowIn(t, Call("mmap", 0, size)) /\ CallOK(Call("mmap", 0, size))
        /\ ncalls' \in 0 .. MaxCalls
    BY <2>1, EnterCall, ConstantsTyped
  <2>3. /\ calls' \in [Thread -> SUBSET CallType]
        /\ \A u \in Thread : \A d \in calls'[u] : CallOK(d) /\ calls'[u] = {d}
    BY <2>2, CallsTyped
  <2>4. allocs' \in Seq(AllocType) /\ allocs' # <<>>
    BY <2>1 DEF Made, TypeInv
  <2>5. QED BY <2>1, <2>2, <2>3, <2>4, EndsKept DEF TypeInv
<1>2. ASSUME NEW t \in Thread, NEW size \in 1 .. MaxSize, NEW address \in Page,
             MunmapBefore(t, address, size)
      PROVE  TypeInv'
  <2>1. /\ Enter(t, Call("munmap", address, size)) /\ Marked(address, size)
        /\ UNCHANGED <<found_alloc, pm, overtaken, kept>>
        /\ Pages(address, size) \subseteq pm
    BY <1>2, MunmapMarks DEF MunmapBefore, Usable
  <2>2. /\ NowIn(t, Call("munmap", address, size))
        /\ CallOK(Call("munmap", address, size))
        /\ ncalls' \in 0 .. MaxCalls
    BY <2>1, EnterCall, ConstantsTyped DEF Page
  <2>3. /\ calls' \in [Thread -> SUBSET CallType]
        /\ \A u \in Thread : \A d \in calls'[u] : CallOK(d) /\ calls'[u] = {d}
    BY <2>2, CallsTyped
  <2>4. torn' \subseteq Page
    BY <1>2, <2>1 DEF MunmapBefore, TypeInv
  <2>5. allocs' \in Seq(AllocType) /\ (found_alloc => allocs' # <<>>)
    BY <2>1, LastEntry DEF Marked
  <2>6. \A i \in DOMAIN allocs' :
          allocs'[i].end = allocs'[i].start + allocs'[i].size
    BY <2>1 DEF Marked, TypeInv
  <2>7. QED BY <2>1, <2>2, <2>3, <2>4, <2>5, <2>6 DEF TypeInv
<1>3. ASSUME NEW t \in Thread, OtherBefore(t)
      PROVE  TypeInv'
  <2>1. NowIn(t, Call("other", 0, 0)) /\ CallOK(Call("other", 0, 0))
        /\ ncalls' \in 0 .. MaxCalls
    BY <1>3, EnterCall, ConstantsTyped DEF OtherBefore
  <2>2. /\ calls' \in [Thread -> SUBSET CallType]
        /\ \A u \in Thread : \A d \in calls'[u] : CallOK(d) /\ calls'[u] = {d}
    BY <2>1, CallsTyped
  <2>3. QED BY <1>3, <2>1, <2>2 DEF OtherBefore, TypeInv
<1>4. ASSUME NEW t \in Thread, Kernel(t)
      PROVE  TypeInv'
  <2>1. PICK c, d, r :
          /\ Answered(t, c, d, r)
          /\ \/ KernelMaps(t, c, r)
             \/ KernelUnmaps(t, c) /\ r = 0
             \/ KernelKeeps(t, c) /\ r = Failed
             \/ KernelOther(t, c, r)
    BY <1>4, KernelCases
  <2>2. /\ calls' \in [Thread -> SUBSET CallType]
        /\ \A u \in Thread : \A e \in calls'[u] : CallOK(e) /\ calls'[u] = {e}
    BY <2>1, CallsTyped DEF Answered
  <2>3. pm' \subseteq Page
    BY <2>1 DEF TypeInv, KernelMaps, KernelUnmaps, KernelKeeps, KernelOther
  <2>4. kept' \subseteq Page
    <3>1. CASE KernelKeeps(t, c)
      <4>1. ~c.done /\ c \in calls[t] /\ c.num = "munmap"
        BY <2>1, <3>1 DEF Answered, KernelKeeps
      <4>2. Pages(c.address, c.size) \subseteq pm
        BY <4>1 DEF HandsInv, Holds, Unmapping, CallPages, Pages
      <4>3. QED BY <3>1, <4>2 DEF KernelKeeps, TypeInv
    <3>2. CASE kept' = kept
      BY <3>2 DEF TypeInv
    <3>3. QED BY <2>1, <3>1, <3>2 DEF KernelMaps, KernelUnmaps, KernelOther
  <2>5. QED BY <2>1, <2>2, <2>3, <2>4 DEF TypeInv, Answered
<1>5. ASSUME NEW t \in Thread, SysAfter(t)
      PROVE  TypeInv'
  <2>1. PICK c : Returns(t, c) /\ ListAfter(c.return_value)
    BY <1>5, SysAfterCases
  <2>2. /\ calls' \in [Thread -> SUBSET CallType]
        /\ \A u \in Thread : \A d \in calls'[u] : CallOK(d) /\ calls'[u] = {d}
    BY <2>1 DEF Returns, TypeInv
  <2>3. allocs' \in Seq(AllocType)
    BY <2>1 DEF ListAfter, Placed, Dropped, TypeInv
  <2>4. \A i \in DOMAIN allocs' :
          allocs'[i].end = allocs'[i].start + allocs'[i].size
    <3>1. CASE allocs' = allocs
      BY <3>1 DEF TypeInv
    <3>2. CASE found_alloc /\ Placed(c.return_value)
      BY <3>2, LastEntry DEF Placed, TypeInv
    <3>3. CASE found_alloc /\ Dropped
      BY <3>3, LastEntry DEF Dropped, TypeInv
    <3>4. QED BY <2>1, <3>1, <3>2, <3>3 DEF ListAfter
  <2>5. QED BY <2>1, <2>2, <2>3, <2>4 DEF TypeInv, Returns
<1>6. CASE Done
  BY <1>6 DEF Done, vars, TypeInv
<1>7. QED BY <1>1, <1>2, <1>3, <1>4, <1>5, <1>6 DEF Next

-----------------------------------------------------------------------------
(* The steps, in terms of the calls and the entries                        *)

DoesMmap(t, size) ==
  /\ calls[t] = {} /\ NowIn(t, Call("mmap", 0, size)) /\ Made(size)
  /\ found_alloc' = TRUE /\ overtaken' = (overtaken \/ found_alloc)
  /\ UNCHANGED <<pm, torn, kept>>

DoesMunmap(t, address, size) ==
  /\ Pages(address, size) \subseteq Usable
  /\ calls[t] = {} /\ NowIn(t, Call("munmap", address, size))
  /\ Marked(address, size)
  /\ \A p \in Pages(address, size) : \A i \in DOMAIN allocs :
       /\ p \in Pages(allocs[i].start, allocs[i].size)
       /\ <<allocs[i].start, allocs[i].size>> # <<address, size>>
       => p \in torn'
  /\ torn \subseteq torn'
  /\ UNCHANGED <<found_alloc, pm, overtaken, kept>>

DoesOther(t) ==
  /\ calls[t] = {} /\ NowIn(t, Call("other", 0, 0))
  /\ UNCHANGED <<allocs, found_alloc, pm, overtaken, torn, kept>>

DoesKernel(t, c, d, r) ==
  /\ Answered(t, c, d, r)
  /\ \/ KernelMaps(t, c, r)
     \/ KernelUnmaps(t, c) /\ r = 0
     \/ KernelKeeps(t, c) /\ r = Failed
     \/ KernelOther(t, c, r)

DoesReturn(t, c) == Returns(t, c) /\ ListAfter(c.return_value)

LEMMA StepCases ==
  ASSUME TypeInv, [Next]_vars
  PROVE  \/ \E t \in Thread, size \in 1 .. MaxSize : DoesMmap(t, size)
         \/ \E t \in Thread, size \in 1 .. MaxSize, address \in Page :
              DoesMunmap(t, address, size)
         \/ \E t \in Thread : DoesOther(t)
         \/ \E t \in Thread : \E c, d, r : DoesKernel(t, c, d, r)
         \/ \E t \in Thread : \E c : DoesReturn(t, c)
         \/ UNCHANGED vars
<1>1. ASSUME NEW t \in Thread, NEW size \in 1 .. MaxSize, MmapBefore(t, size)
      PROVE  DoesMmap(t, size)
  BY <1>1, MmapMakes, EnterCall, ConstantsTyped DEF MmapBefore, DoesMmap
<1>2. ASSUME NEW t \in Thread, NEW size \in 1 .. MaxSize, NEW address \in Page,
             MunmapBefore(t, address, size)
      PROVE  DoesMunmap(t, address, size)
  <2>1. Marked(address, size)
    BY <1>2, MunmapMarks DEF MunmapBefore
  <2>2. calls[t] = {} /\ NowIn(t, Call("munmap", address, size))
    BY <1>2, EnterCall, ConstantsTyped DEF MunmapBefore, Page
  <2>3. QED BY <1>2, <2>1, <2>2 DEF MunmapBefore, DoesMunmap
<1>3. ASSUME NEW t \in Thread, OtherBefore(t)
      PROVE  DoesOther(t)
  BY <1>3, EnterCall, ConstantsTyped DEF OtherBefore, DoesOther
<1>4. ASSUME NEW t \in Thread, Kernel(t)
      PROVE  \E c, d, r : DoesKernel(t, c, d, r)
  BY <1>4, KernelCases DEF DoesKernel
<1>5. ASSUME NEW t \in Thread, SysAfter(t)
      PROVE  \E c : DoesReturn(t, c)
  BY <1>5, SysAfterCases DEF DoesReturn
<1>6. CASE Done
  BY <1>6 DEF Done
<1>7. QED BY <1>1, <1>2, <1>3, <1>4, <1>5, <1>6 DEF Next

-----------------------------------------------------------------------------
(* The invariant is kept: the pages in the hands of the calls              *)

LEMMA NewCallHolds ==
  ASSUME NEW num, NEW address, NEW size, NEW p,
         Holds(Call(num, address, size), p)
  PROVE  num = "munmap" /\ p \in Pages(address, size)
BY DEF Holds, Mapped, Unmapping, CallPages, Call

\* Those of another call are out of reach.
LEMMA HandsKept ==
  ASSUME TypeInv, HandsInv, NEW t \in Thread, NEW c,
         NowIn(t, c) \/ (calls'[t] = {} /\ \A u \in Thread : u # t =>
                                                calls'[u] = calls[u]),
         \A p \in Int : (\E u \in Thread : u # t /\ \E e \in calls[u] :
                           Holds(e, p)) /\ p \in pm => p \in pm',
         NowIn(t, c) => \A p \in Int : Holds(c, p) =>
           /\ p \in pm'
           /\ \A u \in Thread : u # t => \A e \in calls[u] : ~Holds(e, p)
  PROVE  HandsInv'
<1>1. SUFFICES ASSUME NEW u \in Thread, NEW e \in calls'[u], NEW p \in Int,
                      Holds(e, p)
               PROVE  /\ p \in pm'
                      /\ \A v \in Thread : \A f \in calls'[v] :
                           Holds(f, p) => v = u
  BY DEF HandsInv
<1>2. CASE u = t
  <2>1. NowIn(t, c) /\ e = c
    BY <1>1, <1>2 DEF NowIn
  <2>2. QED BY <1>1, <1>2, <2>1 DEF NowIn
<1>3. CASE u # t
  <2>1. e \in calls[u]
    BY <1>1, <1>3 DEF NowIn
  <2>2. p \in pm /\ \A v \in Thread : \A f \in calls[v] : Holds(f, p) => v = u
    BY <1>1, <2>1 DEF HandsInv
  <2>3. p \in pm'
    BY <1>1, <1>3, <2>1, <2>2
  <2>4. ASSUME NEW v \in Thread, NEW f \in calls'[v], Holds(f, p)
        PROVE  v = u
    <3>1. CASE v = t
      <4>1. NowIn(t, c) /\ f = c
        BY <2>4, <3>1 DEF NowIn
      <4>2. QED BY <1>1, <1>3, <2>1, <2>4, <4>1
    <3>2. CASE v # t
      BY <2>2, <2>4, <3>2 DEF NowIn
    <3>3. QED BY <3>1, <3>2
  <2>5. QED BY <2>3, <2>4
<1>4. QED BY <1>2, <1>3

\* A call of t that holds nothing.
LEMMA HandsSame ==
  ASSUME TypeInv, HandsInv, NEW t \in Thread, NEW c, NowIn(t, c),
         pm \subseteq pm',
         \A p \in Int : ~Holds(c, p)
  PROVE  HandsInv'
BY HandsKept

LEMMA HandsStep ==
  ASSUME TypeInv, HandsInv, [Next]_vars
  PROVE  HandsInv'
<1>1. ASSUME NEW t \in Thread, NEW size \in 1 .. MaxSize, DoesMmap(t, size)
      PROVE  HandsInv'
  <2>1. \A p \in Int : ~Holds(Call("mmap", 0, size), p)
    BY NewCallHolds
  <2>2. QED BY <1>1, <2>1, HandsSame DEF DoesMmap
<1>2. ASSUME NEW t \in Thread, NEW size \in 1 .. MaxSize, NEW address \in Page,
             DoesMunmap(t, address, size)
      PROVE  HandsInv'
  <2> DEFINE c == Call("munmap", address, size)
  <2>1. NowIn(t, c) /\ pm' = pm
    BY <1>2 DEF DoesMunmap
  <2>2. ASSUME NEW p \in Int, Holds(c, p)
        PROVE  /\ p \in pm'
               /\ \A u \in Thread : u # t => \A e \in calls[u] : ~Holds(e, p)
    <3>1. p \in Usable
      BY <1>2, <2>2, NewCallHolds DEF DoesMunmap
    <3>2. QED BY <2>1, <3>1 DEF Usable, Holds
  <2> HIDE DEF c
  <2>3. QED BY <2>1, <2>2, HandsKept
<1>3. ASSUME NEW t \in Thread, DoesOther(t)
      PROVE  HandsInv'
  <2>1. \A p \in Int : ~Holds(Call("other", 0, 0), p)
    BY NewCallHolds
  <2>2. QED BY <1>3, <2>1, HandsSame DEF DoesOther
<1>4. ASSUME NEW t \in Thread, NEW c, NEW d, NEW r, DoesKernel(t, c, d, r)
      PROVE  HandsInv'
  <2>1. Answered(t, c, d, r) /\ NowIn(t, d) /\ c \in calls[t]
    BY <1>4 DEF DoesKernel, Answered
  <2>2. CASE KernelMaps(t, c, r)
    <3>1. ASSUME NEW p \in Int, Holds(d, p)
          PROVE  p \in Pages(r, c.size)
      BY <2>1, <2>2, <3>1
         DEF Answered, KernelMaps, Holds, Mapped, Unmapping, CallPages
    <3>2. \A p \in Pages(r, c.size) : p \notin pm /\ p \in pm'
      BY <2>2 DEF KernelMaps
    <3>3. \A u \in Thread : \A e \in calls[u] : \A p \in Int :
            Holds(e, p) => p \in pm
      BY DEF HandsInv
    <3>4. pm \subseteq pm'
      BY <2>2 DEF KernelMaps
    <3>5. QED BY <2>1, <3>1, <3>2, <3>3, <3>4, HandsKept
  <2>3. CASE KernelUnmaps(t, c)
    <3>1. \A p \in Int : ~Holds(d, p)
      BY <2>1, <2>3 DEF Answered, KernelUnmaps, Holds, Mapped, Unmapping
    <3>2. \A p \in Int : p \in Pages(c.address, c.size) => Holds(c, p)
      BY <2>1, <2>3 DEF Answered, KernelUnmaps, Holds, Unmapping, CallPages
    <3>3. ASSUME NEW p \in Int, p \in pm, NEW u \in Thread, u # t,
                 NEW e \in calls[u], Holds(e, p)
          PROVE  p \in pm'
      BY <2>1, <2>3, <3>2, <3>3 DEF HandsInv, KernelUnmaps
    <3>4. QED BY <2>1, <3>1, <3>3, HandsKept
  <2>4. CASE KernelKeeps(t, c) \/ KernelOther(t, c, r)
    <3>1. \A p \in Int : ~Holds(d, p)
      BY <2>1, <2>4
         DEF Answered, KernelKeeps, KernelOther, Holds, Mapped, Unmapping
    <3>2. pm \subseteq pm'
      BY <2>4 DEF KernelKeeps, KernelOther
    <3>3. QED BY <2>1, <3>1, <3>2, HandsSame
  <2>5. QED BY <1>4, <2>2, <2>3, <2>4 DEF DoesKernel
<1>5. ASSUME NEW t \in Thread, NEW c, DoesReturn(t, c)
      PROVE  HandsInv'
  <2>1. /\ calls'[t] = {} /\ \A u \in Thread : u # t => calls'[u] = calls[u]
        /\ pm' = pm
    BY <1>5 DEF DoesReturn, Returns
  <2>2. ~NowIn(t, c)
    BY <2>1 DEF NowIn
  <2>3. QED BY <2>1, <2>2, HandsKept
<1>6. CASE UNCHANGED vars
  BY <1>6 DEF vars, HandsInv
<1>7. QED BY <1>1, <1>2, <1>3, <1>4, <1>5, <1>6, StepCases

-----------------------------------------------------------------------------
(* The invariant is kept: the last entry is of the only mmap in progress   *)

LEMMA PendingStep ==
  ASSUME TypeInv, PendingInv, [Next]_vars
  PROVE  PendingInv'
<1> SUFFICES ASSUME ~overtaken'
             PROVE  PendingInv'
  BY DEF PendingInv
<1>1. ASSUME NEW t \in Thread, NEW size \in 1 .. MaxSize, DoesMmap(t, size)
      PROVE  PendingInv'
  <2> DEFINE c == Call("mmap", 0, size)
  <2>1. /\ ~overtaken /\ ~found_alloc /\ found_alloc' /\ Made(size)
        /\ NowIn(t, c)
    BY <1>1 DEF DoesMmap, TypeInv
  <2>2. \A u \in Thread : \A d \in calls[u] : d.num # "mmap"
    BY <2>1 DEF PendingInv
  <2>3. c.size = size
    BY DEF Call
  <2> HIDE DEF c
  <2>4. \A u \in Thread : \A d \in calls'[u] : d.num = "mmap" => u = t /\ d = c
    BY <2>1, <2>2 DEF NowIn
  <2>5. /\ allocs'[Len(allocs')].start = 0 /\ allocs'[Len(allocs')].size = size
        /\ ~allocs'[Len(allocs')].unmapped
        /\ DOMAIN allocs' = 1 .. Len(allocs) + 1
        /\ DOMAIN allocs = 1 .. Len(allocs) /\ Len(allocs) \in Nat
        /\ Len(allocs') = Len(allocs) + 1
    BY <2>1 DEF Made, NewAllocation, TypeInv
  <2>6. ASSUME NEW i \in DOMAIN allocs', allocs'[i].start = 0
        PROVE  i = Len(allocs')
    <3>1. CASE i \in DOMAIN allocs
      BY <2>1, <2>6, <3>1 DEF Made, PendingInv
    <3>2. QED BY <2>5, <3>1
  <2>7. QED BY <2>1, <2>3, <2>4, <2>5, <2>6 DEF PendingInv
<1>2. ASSUME NEW t \in Thread, NEW size \in 1 .. MaxSize, NEW address \in Page,
             DoesMunmap(t, address, size)
      PROVE  PendingInv'
  <2>1. ~overtaken /\ found_alloc' = found_alloc /\ Marked(address, size)
    BY <1>2 DEF DoesMunmap
  <2>2. ASSUME NEW u \in Thread, NEW d \in calls'[u], d.num = "mmap"
        PROVE  d \in calls[u]
    BY <1>2, <2>2 DEF DoesMunmap, NowIn, Call
  <2>3. \A u \in Thread : \A d \in calls'[u] : d.num = "mmap" =>
          /\ found_alloc /\ allocs[Len(allocs)].size = d.size
          /\ \A v \in Thread : \A e \in calls'[v] : e.num = "mmap" => v = u
    BY <2>1, <2>2 DEF PendingInv
  <2>4. ASSUME found_alloc
        PROVE  /\ allocs'[Len(allocs')].start = 0
               /\ ~allocs'[Len(allocs')].unmapped
    <3>1. allocs[Len(allocs)].start = 0 /\ ~allocs[Len(allocs)].unmapped
      BY <2>1, <2>4 DEF PendingInv
    <3>2. ~Matches(allocs[Len(allocs)], address, size)
      BY <3>1 DEF Matches, Page
    <3>3. QED BY <2>1, <2>4, <3>1, <3>2, LastEntry DEF Marked
  <2>5. \A i \in DOMAIN allocs' :
          allocs'[i].start = 0 => found_alloc' /\ i = Len(allocs')
    BY <2>1 DEF PendingInv, Marked
  <2>6. \A u \in Thread : \A d \in calls'[u] : d.num = "mmap" =>
          allocs'[Len(allocs')].size = d.size
    BY <2>1, <2>3, LastEntry DEF Marked
  <2>7. QED BY <2>1, <2>3, <2>4, <2>5, <2>6 DEF PendingInv
<1>3. ASSUME NEW t \in Thread, DoesOther(t)
      PROVE  PendingInv'
  <2>1. ASSUME NEW u \in Thread, NEW d \in calls'[u], d.num = "mmap"
        PROVE  d \in calls[u]
    BY <1>3, <2>1 DEF DoesOther, NowIn, Call
  <2>2. QED BY <1>3, <2>1 DEF DoesOther, PendingInv
<1>4. ASSUME NEW t \in Thread, NEW c, NEW d, NEW r, DoesKernel(t, c, d, r)
      PROVE  PendingInv'
  <2>1. /\ c \in calls[t] /\ NowIn(t, d) /\ d.num = c.num /\ d.size = c.size
        /\ ~overtaken
        /\ UNCHANGED <<allocs, found_alloc>>
    BY <1>4 DEF DoesKernel, Answered
  <2>2. ASSUME NEW u \in Thread, NEW e \in calls'[u]
        PROVE  \E f \in calls[u] : f.num = e.num /\ f.size = e.size
    BY <2>1 DEF NowIn
  <2>3. \A u \in Thread : \A e \in calls'[u] : e.num = "mmap" =>
          /\ found_alloc /\ allocs[Len(allocs)].size = e.size
          /\ \A v \in Thread : \A f \in calls'[v] : f.num = "mmap" => v = u
    BY <2>1, <2>2 DEF PendingInv
  <2>4. QED BY <2>1, <2>3 DEF PendingInv
<1>5. ASSUME NEW t \in Thread, NEW c, DoesReturn(t, c)
      PROVE  PendingInv'
  <2>1. /\ c \in calls[t] /\ CallOK(c) /\ c.done
        /\ ~overtaken /\ (c.num = "mmap" \/ ~found_alloc)
        /\ found_alloc' = FALSE /\ ListAfter(c.return_value)
        /\ calls'[t] = {} /\ \A u \in Thread : u # t => calls'[u] = calls[u]
    BY <1>5 DEF DoesReturn, Returns, TypeInv
  <2>2. \A u \in Thread : \A d \in calls'[u] : d.num # "mmap"
    BY <2>1 DEF PendingInv
  <2>3. ASSUME NEW i \in DOMAIN allocs'
        PROVE  allocs'[i].start # 0
    <3>1. CASE ~found_alloc
      BY <2>1, <3>1 DEF ListAfter, PendingInv
    <3>2. CASE found_alloc /\ Placed(c.return_value)
      <4>1. c.return_value # 0
        BY <2>1, <3>2 DEF CallOK
      <4>2. QED BY <2>1, <3>2, <4>1, LastEntry DEF Placed, PendingInv
    <3>3. CASE found_alloc /\ Dropped
      BY <2>1, <3>3, LastEntry DEF Dropped, PendingInv
    <3>4. QED BY <2>1, <3>1, <3>2, <3>3 DEF ListAfter, TypeInv
  <2>4. QED BY <2>1, <2>2, <2>3 DEF PendingInv
<1>6. CASE UNCHANGED vars
  BY <1>6 DEF vars, PendingInv
<1>7. QED BY <1>1, <1>2, <1>3, <1>4, <1>5, <1>6, StepCases

-----------------------------------------------------------------------------
(* The invariant is kept: usable pages are tracked                         *)

\* A page is usable when no call holds it.
LEMMA UsableUnheld ==
  ASSUME NEW p
  PROVE  p \in Usable <=> /\ p \in pm
                          /\ \A t \in Thread : \A c \in calls[t] : ~Holds(c, p)
BY DEF Usable, Holds

LEMMA CoversPages ==
  ASSUME TypeInv, NEW i \in DOMAIN allocs, NEW p \in Int
  PROVE  p \in Pages(allocs[i].start, allocs[i].size) <=>
           allocs[i].start <= p /\ p + 1 <= allocs[i].end
<1>1. /\ allocs[i].start \in Int /\ allocs[i].size \in Int
      /\ allocs[i].end = allocs[i].start + allocs[i].size
  BY EntryTyped DEF AllocType, TypeInv
<1>2. QED BY <1>1 DEF Pages

LEMMA PageIsInt == \A p \in Page : p \in Int
BY ConstantsTyped DEF Page

LEMMA TrackedStep ==
  ASSUME TypeInv, HandsInv, PendingInv, TrackedInv, [Next]_vars
  PROVE  TrackedInv'
<1> SUFFICES ASSUME ~overtaken', NEW p \in Usable', p \notin kept'
             PROVE  \E i \in DOMAIN allocs' : Covers(allocs'[i], p)
  BY DEF TrackedInv, Covers
<1>0. /\ p \in pm'
      /\ \A t \in Thread : \A c \in calls'[t] : ~Holds(c, p)
  BY DEF Usable, Holds
<1>1. ASSUME NEW t \in Thread, NEW size \in 1 .. MaxSize, DoesMmap(t, size)
      PROVE  \E i \in DOMAIN allocs' : Covers(allocs'[i], p)
  <2>1. p \in Usable /\ p \notin kept /\ ~overtaken
    BY <1>0, <1>1, UsableUnheld DEF DoesMmap, NowIn, TypeInv
  <2>2. QED BY <1>1, <2>1 DEF DoesMmap, Made, TrackedInv
<1>2. ASSUME NEW t \in Thread, NEW size \in 1 .. MaxSize, NEW address \in Page,
             DoesMunmap(t, address, size)
      PROVE  \E i \in DOMAIN allocs' : Covers(allocs'[i], p)
  <2> DEFINE c == Call("munmap", address, size)
  <2>1. /\ NowIn(t, c) /\ calls[t] = {} /\ pm' = pm /\ kept' = kept
        /\ ~overtaken /\ Marked(address, size)
    BY <1>2 DEF DoesMunmap
  <2>2. p \in Int
    BY <1>0, <2>1, PageIsInt DEF TypeInv
  <2>3. p \notin Pages(address, size)
    <3>1. ~Holds(c, p)
      BY <1>0, <2>1 DEF NowIn
    <3>2. QED BY <3>1 DEF Holds, Unmapping, CallPages, Call
  <2> HIDE DEF c
  <2>4. p \in Usable /\ p \notin kept
    BY <1>0, <2>1, UsableUnheld DEF NowIn
  <2>5. PICK i \in DOMAIN allocs : Covers(allocs[i], p)
    BY <2>1, <2>4 DEF TrackedInv
  <2>6. ~Matches(allocs[i], address, size)
    BY <2>2, <2>3, <2>5, CoversPages DEF Covers, Matches
  <2>7. Covers(allocs'[i], p) /\ i \in DOMAIN allocs'
    BY <2>1, <2>5, <2>6 DEF Marked, Covers
  <2>8. QED BY <2>7
<1>3. ASSUME NEW t \in Thread, DoesOther(t)
      PROVE  \E i \in DOMAIN allocs' : Covers(allocs'[i], p)
  <2>1. p \in Usable /\ p \notin kept /\ ~overtaken
    BY <1>0, <1>3, UsableUnheld DEF DoesOther, NowIn
  <2>2. QED BY <1>3, <2>1 DEF DoesOther, TrackedInv
<1>4. ASSUME NEW t \in Thread, NEW c, NEW d, NEW r, DoesKernel(t, c, d, r)
      PROVE  \E i \in DOMAIN allocs' : Covers(allocs'[i], p)
  <2>1. /\ Answered(t, c, d, r) /\ c \in calls[t] /\ calls[t] = {c}
        /\ NowIn(t, d) /\ ~overtaken /\ allocs' = allocs
        /\ calls'[t] = {d}
    BY <1>4 DEF DoesKernel, Answered, TypeInv, NowIn
  <2>2. p \in pm /\ p \notin kept /\ ~Holds(c, p)
    <3>1. ~Holds(d, p)
      BY <1>0, <2>1
    <3>2. CASE KernelMaps(t, c, r)
      <4>1. p \notin Pages(r, c.size)
        BY <2>1, <3>1, <3>2, ConstantsTyped
           DEF Answered, KernelMaps, Holds, Mapped, CallPages, Failed, Page
      <4>2. ~Holds(c, p)
        BY <2>1, <3>2 DEF Answered, KernelMaps, Holds, Mapped, Unmapping
      <4>3. QED BY <1>0, <3>2, <4>1, <4>2 DEF KernelMaps
    <3>3. CASE KernelUnmaps(t, c)
      BY <1>0, <2>1, <3>3
         DEF Answered, KernelUnmaps, Holds, Mapped, Unmapping, CallPages
    <3>4. CASE KernelKeeps(t, c)
      BY <1>0, <2>1, <3>4
         DEF Answered, KernelKeeps, Holds, Mapped, Unmapping, CallPages
    <3>5. CASE KernelOther(t, c, r)
      BY <1>0, <2>1, <3>5
         DEF Answered, KernelOther, Holds, Mapped, Unmapping, CallPages
    <3>6. QED BY <1>4, <3>2, <3>3, <3>4, <3>5 DEF DoesKernel
  <2>3. p \in Usable
    BY <1>0, <2>1, <2>2, UsableUnheld DEF NowIn
  <2>4. QED BY <2>1, <2>2, <2>3 DEF TrackedInv
<1>5. ASSUME NEW t \in Thread, NEW c, DoesReturn(t, c)
      PROVE  \E i \in DOMAIN allocs' : Covers(allocs'[i], p)
  <2>1. /\ c \in calls[t] /\ calls[t] = {c} /\ CallOK(c) /\ c.done
        /\ ~overtaken /\ (c.num = "mmap" \/ ~found_alloc)
        /\ ListAfter(c.return_value) /\ pm' = pm /\ kept' = kept
        /\ calls'[t] = {} /\ \A u \in Thread : u # t => calls'[u] = calls[u]
        /\ c.return_value \in Int
    BY <1>5 DEF DoesReturn, Returns, TypeInv, Failed
  <2>2. p \in Int
    BY <1>0, <2>1, PageIsInt DEF TypeInv
  <2>3. CASE ~Holds(c, p)
    <3>1. p \in Usable
      BY <1>0, <2>1, <2>3, UsableUnheld
    <3>2. PICK i \in DOMAIN allocs : Covers(allocs[i], p)
      BY <2>1, <3>1 DEF TrackedInv
    <3>3. found_alloc => i # Len(allocs)
      BY <2>1, <3>2 DEF PendingInv, Covers
    <3>4. i \in DOMAIN allocs' /\ allocs'[i] = allocs[i]
      BY <2>1, <3>3, LastEntry DEF ListAfter, Placed, Dropped
    <3>5. QED BY <3>2, <3>4
  <2>4. CASE Holds(c, p)
    <3>1. /\ c.num = "mmap" /\ c.return_value # Failed /\ c.return_value # 0
          /\ p \in Pages(c.return_value, c.size)
      BY <2>1, <2>4 DEF Holds, Mapped, Unmapping, CallPages, CallOK
    <3>2. found_alloc /\ allocs[Len(allocs)].size = c.size
      BY <2>1, <3>1 DEF PendingInv
    <3>3. Placed(c.return_value)
      BY <2>1, <3>1, <3>2 DEF ListAfter
    <3>4. ~allocs[Len(allocs)].unmapped
      BY <2>1, <3>2 DEF PendingInv
    <3>5. Covers(allocs'[Len(allocs)], p) /\ Len(allocs) \in DOMAIN allocs'
      <4>1. c.size \in Int
        BY <2>1 DEF CallOK, CallType
      <4>2. QED BY <2>1, <2>2, <3>1, <3>2, <3>3, <3>4, <4>1, LastEntry
                DEF Placed, Covers, Pages
    <3>6. QED BY <3>5
  <2>5. QED BY <2>3, <2>4
<1>6. CASE UNCHANGED vars
  BY <1>6 DEF vars, TrackedInv, Usable
<1>7. QED BY <1>1, <1>2, <1>3, <1>4, <1>5, <1>6, StepCases

-----------------------------------------------------------------------------
(* The invariant is kept: nothing else is tracked                          *)

\* What OnlyInv says of a page that an entry covers.
Accounted(p) ==
  \/ p \in torn
  \/ /\ p \in pm
     /\ \A t \in Thread : \A c \in calls[t] :
          ~(Unmapping(c) /\ p \in CallPages(c))

LEMMA OnlyStep ==
  ASSUME TypeInv, HandsInv, PendingInv, OnlyInv, [Next]_vars
  PROVE  OnlyInv'
<1> SUFFICES ASSUME ~overtaken', NEW i \in DOMAIN allocs', NEW p \in Int,
                    Covers(allocs'[i], p)
             PROVE  Accounted(p)'
  BY DEF OnlyInv, Accounted
<1>0. ASSUME ~overtaken, NEW j \in DOMAIN allocs, Covers(allocs[j], p)
      PROVE  Accounted(p)
  BY <1>0 DEF OnlyInv, Accounted
<1>1. ASSUME NEW t \in Thread, NEW size \in 1 .. MaxSize, DoesMmap(t, size)
      PROVE  Accounted(p)'
  <2>1. ~overtaken /\ Made(size)
    BY <1>1 DEF DoesMmap, TypeInv
  <2>2. i \in DOMAIN allocs /\ allocs'[i] = allocs[i]
    <3>1. allocs'[Len(allocs')].start = 0
      BY <2>1 DEF Made, NewAllocation
    <3>2. i # Len(allocs')
      BY <3>1 DEF Covers
    <3>3. QED BY <2>1, <3>2 DEF Made, TypeInv
  <2>3. Accounted(p)
    BY <1>0, <2>1, <2>2
  <2>4. QED BY <1>1, <2>3 DEF Accounted, DoesMmap, NowIn, Unmapping, Call
<1>2. ASSUME NEW t \in Thread, NEW size \in 1 .. MaxSize, NEW address \in Page,
             DoesMunmap(t, address, size)
      PROVE  Accounted(p)'
  <2> DEFINE c == Call("munmap", address, size)
  <2>1. /\ NowIn(t, c) /\ pm' = pm /\ torn \subseteq torn'
        /\ ~overtaken /\ Marked(address, size)
    BY <1>2 DEF DoesMunmap
  <2>2. CallPages(c) = Pages(address, size)
    BY DEF CallPages, Call
  <2> HIDE DEF c
  <2>3. i \in DOMAIN allocs /\ Covers(allocs[i], p)
        /\ ~Matches(allocs[i], address, size)
    BY <2>1 DEF Marked, Covers
  <2>4. Accounted(p)
    BY <1>0, <2>1, <2>3
  <2>5. CASE p \in Pages(address, size)
    <3>1. p \in Pages(allocs[i].start, allocs[i].size)
      BY <2>3, CoversPages DEF Covers
    <3>2. <<allocs[i].start, allocs[i].size>> # <<address, size>>
      BY <2>3 DEF Matches
    <3>3. p \in torn'
      BY <1>2, <2>3, <2>5, <3>1, <3>2 DEF DoesMunmap
    <3>4. QED BY <3>3 DEF Accounted
  <2>6. CASE p \notin Pages(address, size)
    BY <2>1, <2>2, <2>4, <2>6 DEF Accounted, NowIn
  <2>7. QED BY <2>5, <2>6
<1>3. ASSUME NEW t \in Thread, DoesOther(t)
      PROVE  Accounted(p)'
  <2>1. Accounted(p)
    BY <1>0, <1>3 DEF DoesOther
  <2>2. QED BY <1>3, <2>1 DEF Accounted, DoesOther, NowIn, Unmapping, Call
<1>4. ASSUME NEW t \in Thread, NEW c, NEW d, NEW r, DoesKernel(t, c, d, r)
      PROVE  Accounted(p)'
  <2>1. /\ Answered(t, c, d, r) /\ c \in calls[t] /\ ~Unmapping(d)
        /\ NowIn(t, d) /\ ~overtaken /\ allocs' = allocs /\ torn' = torn
    BY <1>4 DEF DoesKernel, Answered, Unmapping
  <2>2. Accounted(p)
    BY <1>0, <2>1
  <2>3. ASSUME p \in pm, p \notin torn
        PROVE  p \in pm'
    <3>1. CASE KernelUnmaps(t, c)
      <4>1. Unmapping(c) /\ CallPages(c) = Pages(c.address, c.size)
        BY <2>1, <3>1 DEF Answered, KernelUnmaps, Unmapping, CallPages
      <4>2. p \notin Pages(c.address, c.size)
        BY <2>1, <2>2, <2>3, <4>1 DEF Accounted
      <4>3. QED BY <2>3, <3>1, <4>2 DEF KernelUnmaps
    <3>2. CASE ~KernelUnmaps(t, c)
      BY <1>4, <2>3, <3>2
         DEF DoesKernel, KernelMaps, KernelKeeps, KernelOther
    <3>3. QED BY <3>1, <3>2
  <2>4. QED BY <2>1, <2>2, <2>3 DEF Accounted, NowIn
<1>5. ASSUME NEW t \in Thread, NEW c, DoesReturn(t, c)
      PROVE  Accounted(p)'
  <2>1. /\ c \in calls[t] /\ CallOK(c) /\ c.done
        /\ ~overtaken /\ (c.num = "mmap" \/ ~found_alloc)
        /\ ListAfter(c.return_value) /\ pm' = pm /\ torn' = torn
        /\ calls'[t] = {} /\ \A u \in Thread : u # t => calls'[u] = calls[u]
        /\ c.return_value \in Int
    BY <1>5 DEF DoesReturn, Returns, TypeInv, Failed
  <2>2. CASE i \in DOMAIN allocs /\ allocs'[i] = allocs[i]
    <3>1. Accounted(p)
      BY <1>0, <2>1, <2>2
    <3>2. QED BY <2>1, <3>1 DEF Accounted
  <2>3. CASE /\ found_alloc /\ c.return_value # Failed
             /\ Placed(c.return_value) /\ i = Len(allocs)
    <3>1. c.num = "mmap" /\ allocs[Len(allocs)].size = c.size
      BY <2>1, <2>3 DEF PendingInv
    <3>2. Mapped(c) /\ p \in CallPages(c)
      <4>1. c.size \in Int
        BY <2>1 DEF CallOK, CallType
      <4>2. QED BY <2>1, <2>3, <3>1, <4>1
                DEF Placed, Covers, CallPages, Pages, Mapped
    <3>3. p \in pm /\ \A u \in Thread : \A d \in calls[u] :
                        Holds(d, p) => u = t
      BY <2>1, <3>2 DEF HandsInv, Holds
    <3>4. QED BY <2>1, <3>3 DEF Accounted, Holds
  <2>4. QED BY <2>1, <2>2, <2>3, LastEntry DEF ListAfter, Placed, Dropped
<1>6. CASE UNCHANGED vars
  BY <1>0, <1>6 DEF vars, Accounted
<1>7. QED BY <1>1, <1>2, <1>3, <1>4, <1>5, <1>6, StepCases

-----------------------------------------------------------------------------
(* The theorems                                                            *)

LEMMA PMInit == Init => PMInv
<1> SUFFICES ASSUME Init PROVE PMInv
  OBVIOUS
<1>1. TypeInv
  <2>1. <<>> \in Seq(AllocType) /\ DOMAIN allocs = {}
    BY DEF Init
  <2>2. calls \in [Thread -> SUBSET CallType]
    BY DEF Init
  <2>3. allocs \in Seq(AllocType) /\ (found_alloc => allocs # <<>>)
    BY <2>1 DEF Init
  <2>4. found_alloc \in BOOLEAN /\ overtaken \in BOOLEAN
    BY DEF Init
  <2>5. /\ pm \subseteq Page /\ torn \subseteq Page /\ kept \subseteq Page
        /\ ncalls \in 0 .. MaxCalls
    BY ConstantsTyped DEF Init
  <2>6. QED BY <2>1, <2>2, <2>3, <2>4, <2>5 DEF Init, TypeInv
<1>2. HandsInv /\ PendingInv /\ TrackedInv /\ OnlyInv
  BY DEF Init, HandsInv, PendingInv, TrackedInv, OnlyInv, Usable
<1>3. QED BY <1>1, <1>2 DEF PMInv

LEMMA PMStep == PMInv /\ [Next]_vars => PMInv'
<1>1. TypeInv /\ HandsInv /\ UNCHANGED vars => TypeInv'
  BY DEF TypeInv, vars
<1>2. QED BY <1>1, TypeStep, HandsStep, PendingStep, TrackedStep, OnlyStep
          DEF PMInv

LEMMA Invariant == Spec => []PMInv
BY PMInit, PMStep, PTL DEF Spec

(* allocs is a list of intervals, whatever the threads and the kernel do,  *)
(* and found_alloc promises an entry: pop_back and back are never asked of  *)
(* an empty list.                                                          *)
THEOREM AllocsTyped == Spec => []TypeOK
<1>1. PMInv => TypeOK
  <2> SUFFICES ASSUME TypeInv PROVE TypeOK
    BY DEF PMInv
  <2>1. \A i \in DOMAIN allocs : allocs[i] \in AllocType
    BY DEF TypeInv
  <2>2. QED BY <2>1 DEF TypeOK, TypeInv, AllocType
<1>2. QED BY <1>1, Invariant, PTL

(* A page that the application can use is recognised, unless an mmap was    *)
(* overtaken or a munmap of it has failed.                                 *)
THEOREM UsableTracked == Spec => []PMTracked
<1>1. PMInv => PMTracked
  BY DEF PMInv, TrackedInv, Covers, PMTracked, IsPMAddress
<1>2. QED BY <1>1, Invariant, PTL

(* What is recognised is persistent memory, or was unmapped in parts.      *)
THEOREM NothingElseTracked == Spec => []OnlyPMTracked
<1>1. PMInv => OnlyPMTracked
  <2> SUFFICES ASSUME PMInv, ~overtaken, ~found_alloc, NEW p \in Page,
                      IsPMAddress(p, 1)
               PROVE  p \in pm \cup torn
    BY DEF OnlyPMTracked
  <2>1. PICK i \in DOMAIN allocs : /\ ~allocs[i].unmapped
                                   /\ p >= allocs[i].start
                                   /\ p + 1 <= allocs[i].end
    BY DEF IsPMAddress
  <2>2. p \in Int /\ allocs[i].start \in Int
    BY EntryTyped, PageIsInt DEF PMInv, AllocType
  <2>3. Covers(allocs[i], p)
    BY <2>1, <2>2 DEF PMInv, PendingInv, Covers
  <2>4. QED BY <2>2, <2>3 DEF PMInv, OnlyInv
<1>2. QED BY <1>1, Invariant, PTL
=============================================================================
