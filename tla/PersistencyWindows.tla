------------------------- MODULE PersistencyWindows -------------------------
(***************************************************************************)
(* What the persistency tracking of HawkSet promises, without its caches,  *)
(* timestamps and interning.                                               *)
(*                                                                         *)
(* Every byte of a store opens a window.  It closes when its thread        *)
(* flushes the byte's line and then fences, when the thread stores the     *)
(* byte again, or when the thread ends.  A lock protects a window if the   *)
(* thread held it when the window opened and has neither released nor      *)
(* taken it since.  Locks do not count: one release frees a lock.          *)
(***************************************************************************)
EXTENDS Naturals

CONSTANTS Thread, Lock, Byte,
          LineSize        \* bytes in a cache line

VARIABLES
  held,      \* held[t]: the locks of t
  time,      \* time[t]: stores and acquisitions of t so far, names its stores
  segment,   \* segment[t]: the current segment of t's life
  open,      \* open[t]: the windows of t that are open
  closed,    \* closed[t]: the ones that have closed, and how
  reads,     \* reads[t]: the loads of t
  ended      \* ended[t]: t has ended

vars == <<held, time, segment, open, closed, reads, ended>>

Line(byte) == byte \div LineSize

\* A window: its store, its byte, the locks that protect it, and whether the
\* byte's line has been flushed since.
Opened(t, bytes) ==
  {[store |-> time[t], byte |-> b, locks |-> held[t], flushed |-> FALSE] :
     b \in bytes}

\* The window w of t closes now, by a "fence", a "store" or an "exit".
Closed(t, w, how) ==
  [store |-> w.store, byte |-> w.byte, locks |-> w.locks,
   flushed |-> w.flushed, how |-> how, segment |-> segment[t]]

\* Windows of bytes that are stored again.
Overwritten(t, bytes) == {w \in open[t] : w.byte \in bytes}

Flushed(t) == {w \in open[t] : w.flushed}

\* The windows W of t close, the others and the `new` ones are open.
CloseAndOpen(t, W, how, new) ==
  /\ closed' = [closed EXCEPT ![t] = @ \cup {Closed(t, w, how) : w \in W}]
  /\ open' = [open EXCEPT ![t] = (@ \ W) \cup new]

Init ==
  /\ held = [t \in Thread |-> {}]
  /\ time = [t \in Thread |-> 0]
  /\ segment = [t \in Thread |-> 1]
  /\ open = [t \in Thread |-> {}]
  /\ closed = [t \in Thread |-> {}]
  /\ reads = [t \in Thread |-> {}]
  /\ ended = [t \in Thread |-> FALSE]

Store(t, bytes) ==
  /\ ~ended[t]
  /\ CloseAndOpen(t, Overwritten(t, bytes), "store", Opened(t, bytes))
  /\ time' = [time EXCEPT ![t] = @ + 1]
  /\ UNCHANGED <<held, segment, reads, ended>>

Flush(t, byte) ==
  /\ ~ended[t]
  /\ open' = [open EXCEPT ![t] =
                {[w EXCEPT !.flushed = @ \/ Line(w.byte) = Line(byte)] : w \in @}]
  /\ UNCHANGED <<held, time, segment, closed, reads, ended>>

Fence(t) ==
  /\ ~ended[t]
  /\ CloseAndOpen(t, Flushed(t), "fence", {})
  /\ UNCHANGED <<held, time, segment, reads, ended>>

\* An atomic instruction: a store and a fence in one.  What it stores is not
\* flushed, so its own window stays open.
Atomic(t, bytes) ==
  /\ ~ended[t]
  /\ LET over == Overwritten(t, bytes)
     IN  /\ closed' = [closed EXCEPT ![t] = @ \cup
                         {Closed(t, w, "store") : w \in over} \cup
                         {Closed(t, w, "fence") : w \in Flushed(t) \ over}]
         /\ open' = [open EXCEPT ![t] =
                       (@ \ (over \cup Flushed(t))) \cup Opened(t, bytes)]
  /\ time' = [time EXCEPT ![t] = @ + 1]
  /\ UNCHANGED <<held, segment, reads, ended>>

\* A load, named `id` by its thread.
Load(t, bytes, id) ==
  /\ ~ended[t]
  /\ reads' = [reads EXCEPT ![t] = @ \cup
                 {[byte |-> b, locks |-> held[t], segment |-> segment[t],
                   id |-> id] : b \in bytes}]
  /\ UNCHANGED <<held, time, segment, open, closed, ended>>

\* No window of t is protected by l any more.
Unprotect(t, l) ==
  open' = [open EXCEPT ![t] = {[w EXCEPT !.locks = @ \ {l}] : w \in @}]

Acquire(t, l) ==
  /\ ~ended[t]
  /\ held' = [held EXCEPT ![t] = @ \cup {l}]
  /\ time' = [time EXCEPT ![t] = @ + 1]
  /\ Unprotect(t, l)
  /\ UNCHANGED <<segment, closed, reads, ended>>

Release(t, l) ==
  /\ ~ended[t]
  /\ held' = [held EXCEPT ![t] = @ \ {l}]
  /\ Unprotect(t, l)
  /\ UNCHANGED <<time, segment, closed, reads, ended>>

\* t creates or joins another thread.
NextSegment(t) ==
  /\ ~ended[t]
  /\ segment' = [segment EXCEPT ![t] = @ + 1]
  /\ UNCHANGED <<held, time, open, closed, reads, ended>>

Exit(t) ==
  /\ ~ended[t]
  /\ CloseAndOpen(t, open[t], "exit", {})
  /\ ended' = [ended EXCEPT ![t] = TRUE]
  /\ segment' = [segment EXCEPT ![t] = @ + 1]
  /\ UNCHANGED <<held, time, reads>>

Step(t) ==
  \/ \E bytes \in (SUBSET Byte) \ {{}} : Store(t, bytes) \/ Atomic(t, bytes)
  \/ \E byte \in Byte : Flush(t, byte)
  \/ Fence(t)
  \/ \E bytes \in (SUBSET Byte) \ {{}} : \E id \in {r.id : r \in reads'[t]} :
       Load(t, bytes, id)
  \/ \E l \in Lock : Acquire(t, l) \/ Release(t, l)
  \/ NextSegment(t)
  \/ Exit(t)

Next == \E t \in Thread : Step(t)

Spec == Init /\ [][Next]_vars
=============================================================================
