------------------------------ MODULE MCHawkSet ------------------------------
(***************************************************************************)
(* HawkSet for TLC: the example applications, and small ones that put      *)
(* every kind of window next to every kind of load.                        *)
(***************************************************************************)
EXTENDS HawkSet, Examples, TLC

ASSUME Cardinality(Pthread) = MaxThreads /\ MainPthread \in Pthread

S == << <<"store", 0>> >>
L == << <<"load", 0>> >>
A == << <<"rmw", 0>> >>
F == << <<"flush", 0>> >>
E == << <<"fence">> >>

\* The neighbour of byte 0 in its line.
S1 == << <<"store", 1>> >>
L1 == << <<"load", 1>> >>

In(operations) == Locked("lock", operations)

\* What a thread may do beside the main thread: store and fence in one
\* critical section, in two, across the end of one, under a lock taken twice,
\* over an earlier store, or never fence.
Workers ==
  {S, S \o F, S \o F \o E, S \o S, S \o F \o S \o E, A, A \o F \o E,
   In(S) \o F \o E, In(S \o F) \o E, In(S \o F \o E), In(S) \o In(F \o E),
   In(In(S) \o F \o E), In(S), L, In(L), L \o S \o F \o E, In(L) \o L,
   S \o S1 \o F \o E, S1 \o F \o S \o E, L1 \o S}

\* What the main thread may do before it creates the worker, beside it, and
\* after it has joined it.
Befores  == {<<>>, S, S \o F, S \o F \o E}
Besides  == {<<>>, L, In(L), S, S \o F, In(S) \o F, A, In(S \o F \o E), L1, S1 \o F}
Afters   == {<<>>, L, E, F \o E, << <<"exit">> >>}

OneWorker ==
  {[main   |-> before \o << <<"create", "worker">> >> \o beside \o
                 << <<"join", 1>> >> \o after,
    worker |-> worker] :
     before \in Befores, beside \in Besides, after \in Afters, worker \in Workers}

\* A worker that makes its own worker, or main two of them that it joins or not.
TwoWorkers ==
  UNION
    {{[main   |-> << <<"create", "worker">> >> \o beside \o << <<"exit">> >>,
       worker |-> << <<"create", "second">>, <<"join", 2>> >> \o worker,
       second |-> worker],
      [main   |-> << <<"create", "worker">>, <<"create", "worker">> >> \o beside,
       worker |-> worker],
      [main   |-> << <<"create", "worker">>, <<"create", "worker">>,
                     <<"join", 1>>, <<"join", 2>> >> \o beside,
       worker |-> worker]} :
       beside \in {<<>>, L}, worker \in Workers}

\* A creation can overtake a child that has not read its creator's clock yet:
\* one by its own creator, after a store, or one by another thread.
Overtaking ==
  UNION
    {{[main   |-> << <<"create", "reader">>, <<"create", "reader">> >> \o between \o
                  << <<"create", "idle">>, <<"exit">> >>,
       reader |-> L, idle |-> <<>>],
      [main    |-> << <<"create", "creator">> >> \o between \o
                   << <<"create", "reader">>, <<"exit">> >>,
       creator |-> L \o << <<"create", "idle">> >>, reader |-> L, idle |-> <<>>]} :
       between \in {S \o F \o E, A \o A, L}}

\* A thread that a creation overtakes knows of what its creator did since,
\* and who joins it learns that: here while a window is open.
OvertakingInside ==
  {[main    |-> << <<"create", "creator">> >> \o S \o << <<"join", 2>> >> \o F \o E,
    creator |-> << <<"create", "idle">> >> \o access \o << <<"create", "idle">> >>,
    idle    |-> <<>>] : access \in {L, In(L)}}

\* A lock taken so often that a timestamp comes again while a window is open.
Wrapping ==
  {[main   |-> << <<"create", "worker">> >> \o In(L),
    worker |-> In(S) \o In(F) \o In(E)]}

AllApplications ==
  {no_race, simple_race, two_bugs, no_sync, adq_rel, n_threads_init}
    \cup OneWorker \cup TwoWorkers \cup Overtaking
    \cup OvertakingInside \cup Wrapping

ThreadsInit == {n_threads_init}

\* What the usage text of n_threads_init says (n_threads_init.c:110), n being
\* the number of its initialising threads, here 2, and irh the tool's knob,
\* here N: "If n >= irh then no bug should be reported".
SilentWhenManyInitialise ==
  analysed /\ app = n_threads_init /\ 2 >= N => verdict = {}

Handles == Permutations(Pthread \ {MainPthread})
=============================================================================
