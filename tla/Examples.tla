------------------------------ MODULE Examples ------------------------------
(***************************************************************************)
(* The applications of src/examples as HawkSet sees them: what each        *)
(* routine does to persistent memory, locks and threads.  An int of        *)
(* persistent memory is a byte, printf of one is a load.                   *)
(***************************************************************************)
EXTENDS Sequences

\* flush(addr, size); fence();
Persist(b) == << <<"flush", b>>, <<"fence">> >>

Locked(l, operations) == << <<"lock", l>> >> \o operations \o << <<"unlock", l>> >>

no_race ==
  [main        |-> << <<"create", "write_value">> >> \o
                   Locked("lock", << <<"load", 0>> >>) \o << <<"join", 1>> >>,
   write_value |-> Locked("lock", << <<"store", 0>> >> \o Persist(0))]

\* The store is made persistent after the lock has been released.
simple_race ==
  [main        |-> << <<"store", 0>>, <<"create", "write_value">> >> \o
                   Locked("lock", << <<"load", 0>> >>) \o << <<"join", 1>> >>,
   write_value |-> Locked("lock", << <<"store", 0>> >>) \o Persist(0)]

\* Fenced after the lock has been released; main joins the second thread only.
two_bugs ==
  [main          |-> << <<"create", "write_value">>,
                        <<"create", "write_value_2">> >> \o
                     Locked("lock", << <<"load", 0>> >>) \o << <<"join", 2>> >>,
   write_value   |-> Locked("lock", << <<"store", 0>>, <<"flush", 0>> >>) \o
                     << <<"fence">> >>,
   write_value_2 |-> Locked("lock", << <<"store", 0>>, <<"flush", 0>> >>) \o
                     << <<"fence">> >>]

no_sync ==
  [main        |-> << <<"create", "write_value">>, <<"load", 0>>, <<"join", 1>> >>,
   write_value |-> << <<"store", 0>> >> \o Persist(0)]

\* adq_rel without a configuration that names its two routines.
adq_rel ==
  [main        |-> << <<"create", "write_value">>, <<"create", "read_value">>,
                      <<"join", 1>>, <<"join", 2>> >>,
   write_value |-> << <<"store", 0>> >> \o Persist(0),
   read_value  |-> << <<"load", 0>> >>]

\* With 2 for its argument: two threads initialise, main and the one that
\* publishes the pointer.
n_threads_init ==
  [main        |-> << <<"store", 0>> >> \o Persist(0) \o
                   << <<"create", "initialize">>, <<"await">>,
                      <<"create", "read_global">>, <<"join", 2>>, <<"join", 1>> >>,
   initialize  |-> Locked("init_lock",
                     << <<"load", 0>>, <<"store", 0>> >> \o Persist(0) \o
                     << <<"load", 0>>, <<"publish">> >>),
   read_global |-> Locked("lock", << <<"load", 0>> >>)]
=============================================================================
