---------------------------- MODULE MCHeaderPool ----------------------------
(* Three headers, in and out of sequence, between two workers. *)
EXTENDS HeaderPool

\* Headers that follow each other, one that used too much gas, one too long.
SomeHeaders ==
    {[time |-> t, gasUsed |-> 1, gasLimit |-> 1, height |-> t, extra |-> 0] : t \in 1..3}
    \cup {[time |-> 3, gasUsed |-> 2, gasLimit |-> 1, height |-> 3, extra |-> 0],
          [time |-> 2, gasUsed |-> 1, gasLimit |-> 1, height |-> 2, extra |-> 1],
          [time |-> 3, gasUsed |-> 1, gasLimit |-> 1, height |-> 1, extra |-> 0]}
=============================================================================
