----------------------------- MODULE MCReactor -----------------------------
(* Two sleepers with delays 0..2 on a 3 ms clock (a later timer pushed    *)
(* behind an earlier one, an earlier one pushed while the loop waits) and *)
(* one keep-alive reader with two requests (the second registration hits *)
(* EEXIST on epoll).                                                       *)
EXTENDS Reactor

CONSTANTS s1, s2, r1, wakefd

MCSleepers == {s1, s2}
MCReaders == {r1}
MCDelays == {0, 2}
=============================================================================
