----------------------------- MODULE MCChannel -----------------------------
(* Two senders of two values each, two receivers, capacity 0 or 1.        *)
EXTENDS Channel

CONSTANTS s1, s2, r1, r2

MCSenders == {s1, s2}
MCReceivers == {r1, r2}
=============================================================================
