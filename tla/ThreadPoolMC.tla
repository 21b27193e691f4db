---------------------------- MODULE ThreadPoolMC ----------------------------
(* Small instances of ThreadPool for TLC. *)
EXTENDS ThreadPool

CONSTANTS w1, w2, s1, s2, a1, c1, t1, t2, t3

TwoWorkers    == {w1, w2}
TwoSubmitters == {s1, s2}
OneWaiter     == {a1}
OneCloser     == {c1}
Everybody     == {w1, w2, a1}
ThreeTasks    == {t1, t2, t3}
LimitsUpTo2   == {1, 2}
=============================================================================
