---------------------------- MODULE MCCronStore ----------------------------
(* Constants for the CronStore runs: three one-shot wakes of two targets, a  *)
(* heartbeat, two writer threads.                                            *)
EXTENDS CronStore

CONSTANTS w1, w2, j1, j2, j3, b1, k1, k2, none

MCWriters == {w1, w2}
MCOneWriter == {w1}
MCWakes == {j1, j2, j3}
MCTwoWakes == {j1, j2}
MCBeats == {b1}
MCKeys == {k1, k2}
MCKeyOf == [j \in Wakes |-> IF j = j3 THEN k2 ELSE k1]
=============================================================================
