----------------------------- MODULE MCProject ------------------------------
(* Constants for the Project run: two callers, four events, one of them      *)
(* with a line separator in its payload.                                     *)
EXTENDS Project

CONSTANTS w1, w2, e1, e2, e3, e4, none

MCWriters == {w1, w2}
MCEvents == {e1, e2, e3, e4}
MCOdd == {e1}
=============================================================================
