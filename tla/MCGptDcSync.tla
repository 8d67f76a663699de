----------------------------- MODULE MCGptDcSync -----------------------------
(* GptDcSync with the code's 2 ms cycle of 800000 counts (2.5 ns each) and *)
(* clocks that run 15 ppm too slow and 50 ppm too fast, in half            *)
(* nanoseconds per cycle.                                                  *)
EXTENDS GptDcSync

MCDrifts == {-60, 200}
=============================================================================
