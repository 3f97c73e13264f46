-------------------------- MODULE MCSuccessHooks --------------------------
(* An instance of SuccessHooks: two threads, results whose metric is one    *)
(* of three numbers (the step of one is within MinDelta, the step of two is *)
(* not), a text, or not there.                                              *)
EXTENDS SuccessHooks

Metrics3 == {<<"number", 0>>, <<"number", 1>>, <<"number", 2>>, <<"text", "">>, <<"absent", "">>}
=============================================================================
