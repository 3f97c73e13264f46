-------------------------- MODULE MCRunAdmission --------------------------
(* Instances of RunAdmission: an empty submission, one of two tasks and one *)
(* that repeats a key.  Of the actors one is on the allow-list and one is   *)
(* not; of the launchers one needs an approval and one skips it.            *)
EXTENDS RunAdmission

Submissions == {<<>>, <<1, 2>>, <<1, 2, 1>>}
=============================================================================
