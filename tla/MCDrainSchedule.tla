-------------------------- MODULE MCDrainSchedule -------------------------
(***************************************************************************)
(* Calls for model checking: operations that fail before, between and after *)
(* one that can succeed.                                                    *)
(***************************************************************************)
EXTENDS DrainSchedule

MCCalls == {<<FALSE, FALSE, TRUE>>, <<TRUE, FALSE, TRUE>>}
=============================================================================
