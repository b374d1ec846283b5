--------------------------- MODULE MCReliability ---------------------------
(***************************************************************************)
(* Reliability on three addresses, with whole units of two and a cap that  *)
(* is met.                                                                 *)
(***************************************************************************)
EXTENDS Reliability

CONSTANTS z, a, b

MCAddr == {z, a, b}
MCContracts == {"EternalStorage", "ManageStorage", "HolonusCoinService"}
MCRestricted == {"EternalStorage", "ManageStorage"}
\* Two accounts that evaluate each other, one of them itself, and the zero
\* address as an evaluator.
MCEvaluations == {<<a, b>>, <<b, a>>, <<b, b>>, <<z, a>>}
\* An account that evaluates two others, one of which evaluates it.
MCFanOut == {<<a, b>>, <<b, a>>, <<b, z>>}
MCTrusts == {-1, 0, 1}
=============================================================================
