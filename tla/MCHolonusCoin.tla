--------------------------- MODULE MCHolonusCoin ---------------------------
(***************************************************************************)
(* The composed coin service, with a reliability that passes the cap.      *)
(***************************************************************************)
EXTENDS HolonusCoin

CONSTANTS z, a, b

MCAddr == {z, a, b}
MCContracts == {"EternalStorage", "ManageStorage", "TokenERC20", "HolonusCoinService"}
MCRestricted == {"EternalStorage", "ManageStorage"}
MCEvaluations == {<<a, b>>, <<b, a>>}
=============================================================================
