--------------------------- MODULE MCPlateInputs ---------------------------
(* Two models and two paints: both files may be painted, the limits may    *)
(* not hold all of it.                                                     *)
EXTENDS PlateInputs, TLC

CONSTANTS Small, Big

MCModels == <<Small, Big>>

MCSize == Small :> 1 @@ Big :> 2
===========================================================================
