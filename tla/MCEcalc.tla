------------------------------- MODULE MCEcalc -------------------------------
(***************************************************************************)
(* Instance of Ecalc for TLC: the inputs of its parts.                      *)
(***************************************************************************)
EXTENDS Ecalc, EnergyModelInputs, ConsumerInputs, ReportingInputs

=============================================================================
