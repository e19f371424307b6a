------------------------------ MODULE MCKitchen ------------------------------
(* Instances of Kitchen for TLC.                                           *)
EXTENDS Kitchen

NobodySignalled == {}
ParentInterrupted == {"main"}
EaterInterrupted == {"consumer_Vegan"}
OneForkRefused == {"producer_Non_Vegan"}
=============================================================================
