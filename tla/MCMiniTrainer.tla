---------------------------- MODULE MCMiniTrainer ----------------------------
(* Three operating units: an arithmetic one (linear regression only), one  *)
(* with a modeling transformer and one without; two methods; test errors   *)
(* 0, 1 and 2 in units where 2 stands for 1.0.                             *)
EXTENDS MiniTrainer

CONSTANTS Add, Scan, Sort

MCOpunits == {Add, Scan, Sort}
MCArithmetic == {Add}
MCTransformed == {Scan}
MCMLModels == <<"lr", "rf">>
MCErrors == 0..2

=============================================================================
