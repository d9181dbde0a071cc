----------------------------- MODULE MCInOrder -----------------------------
(* Four workers that draw seven tickets between them: three queue behind   *)
(* the one inside, and whoever has left comes again behind them.           *)
EXTENDS InOrder

MCLast == 7
=============================================================================
