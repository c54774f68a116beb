----------------------------- MODULE MCDispatch -----------------------------
(* Small plans for TLC: two providers, the first with enough items to fill  *)
(* the semaphore and to meet its cap, all of them together to meet the      *)
(* global cap.                                                              *)
EXTENDS Dispatch

CONSTANTS openai, google

MCProviders == {openai, google}
MCProviderOf == <<openai, openai, google, openai>>
MCEst == <<2, 1, 1, 1>>
MCActualCosts == {1, 2}
MCProviderCap == [p \in MCProviders |-> IF p = openai THEN 2 ELSE 1]

\* No answer costs more than its estimate: what overspends is the interleaving.
MCUnitEst == <<1, 1, 1, 1>>
MCUnitCosts == {1}
=============================================================================
