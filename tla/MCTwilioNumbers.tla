--------------------------- MODULE MCTwilioNumbers ---------------------------
(* A row searched by region, a row searched as a whole country, and a number *)
(* that the provider offers for both.                                        *)
EXTENDS TwilioNumbers, TLC

RowCells == ("usLocal" :> <<"S1", "S2">>) @@ ("deMobile" :> <<"">>)
RowStock == ("usLocal" :> {"n1"}) @@ ("deMobile" :> {"n1", "n2"})
===============================================================================
