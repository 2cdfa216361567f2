-------------------------- MODULE MCProviderFetch --------------------------
EXTENDS ProviderFetch

\* Lists: none; one scope that fits a page; pages that are full; a list that
\* Novofon must read by category, with and without a category it cannot name.
Lists ==
  { <<<<>>, <<>>, <<>>, <<>>>>,
    <<<<11>>, <<>>, <<31>>, <<>>>>,
    <<<<11, 12>>, <<21>>, <<>>, <<41>>>>,
    <<<<11, 12, 13>>, <<21, 22, 23>>, <<>>, <<>>>> }
\* Three kinds of REG numbers, and ranges of two numbers.
Regs ==
  { <<<<60, 62>>, <<>>, <<61>>, <<30, 31, 32>>>>,
    <<<<60, 70, 62>>, <<61>>, <<>>, <<30, 31>>>> }
TheStocks == [a \in FanOut \cup Sequential |-> IF a = "finenumbers" THEN Regs ELSE Lists]
TheShops == {<<>>, <<{11, 51}, {52}>>, <<{51}, {51}>>}
TheLate == <<63, 29, 66, 33>>

ASSUME PagesAssumption == PagesSuffice
=============================================================================
