--------------------------- MODULE MCProviderSync ----------------------------
(* ProviderSync on small instances: three providers, two numbers. *)
EXTENDS ProviderSync

CONSTANTS pFull, pFree, pReg, k1, k2

MCShape == [p \in Providers |-> CASE p = pFull -> "full"
                                  [] p = pReg -> "reg"
                                  [] OTHER -> "freeonly"]
MCSlices == {s \in Providers \X Kinds : s[2] = "free" \/ MCShape[s[1]] \in Two}
MCRawSlices == {s \in MCSlices : MCShape[s[1]] # "reg"}

\* Nothing; a row that did not map; one number twice; two numbers.
MCFetches == {<<>>, <<<<NoKey, 1>>>>, <<<<k1, 1>>, <<k1, 2>>>>,
              <<<<k1, 1>>, <<k2, 1>>, <<k2, 2>>>>}
=============================================================================
