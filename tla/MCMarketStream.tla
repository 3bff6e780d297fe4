--------------------------- MODULE MCMarketStream ---------------------------
(* A keyed socket, the gateway, a poller and the demo, for one symbol.      *)
EXTENDS MarketStream

CONSTANTS polygon, ibkr, yahoo, demo, SPY

MCPriority == <<polygon, ibkr, yahoo, demo>>
MCSelections ==
  {<<yahoo, polygon>>, <<polygon, yahoo>>, <<polygon, yahoo, demo>>, <<ibkr, yahoo>>}
MCEnvironments ==
  {[p \in {polygon, ibkr} |-> "none"],
   [p \in {polygon, ibkr} |-> IF p = polygon THEN "key" ELSE "session"]}
MCSupports == [p \in {polygon, ibkr, yahoo, demo} |-> {SPY}]
=============================================================================
