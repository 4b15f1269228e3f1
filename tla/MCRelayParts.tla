---------------------------- MODULE MCRelayParts ----------------------------
(* The parts of the relay that share nothing with one another, each by       *)
(* itself: "part" says which one moves.                                       *)
EXTENDS RelayClock, BalanceMonitor, RootCacheUse, RootEncoding

CONSTANTS r1, r2, r3, r4

VARIABLE part

Roots == {r1, r2, r3, r4}
Schedule == <<1, 2>>
Balances == {1, 2}
GasPrices == {1}

MCInit ==
  /\ part \in {"clock", "monitor", "cache", "encoding"}
  /\ ClockInit
  /\ MonitorInit
  /\ EncodingInit
  /\ CacheInit

MCNext ==
  /\ UNCHANGED part
  /\ \/ part = "clock" /\ ClockNext /\ UNCHANGED <<monitorVars, cacheVars, root>>
     \/ part = "monitor" /\ MonitorNext /\ UNCHANGED <<clockVars, cacheVars, root>>
     \/ part = "cache" /\ UsesCache /\ UNCHANGED <<clockVars, monitorVars, root>>
     \/ part = "encoding" /\ NewRoot /\ UNCHANGED <<clockVars, monitorVars, cacheVars>>

MCSpec == MCInit /\ [][MCNext]_<<part, clockVars, monitorVars, cacheVars, root>>
=============================================================================
