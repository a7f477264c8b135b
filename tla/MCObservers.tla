---------------------------- MODULE MCObservers ----------------------------
EXTENDS XtraObserver

MCNetworks == {"m1", "m2", "w1"}
MCTypeOfNet == [n \in MCNetworks |-> IF n = "w1" THEN "wifi" ELSE "mobile"]
MCItemLists == {{"network"}, {"network", "tac"}}
MCMaxEvents == [clients |-> 4, updates |-> 3, networks |-> 4, daemon |-> 4,
                source |-> 7, restless |-> 4]
MCWorlds == DOMAIN MCMaxEvents
MCLocks == {{}, {"MO", "NI"}}
MCParams == {[host |-> "h1", nmea |-> TRUE], [host |-> "h2", nmea |-> FALSE]}
=============================================================================
