---------------------------- MODULE MCGnssConfig ----------------------------
(* One constellation that can be disabled, with two satellites.            *)
EXTENDS Settings

MCConstellations  == {"glonass"}
MCSatellites      == {"g1", "g2"}
MCConstellationOf == [s \in MCSatellites |-> "glonass"]
MCSvIdConfigs     == {{}, {"g1"}}
MCLockConfigs     == {{}, {"MO", "NI"}}

MCSvTypeConfigs ==
  {[enabled |-> {"glonass"}, blacklisted |-> {}],
   [enabled |-> {}, blacklisted |-> {"glonass"}]}

World(s, f, i, settings) ==
  [supported |-> s, framework |-> f, integration |-> i, settings |-> settings]

(* Either framework on an engine with the feature, and the integration     *)
(* interface on one without it: the satellites.  Then the other settings,  *)
(* on engines with and without the features.                               *)
MCWorlds ==
  {World(TRUE, "P", FALSE, {}), World(TRUE, "Q", FALSE, {}),
   World(FALSE, "Q", TRUE, {})}
  \cup {World(f, "Q", FALSE, {k}) : f \in BOOLEAN,
                                    k \in {"values", "asks", "corrections", "injections"}}

MCValues == {"on", "off"}

=============================================================================
