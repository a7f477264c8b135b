------------------------------ MODULE MCLocApi ------------------------------
EXTENDS Odcpi

MCAdapters == [gnss |-> {"requestATL", "requestOdcpi"}, geofence |-> {},
               batching |-> {"requestATL"}]
MCGnss == "gnss"
MCMasks == {{"POSITION"}, {"NMEA", "MEASUREMENT"}}
MCExcluded == {"MEASUREMENT"}
MCCalls == {"startFix", "setConstellationControl", "injectPosition",
            "addGeofence", "setServerSync", "convertLppeCp",
            "setEmergencyExtensionWindowSync"}
MCEvents == {"reportPosition", "requestATL", "requestXtraData"}
MCMaxEvents == [masks |-> 5, calls |-> 4, nolib |-> 3, dispatch |-> 5,
                leaving |-> 4, failing |-> 4, odcpi |-> 6]
MCWorlds == DOMAIN MCMaxEvents
=============================================================================
