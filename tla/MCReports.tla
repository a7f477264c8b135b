----------------------------- MODULE MCReports -----------------------------
EXTENDS Reports

MCClients == {"app", "flp"}
MCWorlds == {"paced", "marks", "hub", "leap", "modem", "debug", "levels"}
MCCallbackSets == {{"gnssSv", "gnssNmea", "gnssLocationInfo", "locationSystemInfo"},
                   {"tracking"}, {"engineLocations", "gnssNmea", "gnssSv"}}

Fix == [flags |-> {"LAT_LONG", "ALTITUDE", "BEARING", "GPS_TIME", "TECH", "SV_USED"},
        used |-> [NoneUsed EXCEPT !["GPS"] = {3, 5}, !["GLONASS"] = {1}],
        mb |-> {}, nav |-> {}, tech |-> {"SATELLITE"}, utc |-> 0, gps |-> 0,
        body |-> {}, eng |-> "SPE", mask |-> {}, status |-> "SUCCESS", marks |-> {}, place |-> 1]
MultiBand == [Fix EXCEPT !.flags = @ \cup {"MULTIBAND", "DOP", "NAV"}, !.nav = {"SBAS_IONO"},
                         !.mb = {<<"GPS_L1CA", 3>>, <<"GPS_L5", 5>>, <<"GLONASS_G1", 1>>}]
Crowded == [Fix EXCEPT !.used = [NoneUsed EXCEPT !["GPS"] = 1..13, !["NAVIC"] = {2}],
                       !.marks = {"data"}]
Lone == [Fix EXCEPT !.used = [NoneUsed EXCEPT !["BEIDOU"] = {5, 8}]]
NavicOnly == [Fix EXCEPT !.used = [NoneUsed EXCEPT !["NAVIC"] = {2}]]
Coarse == [Fix EXCEPT !.flags = {"LAT_LONG", "TECH", "ACCURACY"}, !.used = NoneUsed,
                      !.tech = {"WIFI"}, !.status = "INTERMEDIATE"]
Failed == [Fix EXCEPT !.flags = {"GPS_TIME"}, !.used = NoneUsed, !.tech = {},
                      !.status = "FAILURE", !.marks = {"blank"}]
AtOrigin == [Fix EXCEPT !.place = Origin]
Raw == [Fix EXCEPT !.marks = {"unpropagated"}]
FusedFix == [Fix EXCEPT !.eng = "FUSED", !.tech = {"SATELLITE", "SENSORS"},
                        !.mask = {"DEAD_RECKONING"},
                        !.flags = @ \cup {"OUTPUT_ENG_TYPE", "OUTPUT_ENG_MASK"}]
PreciseFix == [Fix EXCEPT !.eng = "PPE", !.flags = @ \cup {"OUTPUT_ENG_TYPE"}]
MCFixes == [w \in MCWorlds |->
  CASE w = "paced" -> {Fix, Lone}
    [] w = "leap" -> {Fix, NavicOnly, Coarse, Failed}
    [] w = "debug" -> {Fix, AtOrigin}
    [] w = "levels" -> {Crowded}
    [] OTHER -> {Fix, MultiBand, Crowded, Coarse, Failed, Raw}]
MCEngineFixes == {<<FusedFix>>, <<FusedFix, PreciseFix>>, <<PreciseFix>>}

Sv(type, id, sig) == [type |-> type, id |-> id, sig |-> sig, used |-> FALSE]
Came(sv) == [sv EXCEPT !.used = TRUE]
MCSvReports ==
  {<<Sv("GPS", 3, "GPS_L1CA"), Sv("GPS", 3, "GPS_L5"), Sv("GPS", 5, "none"),
     Sv("GLONASS", 65, "GLONASS_G1"), Sv("GLONASS", 255, "GLONASS_G1"),
     Sv("SBAS", 120, "SBAS_L1"), Sv("GPS", 5, "GPS_L1CA"), Sv("NAVIC", 402, "NAVIC_L5")>>,
   <<Sv("GPS", 5, "GPS_L1C"), Sv("BEIDOU", 205, "BEIDOU_B2AQ")>>,
   <<Came(Sv("GPS", 3, "GPS_L1CA")), Came(Sv("GPS", 9, "GPS_L1CA")), Sv("GPS", 5, "GPS_L1CA"),
     Came(Sv("SBAS", 120, "SBAS_L1")), Sv("GPS", 7, "GPS_L5"), Sv("BEIDOU", 205, "BEIDOU_B2AQ")>>}

MCInfos == {[current |-> 18, change |-> NoChange],
            [current |-> Absent, change |-> [at |-> 1000, before |-> 18, after |-> 19]]}

Plain == [hub |-> FALSE, ap |-> TRUE, paced |-> FALSE, intermediate |-> FALSE,
          allowFlp |-> FALSE, pace |-> FALSE, dgnss |-> FALSE, custom |-> FALSE,
          grouped |-> FALSE, datum |-> "W84", leverArm |-> {},
          begun |-> {}, startTow |-> 0, steps |-> {0}]
MCOptions == [paced |-> [Plain EXCEPT !.paced = TRUE],
              marks |-> [Plain EXCEPT !.intermediate = TRUE, !.grouped = TRUE],
              hub |-> [Plain EXCEPT !.hub = TRUE, !.pace = TRUE, !.custom = TRUE,
                                    !.leverArm = {"GNSS_TO_VRP"}],
              leap |-> [Plain EXCEPT !.datum = "P90"],
              modem |-> [Plain EXCEPT !.ap = FALSE, !.dgnss = TRUE, !.allowFlp = TRUE],
              debug |-> [Plain EXCEPT !.ap = FALSE, !.begun = {"tracking"}],
              levels |-> [Plain EXCEPT !.ap = FALSE, !.startTow = 17, !.steps = {0, 3},
                                       !.begun = {"gnssData", "gnssMeasurements"}]]
Levels(n) == [b \in Bands |-> IF b = "GALILEO" THEN InvalidLevel ELSE n]
M1(n, valid) == [tow |-> 0, valid |-> valid, unc |-> 1, uncNs |-> 5, leapUnc |-> 0,
                 leap |-> 18, xo |-> n, err |-> n - 1, levels |-> Levels(n),
                 jammers |-> Levels(n + 2)]
Masks(bits) == [c \in ReportedTypes |-> bits]
MCSvNum == [c \in ReportedTypes |-> IF c = "GPS" THEN 2 ELSE 1]
Nav(n) == [c \in ReportedTypes |-> 
  [i \in 1 .. MCSvNum[c] |-> n + i + 10 * CHOOSE k \in DOMAIN SvOrder : SvOrder[k] = c]]
MCContents ==
  [PQWM1 |-> {M1(1, TRUE), M1(2, TRUE)}, PQWP1 |-> {1}, PQWP2 |-> {Origin, 3},
   PQWP3 |-> {[valid |-> Masks({1}), age |-> [c \in ReportedTypes |-> 7]]},
   PQWP4 |-> {{1}}, PQWP5 |-> {[good |-> Masks({1}), bad |-> Masks({0})],
                               [good |-> Masks({1}), bad |-> Masks({})]},
   PQWP6 |-> {1}, PQWP7 |-> {Nav(1), Nav(2)}, PQWS1 |-> {1}]
Debug(tag, size) == {[tag |-> tag, size |-> size, content |-> x, at |-> 0] : x \in MCContents[tag]}
One(tag, size) == {CHOOSE s \in Debug(tag, size) : TRUE}
StatusLines ==
  UNION {One(tag, "full") : tag \in Tags} \cup Debug("PQWP2", "full") \cup Debug("PQWP5", "full")
  \cup One("PQWP7", "legacy") \cup One("PQWM1", "short")
  \cup One("PQWP2", "short") \cup One("PQWP5", "short")
MCDebugLines == [w \in MCWorlds |->
  CASE w = "debug" -> StatusLines
    [] w = "levels" -> Debug("PQWM1", "full") \cup One("PQWM1", "short") \cup One("PQWM1", "legacy")
    [] OTHER -> {}]
MCKinds == [paced |-> {"position", "add", "start", "stop"},
            marks |-> {"position", "sv", "add", "start"},
            hub |-> {"position", "enginePositions", "sv", "add", "start", "hubOnly"},
            leap |-> {"position", "info", "add", "remove", "start"},
            modem |-> {"position", "nmea", "data", "measurements", "add", "start"},
            debug |-> {"position", "debug", "delete"},
            levels |-> {"position", "debug", "data", "measurements", "delete"}]
MCMaxReports == [paced |-> 7, marks |-> 5, hub |-> 5, leap |-> 7, modem |-> 5,
                 debug |-> 4, levels |-> 4]

Spec == ReportsInit /\ [][ReportsNext]_reportVars
=============================================================================
