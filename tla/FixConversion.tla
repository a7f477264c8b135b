---------------------------- MODULE FixConversion ----------------------------
(***************************************************************************)
(* How GnssAdapter turns what the engine reports into what a client reads: *)
(* a fix into a location and its details, a list of satellites into the    *)
(* masks of a blacklist and back. A mask is the set of its bits. A fix is  *)
(* a record as in Nmea, with flags named as in gps_extended_c.h less       *)
(* their prefix, and body, eng and mask besides; a value measured is left  *)
(* out, a client knows it by its flag.                                     *)
(***************************************************************************)
EXTENDS Integers, FiniteSets, Sequences, SequencesExt, Nmea

\* convertLocation: the flags and the technologies of a client's Location.
LocationFlags == {"LAT_LONG", "ALTITUDE", "SPEED", "BEARING", "ACCURACY",
                  "VERT_UNC", "SPEED_UNC", "BEARING_UNC", "CONFORMITY_INDEX",
                  "SPOOF_MASK", "ELAPSED_REAL_TIME"}
LocationTechs == {"SATELLITE", "CELLID", "WIFI", "SENSORS", "REFERENCE_LOCATION",
                  "INJECTED_COARSE_POSITION", "AFLT", "HYBRID", "PPE", "VEH", "VIS"}
ConvertLocation(fix) ==
  [flags |-> fix.flags \cap LocationFlags,
   tech |-> (fix.tech \cap LocationTechs)
            \cup (IF "DGNSS" \in fix.nav THEN {"DGNSS"} ELSE {})]

----------------------------------------------------------------------------
\* convertLocationInfo: getNumSvUsed counts as loc_nmea does.
NumSvUsed(fix) == TotalUsed(fix.used)

DopFlags(flags) == CASE "EXT_DOP" \in flags -> {"DOP", "EXT_DOP"}
                     [] "DOP" \in flags -> {"DOP"}
                     [] OTHER -> {}

\* The details that keep their name.
AccuracyFlags == {"MEAN_SEA_LEVEL", "MAG_DEV", "HOR_RELIABILITY", "VERT_RELIABILITY",
                  "HOR_ELIP_UNC_MAJOR", "HOR_ELIP_UNC_MINOR", "HOR_ELIP_UNC_AZIMUTH",
                  "NORTH_STD_DEV", "EAST_STD_DEV"}
VelocityFlags == {"NORTH_VEL", "NORTH_VEL_UNC", "EAST_VEL", "EAST_VEL_UNC",
                  "UP_VEL", "UP_VEL_UNC"}
SolutionFlags == {"LEAP_SECONDS", "TIME_UNC", "CALIBRATION_CONFIDENCE",
                  "CALIBRATION_STATUS", "OUTPUT_ENG_TYPE", "OUTPUT_ENG_MASK",
                  "CONFORMITY_INDEX", "LLA_VRP_BASED", "ENU_VELOCITY_LLA_VRP_BASED",
                  "DR_SOLUTION_STATUS_MASK", "ALTITUDE_ASSUMED"}
\* The satellites used come with their number.
SvUsedFlags(flags) == IF "SV_USED" \in flags THEN {"SV_USED", "NUM_SV_USED"} ELSE {}

\* The body frame data is announced with the engine's flag for it (bit 16),
\* which is the clients' flag of an east velocity; its bits are copied.
BodyFrameBits == {"LONG_ACCEL", "LAT_ACCEL", "VERT_ACCEL", "YAW_RATE", "PITCH",
                  "LONG_ACCEL_UNC", "LAT_ACCEL_UNC", "VERT_ACCEL_UNC", "YAW_RATE_UNC",
                  "PITCH_UNC", "PITCH_RATE", "PITCH_RATE_UNC", "ROLL", "ROLL_UNC",
                  "ROLL_RATE", "ROLL_RATE_UNC", "YAW", "YAW_UNC"}
BodyFrameFlags(flags) == IF "POS_DYNAMICS_DATA" \in flags THEN {"EAST_VEL"} ELSE {}
BodyFrame(fix) == IF "POS_DYNAMICS_DATA" \in fix.flags
                  THEN fix.body \cap BodyFrameBits ELSE {}

ConvertLocationInfo(fix) ==
  [flags |-> (fix.flags \cap (AccuracyFlags \cup VelocityFlags \cup SolutionFlags
                                \cup {"NAV"}))
             \cup DopFlags(fix.flags) \cup SvUsedFlags(fix.flags)
             \cup BodyFrameFlags(fix.flags) \cup {"SESSION_STATUS"},
   used |-> IF "SV_USED" \in fix.flags THEN fix.used ELSE NoneUsed,
   count |-> IF "SV_USED" \in fix.flags THEN NumSvUsed(fix) ELSE 0,
   body |-> BodyFrame(fix), eng |-> fix.eng, location |-> ConvertLocation(fix)]

\* computeVRPBasedLla, for a fix of the standard positioning engine
WithVrp(fix, leverArm) ==
  IF /\ "OUTPUT_ENG_TYPE" \in fix.flags /\ fix.eng = "SPE"
     /\ "GNSS_TO_VRP" \in leverArm
     /\ {"LAT_LONG", "ALTITUDE", "BEARING"} \subseteq fix.flags
  THEN [fix EXCEPT !.flags = @ \cup {"LLA_VRP_BASED"}] ELSE fix

----------------------------------------------------------------------------
\* The blacklist: satellites are <<constellation, id>>, id 0 means all.
AllBits == 0..63
InitialSvId == [GLONASS |-> 65, BEIDOU |-> 201, QZSS |-> 193, GALILEO |-> 301,
                SBAS |-> 120, NAVIC |-> 401]
Listed == DOMAIN InitialSvId
SbasLength == 39            \* ids 120 to 158, bits 0 to 38
SbasInitial2 == 183         \* ids 183 to 191, bits 39 to 47

\* The bits of a mask one source sets; a shift by 64 and more is undefined,
\* the processors this runs on take it modulo 64.
BitsOf(source) ==
  LET c == source[1]  id == source[2]
      second == c = "SBAS" /\ id >= SbasInitial2
      initial == IF second THEN SbasInitial2 ELSE InitialSvId[c]
      beyond == IF c = "SBAS" /\ ~second THEN SbasLength ELSE 64
  IN  CASE c \notin Listed -> {}
        [] c \in Listed /\ id = 0 -> AllBits
        [] OTHER -> IF id < initial \/ id >= initial + beyond THEN {}
                    ELSE {(id - initial + (IF second THEN SbasLength ELSE 0)) % 64}

\* convertToGnssSvIdConfig: all replaces what was there, the rest is added.
ConvertToSvIdConfig(sources) ==
  [c \in Listed |-> UNION {BitsOf(s) : s \in {x \in sources : x[1] = c}}]
\* its result: an empty list clears, another must name a satellite
IsValidBlacklist(sources) ==
  sources = {} \/ \E c \in Listed : ConvertToSvIdConfig(sources)[c] # {}

\* convertGnssSvIdMaskToList
MaskToList(mask, initial, c) ==
  IF mask = AllBits THEN {<<c, 0>>} ELSE {<<c, b + initial>> : b \in mask}

\* convertFromGnssSvIdConfig: the two ranges of SBAS are listed one by one.
ConvertFromSvIdConfig(config) ==
  (UNION {MaskToList(config[c], InitialSvId[c], c) : c \in Listed \ {"SBAS"}})
  \cup MaskToList({b \in config["SBAS"] : b < SbasLength}, InitialSvId["SBAS"], "SBAS")
  \cup MaskToList({b - SbasLength : b \in {x \in config["SBAS"] : x >= SbasLength}},
                  SbasInitial2, "SBAS")

\* What a client blacklists is what it reads back, as long as its ids are those
\* the constellation has: of two satellites, valid or not, exactly the valid ones
\* come back, and the setting is refused if none is. SBAS ids from 208 on are
\* taken for others, and all of SBAS comes back as two lists.
Marginal(c) ==
  LET first == InitialSvId[c]
      last == IF c = "SBAS" THEN first + SbasLength - 1 ELSE first + 63
      more == IF c = "SBAS" THEN {SbasInitial2 - 1, SbasInitial2, 191} ELSE {}
  IN  {<<c, id>> : id \in {first - 1, first, first + 1, last, last + 1} \cup more}
Valid(s) == BitsOf(s) # {}
ASSUME BlacklistRoundTrips ==
  \A c, d \in Listed : \A s \in Marginal(c), t \in Marginal(d) :
    /\ ConvertFromSvIdConfig(ConvertToSvIdConfig({s, t})) = {x \in {s, t} : Valid(x)}
    /\ IsValidBlacklist({s, t}) <=> Valid(s) \/ Valid(t)
    /\ c # "SBAS" => ConvertFromSvIdConfig(ConvertToSvIdConfig({<<c, 0>>})) = {<<c, 0>>}
=============================================================================
