-------------------------------- MODULE Nmea --------------------------------
(***************************************************************************)
(* The NMEA sentences the AP makes of a fix and of a satellite report      *)
(* (gps/utils/loc_nmea.cpp). A sentence is a record with the fields a      *)
(* reader can tell apart: its satellites, its mode letters, its time.      *)
(* A number printed from a measured value is left out, and with it the     *)
(* checksum; what is kept is whether the field is empty (has).             *)
(*                                                                         *)
(* A fix is a record: flags (what it has), used (the satellites used, as   *)
(* bit numbers of the mask of each constellation), nav and tech (the       *)
(* corrections and technologies that made it), utc, gps (its GPS time in   *)
(* milliseconds). A satellite is a record: type, id, sig, used.            *)
(***************************************************************************)
EXTENDS Integers, FiniteSets, FiniteSetsExt, Sequences, SequencesExt

CONSTANTS
  MaxTagCode    \* MAX_TAG_BLOCK_GROUP_CODE, 99999 in the code

ASSUME MaxTagCodeAssumption == MaxTagCode \in Nat \ {0, 1}

Constellations == {"GPS", "GLONASS", "GALILEO", "BEIDOU", "QZSS", "NAVIC"}
NoneUsed == [c \in Constellations |-> {}]

TalkerName == [GPS |-> "GP", GLONASS |-> "GL", GALILEO |-> "GA", BEIDOU |-> "GB",
               QZSS |-> "GQ", NAVIC |-> "GI", SBAS |-> "GP"]
PrnCount == [GPS |-> 32, GLONASS |-> 32, GALILEO |-> 36, BEIDOU |-> 63,
             QZSS |-> 5, NAVIC |-> 14]
SvIdOffset == [GPS |-> 0, GLONASS |-> 64, GALILEO |-> 300, BEIDOU |-> 200,
               QZSS |-> 192, NAVIC |-> 400]
SbasSvIdOffset == 87
GloSlotUnknown == 255
BlankId == 0               \* a satellite printed without its number

\* convert_signalType_to_signalId; 0 is SIGNAL_ID_ALL_SIGNALS.
SignalId(sig) ==
  CASE sig \in {"GPS_L1CA", "SBAS_L1", "GLONASS_G1", "GALILEO_E5A", "QZSS_L1CA",
                "BEIDOU_B1I", "NAVIC_L5"} -> 1
    [] sig \in {"GPS_L2", "QZSS_L2"} -> 6
    [] sig \in {"GPS_L5", "QZSS_L5"} -> 8
    [] sig \in {"GLONASS_G2", "BEIDOU_B1C"} -> 3
    [] sig = "GALILEO_E1" -> 7
    [] sig = "GALILEO_E5B" -> 2
    [] sig = "BEIDOU_B2I" -> 11
    [] sig \in {"BEIDOU_B2AI", "BEIDOU_B2AQ"} -> 5
    [] OTHER -> 0

DefaultSignal == [GPS |-> "GPS_L1CA", GLONASS |-> "GLONASS_G1",
                  GALILEO |-> "GALILEO_E1", QZSS |-> "QZSS_L1CA",
                  BEIDOU |-> "BEIDOU_B1I", SBAS |-> "SBAS_L1", NAVIC |-> "NAVIC_L5"]

----------------------------------------------------------------------------
\* What loc_nmea_sv_meta_init finds out about the satellites used.
CountUsed(used, c) == Cardinality({i \in used[c] : i <= PrnCount[c]})
TotalUsed(used) == MapThenSumSet(LAMBDA c : CountUsed(used, c), Constellations)
IsCombined(used) == Cardinality({c \in Constellations : used[c] # {}}) > 1
Talker(c, used) == IF IsCombined(used) THEN "GN" ELSE TalkerName[c]

FixType(used) == CASE TotalUsed(used) = 0 -> 1
                   [] TotalUsed(used) \in 1..3 -> 2
                   [] OTHER -> 3

Ascending(S) ==
  [i \in 1..Cardinality(S) |-> CHOOSE x \in S : Cardinality({y \in S : y < x}) = i - 1]

\* loc_nmea_generate_GSA: only GLONASS ids are printed with their offset.
PrintedIds(c, used) ==
  LET offset == IF c = "GLONASS" THEN SvIdOffset[c] ELSE 0
  IN  Ascending({b + offset : b \in used[c]})

\* Mutant: the last, partly filled sentence is forgotten.
FullSentences(n, each) == n \div each
SentencesFor(n, each) == (n + each - 1) \div each

Gsa(c, used, grouped, code) ==
  LET ids == PrintedIds(c, used)
      all == SentencesFor(Len(ids), 12)
      tagged == grouped /\ Len(ids) > 12
      \* the code is reset inside the loop over the sentences
      tag(n) == IF ~tagged THEN 0
                ELSE IF n > 1 /\ code = MaxTagCode THEN 1 ELSE code
  IN  [n \in 1..(IF grouped \/ all = 0 THEN all ELSE 1) |->
         [kind |-> "GSA", talker |-> Talker(c, used), tag |-> tag(n),
          fix |-> FixType(used), system |-> c,
          ids |-> SubSeq(ids, 12 * (n - 1) + 1,
                         IF 12 * n > Len(ids) THEN Len(ids) ELSE 12 * n)]]

CodeAfterGsa(c, used, grouped, code) ==
  IF ~grouped \/ Cardinality(used[c]) <= 12 THEN code
  ELSE IF code = MaxTagCode THEN 2 ELSE code + 1

EmptyGsa == [kind |-> "GSA", talker |-> "GP", tag |-> 0, fix |-> 1,
             system |-> "none", ids |-> <<>>]
GsaOrder == <<"GPS", "GLONASS", "GALILEO", "BEIDOU", "QZSS">>

\* The GSA sentences of all constellations, and the group code after them.
AllGsa(used, grouped, code) ==
  LET step(acc, c) ==
        [out |-> acc.out \o Gsa(c, used, grouped, acc.code),
         code |-> CodeAfterGsa(c, used, grouped, acc.code)]
      made == FoldLeft(step, [out |-> <<>>, code |-> code], GsaOrder)
  IN  IF made.out = <<>> THEN [made EXCEPT !.out = <<EmptyGsa>>] ELSE made

----------------------------------------------------------------------------
\* loc_nmea_get_fix_quality: the first row whose correction or technology
\* the fix has gives the quality digit of GGA and the letters of RMC and VTG.
NavRows == <<[of |-> "PPP",       gga |-> 2, rmc |-> "P", vtg |-> "P"],
             [of |-> "RTK_FIXED", gga |-> 4, rmc |-> "R", vtg |-> "D"],
             [of |-> "RTK",       gga |-> 5, rmc |-> "F", vtg |-> "D"],
             [of |-> "DGNSS",     gga |-> 2, rmc |-> "D", vtg |-> "D"],
             [of |-> "SBAS_IONO", gga |-> 2, rmc |-> "D", vtg |-> "D"]>>
TechRows == <<[of |-> "SATELLITE", gga |-> 1, rmc |-> "A", vtg |-> "A"],
              [of |-> "SENSORS",   gga |-> 6, rmc |-> "E", vtg |-> "E"]>>
NoFixRow == [of |-> "none", gga |-> 0, rmc |-> "N", vtg |-> "N"]

FixRow(fix) ==
  LET candidates == (IF "NAV" \in fix.flags
                     THEN SelectSeq(NavRows, LAMBDA r : r.of \in fix.nav) ELSE <<>>)
                    \o (IF "TECH" \in fix.flags
                        THEN SelectSeq(TechRows, LAMBDA r : r.of \in fix.tech) ELSE <<>>)
  IN  IF "LAT_LONG" \notin fix.flags \/ candidates = <<>> THEN NoFixRow
      ELSE Head(candidates)

GnsModes(fix) ==
  [c \in Constellations |->
     IF FixRow(fix).of = "SENSORS" \/ fix.used[c] # {} THEN FixRow(fix).rmc ELSE "N"]

\* CUSTOM_NMEA_GGA_FIX_QUALITY_ENABLED: one or two digits.
GgaQuality(fix, custom) ==
  LET plain == FixRow(fix).gga
      sensors == "TECH" \in fix.flags /\ "SENSORS" \in fix.tech
  IN  IF ~custom THEN <<plain>>
      ELSE IF "NAV" \in fix.flags /\ "PPP" \in fix.nav
           THEN IF sensors THEN <<6, 9>> ELSE <<5, 9>>
      ELSE IF ~sensors THEN <<plain>>
      ELSE IF fix.nav \cap {"RTK_FIXED", "RTK", "DGNSS", "SBAS_IONO"} # {}
              \/ "SATELLITE" \in fix.tech
           THEN <<6, plain>> ELSE <<6>>

----------------------------------------------------------------------------
\* get_utctime_with_leapsecond_transition: sys is the adapter's copy of the
\* system information, sys.change the announced change of leap seconds.
NoChange == [at |-> 0, before |-> 0, after |-> 0]
\* Mutant: the second lasts a millisecond too long.
InLeapSecondAndOn(fix, sys) ==
  /\ "GPS_TIME" \in fix.flags
  /\ sys.known /\ sys.change.after > sys.change.before
  /\ fix.gps \in sys.change.at .. sys.change.at + 1000
InLeapSecond(fix, sys) ==
  /\ "GPS_TIME" \in fix.flags
  /\ sys.known /\ sys.change # NoChange
  /\ sys.change.after > sys.change.before
  /\ fix.gps >= sys.change.at
  /\ fix.gps < sys.change.at + 1000

LeapSecond == 235960           \* printed as 23:59:60
TimeShown(fix, sys) == IF InLeapSecond(fix, sys) THEN LeapSecond ELSE fix.utc

\* loc_nmea_generate_DTM: the local datum is the one the receiver does not use.
Dtm(talker, datum) == [kind |-> "DTM", talker |-> talker,
                       local |-> IF datum = "W84" THEN "P90" ELSE "W84",
                       ref |-> datum]
Vtg(fix, talker) == [kind |-> "VTG", talker |-> talker, mode |-> FixRow(fix).vtg,
                     has |-> fix.flags \cap {"BEARING", "SPEED", "MAG_DEV"}]

Position(fix, datum) == IF "LAT_LONG" \in fix.flags THEN datum ELSE "none"
Rmc(fix, used, sys, talker, datum) ==
  [kind |-> "RMC", talker |-> talker, time |-> TimeShown(fix, sys),
   valid |-> \E c \in Constellations \ {"NAVIC"} : used[c] # {},
   pos |-> Position(fix, datum), mode |-> FixRow(fix).rmc,
   has |-> fix.flags \cap {"SPEED", "BEARING", "MAG_DEV"}]

AltitudeFields(fix) ==
  (fix.flags \cap {"DOP", "MEAN_SEA_LEVEL", "DGNSS_DATA_AGE", "DGNSS_REF_STATION"})
  \cup (IF {"ALTITUDE", "MEAN_SEA_LEVEL"} \subseteq fix.flags THEN {"GEOID"} ELSE {})

Gns(fix, sys, talker, datum, count) ==
  [kind |-> "GNS", talker |-> talker, time |-> TimeShown(fix, sys),
   pos |-> Position(fix, datum), modes |-> GnsModes(fix), count |-> count,
   has |-> AltitudeFields(fix)]
Gga(fix, sys, talker, datum, count, custom) ==
  [kind |-> "GGA", talker |-> talker, time |-> TimeShown(fix, sys),
   pos |-> Position(fix, datum), quality |-> GgaQuality(fix, custom),
   count |-> IF count > 12 THEN 12 ELSE count, has |-> AltitudeFields(fix)]

BlankSentences == <<EmptyGsa>> \o
  [i \in 1..5 |-> [kind |-> <<"VTG", "DTM", "RMC", "GNS", "GGA">>[i], talker |-> "GP",
                   tag |-> 0, fix |-> 1, system |-> "none", ids |-> <<>>]]

\* With the datum PZ-90 its sentence stands before each position.
InOrder(gsa, vtg, dtm, rmc, gns, gga, datum) ==
  LET again == IF datum = "P90" THEN <<dtm>> ELSE <<>>
  IN  gsa \o <<vtg, dtm, rmc>> \o again \o <<gns>> \o again \o <<gga>>

\* loc_nmea_generate_pos: opt has custom, grouped and datum; the answer has
\* the sentences, the index of GGA (0 for the blank set) and the group code.
GeneratePos(fix, sys, generate, opt, code) ==
  LET used == IF "SV_USED" \in fix.flags THEN fix.used ELSE NoneUsed
      gsa == AllGsa(used, opt.grouped, code)
      printed == {i \in 1..Len(GsaOrder) : used[GsaOrder[i]] # {}}
      count == FoldLeft(LAMBDA n, c : n + Cardinality(used[c]), 0, GsaOrder)
      talker == IF printed = {} THEN "GP"
                ELSE Talker(GsaOrder[CHOOSE i \in printed : \A j \in printed : j <= i], used)
      out == InOrder(gsa.out, Vtg(fix, talker), Dtm(talker, opt.datum),
                     Rmc(fix, used, sys, talker, opt.datum),
                     Gns(fix, sys, talker, opt.datum, count),
                     Gga(fix, sys, talker, opt.datum, count, opt.custom), opt.datum)
  IN  IF generate THEN [out |-> out, gga |-> Len(out), code |-> gsa.code]
      ELSE [out |-> BlankSentences, gga |-> 0, code |-> code]

----------------------------------------------------------------------------
\* The families of GSV sentences, in the order loc_nmea_generate_sv makes them.
Families == <<[of |-> "GPS", sig |-> "GPS_L1CA"], [of |-> "GPS", sig |-> "GPS_L5"],
              [of |-> "GPS", sig |-> "GPS_L2"],
              [of |-> "GLONASS", sig |-> "GLONASS_G1"],
              [of |-> "GLONASS", sig |-> "GLONASS_G2"],
              [of |-> "GALILEO", sig |-> "GALILEO_E1"],
              [of |-> "GALILEO", sig |-> "GALILEO_E5A"],
              [of |-> "GALILEO", sig |-> "GALILEO_E5B"],
              [of |-> "QZSS", sig |-> "QZSS_L1CA"], [of |-> "QZSS", sig |-> "QZSS_L5"],
              [of |-> "QZSS", sig |-> "QZSS_L2"],
              [of |-> "BEIDOU", sig |-> "BEIDOU_B1I"],
              [of |-> "BEIDOU", sig |-> "BEIDOU_B1C"],
              [of |-> "BEIDOU", sig |-> "BEIDOU_B2AI"],
              [of |-> "NAVIC", sig |-> "NAVIC_L5"]>>

\* The family loc_nmea_generate_sv counts a satellite in: a signal it does
\* not know counts as the first of its constellation.
CountedIn(sv) ==
  LET c == IF sv.type = "SBAS" THEN "GPS" ELSE sv.type
      sig == IF sv.sig = "BEIDOU_B2AQ" THEN "BEIDOU_B2AI" ELSE sv.sig
  IN  IF [of |-> c, sig |-> sig] \in ToSet(Families) THEN [of |-> c, sig |-> sig]
      ELSE [of |-> c, sig |-> DefaultSignal[c]]

\* The satellites loc_nmea_generate_GSV lists under a family.
ListedIn(sv, family) ==
  /\ sv.type = family.of \/ (sv.type = "SBAS" /\ family.of = "GPS")
  /\ SignalId(IF sv.sig = "none" THEN DefaultSignal[sv.type] ELSE sv.sig)
       = SignalId(family.sig)

\* The offset a satellite's number is printed with; once an SBAS satellite
\* was printed its offset stays for the rest of the family.
GsvId(svs, n) ==
  LET sv == svs[n]
      afterSbas == \E i \in 1..n : svs[i].type = "SBAS"
  IN  IF sv.type = "GLONASS"
      THEN IF sv.id = GloSlotUnknown THEN BlankId ELSE sv.id
      ELSE sv.id - (IF afterSbas THEN SbasSvIdOffset ELSE SvIdOffset[sv.type])

Gsv(svs, family) ==
  LET count == Cardinality({i \in 1..Len(svs) : CountedIn(svs[i]) = family})
      listed == SelectSeq(svs, LAMBDA sv : ListedIn(sv, family))
      last(n) == IF 4 * n > Len(listed) THEN Len(listed) ELSE 4 * n
  IN  [n \in 1..SentencesFor(count, 4) |->
         [kind |-> "GSV", talker |-> TalkerName[family.of], family |-> family,
          total |-> SentencesFor(count, 4), number |-> n, count |-> count,
          ids |-> [i \in 1..(IF last(n) < 4 * (n - 1) THEN 0 ELSE last(n) - 4 * (n - 1)) |->
                     GsvId(listed, 4 * (n - 1) + i)]]]

\* loc_nmea_generate_sv
GenerateSv(svs) ==
  FoldLeft(LAMBDA out, family : out \o Gsv(svs, family), <<>>, Families)
=============================================================================
