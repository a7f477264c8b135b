----------------------------- MODULE EngineStatus -----------------------------
(***************************************************************************)
(* What SystemStatus keeps of the engine: the items it reads out of the    *)
(* debug sentences $PQWM1, $PQWP1 to $PQWP7 and $PQWS1 and the last fixes, *)
(* of each kind the latest few; and what GnssAdapter makes of them, the    *)
(* debug report and the levels of the automatic gain control. The methods  *)
(* hold one mutex, so a call reads what one call left. A time is in half   *)
(* seconds, a mask the set of its bits.                                    *)
(***************************************************************************)
EXTENDS Integers, Sequences, FiniteSets, SequencesExt

CONSTANTS
  MaxItem,        (* SystemStatusItemBase::maxItem                         *)
  SvNum,          (* [ReportedTypes -> Nat \ {0}]: GPS_NUM and the others *)
  Contents        (* [Tags -> what a sentence can say]                     *)

ASSUME EngineStatusAssumption == MaxItem \in Nat \ {0}

VARIABLES
  cache,          (* mCache: [ItemKinds -> the items with their time]      *)
  said,           (* what was last told of each kind since a deletion      *)
  given           (* the levels last handed out, when and from what        *)


ReportedTypes == {"GPS", "GLONASS", "QZSS", "BEIDOU", "GALILEO", "NAVIC"}
Bands == {"GPS", "GLONASS", "BEIDOU", "GALILEO"}
Tags == {"PQWM1", "PQWP1", "PQWP2", "PQWP3", "PQWP4", "PQWP5", "PQWP6", "PQWP7",
         "PQWS1"}
SvOrder == <<"GPS", "GLONASS", "BEIDOU", "GALILEO", "QZSS", "NAVIC">>
InvalidLevel == -1          \* GNSS_INVALID_JAMMER_IND
Origin == 0                 \* latitude, longitude and altitude zero
NoMask == [c \in ReportedTypes |-> {}]

----------------------------------------------------------------------------
\* The parsers. A sentence has a tag, a size and a content. One without a
\* checksum has no field and is short.
PQWM1 == [tow : Int, valid : BOOLEAN, unc : Nat, uncNs : Nat, leapUnc : Nat,
          leap : Nat, xo : Nat, err : Nat, levels : [Bands -> Int],
          jammers : [Bands -> Int]]
ZeroPQWM1 == [tow |-> 0, valid |-> FALSE, unc |-> 0, uncNs |-> 0, leapUnc |-> 0,
              leap |-> 0, xo |-> 0, err |-> 0, levels |-> [b \in Bands |-> 0],
              jammers |-> [b \in Bands |-> 0]]
ParsePQWM1(s) ==
  CASE s.size = "short" -> ZeroPQWM1
    [] s.size = "legacy" -> [s.content EXCEPT !.leap = 0, !.leapUnc = 0, !.uncNs = 0]
    [] OTHER -> s.content

\* The others return from a short sentence before their memset: what is read
\* is what the stack held, of which junk is an example.
Parsed(s, junk) == IF s.size = "short" THEN junk ELSE s.content
ParsePQWP1(s, junk) == Parsed(s, junk)
ParsePQWP2(s, junk) == Parsed(s, junk)
ParsePQWP4(s, junk) == Parsed(s, junk)
ParsePQWP6(s, junk) == Parsed(s, junk)
ParsePQWS1(s, junk) == Parsed(s, junk)
\* The sentences do not tell of NAVIC yet.
ParsePQWP3(s, junk) ==
  IF s.size = "short" THEN junk
  ELSE [valid |-> [s.content.valid EXCEPT !["NAVIC"] = {}],
        age |-> [s.content.age EXCEPT !["NAVIC"] = 0]]
ParsePQWP5(s, junk) ==
  IF s.size = "short" THEN junk
  ELSE [good |-> [s.content.good EXCEPT !["NAVIC"] = {}],
        bad |-> [s.content.bad EXCEPT !["NAVIC"] = {}]]
\* mNav: the satellites one constellation after the other; an engine without
\* NAVIC leaves the last one out.
NavOf(nav) == FoldLeft(LAMBDA all, c : all \o nav[c], <<>>, SvOrder)
NoNav == [c \in ReportedTypes |-> [i \in 1 .. SvNum[c] |-> 0]]
ParsePQWP7(s, junk) ==
  CASE s.size = "short" -> NavOf(junk)
    [] s.size = "legacy" -> NavOf([s.content EXCEPT !["NAVIC"] = NoNav["NAVIC"]])
    [] OTHER -> NavOf(s.content)

----------------------------------------------------------------------------
\* The items
Location(place) == [valid |-> TRUE, place |-> place]
TimeAndClock(m1) == [tow |-> m1.tow, valid |-> m1.valid, unc |-> m1.unc,
                     uncNs |-> m1.uncNs, leap |-> m1.leap, leapUnc |-> m1.leapUnc]
XoState(m1) == m1.xo
RfAndParams(m1) == [levels |-> m1.levels, jammers |-> m1.jammers]
ErrRecovery(m1) == m1.err
InjectedPosition(p1) == p1
BestPosition(p2) == [valid |-> TRUE, place |-> p2]
Xtra(p3) == p3
Ephemeris(p4) == p4
SvHealth(p5) == p5
Pdr(p6) == p6
NavData(p7) == p7
PositionFailure(s1) == s1

DefaultItems ==
  [location |-> [valid |-> FALSE, place |-> Origin],
   timeAndClock |-> TimeAndClock(ZeroPQWM1), xoState |-> 0,
   rfAndParams |-> RfAndParams(ZeroPQWM1), errRecovery |-> 0,
   injectedPosition |-> 0, bestPosition |-> [valid |-> FALSE, place |-> Origin],
   xtra |-> [valid |-> NoMask, age |-> [c \in ReportedTypes |-> 0]],
   ephemeris |-> {}, svHealth |-> [good |-> NoMask, bad |-> NoMask],
   pdr |-> 0, navData |-> NavOf(NoNav), positionFailure |-> 0]
ItemKinds == DOMAIN DefaultItems

\* equals. That of a position compares the place alone, that of the health
\* does not know NAVIC.
ButNavic(masks) == [masks EXCEPT !["NAVIC"] = {}]
\* Mutant: the satellites that are bad are not compared.
SameGoodHealth(a, b) == ButNavic(a.good) = ButNavic(b.good)
SameHealth(a, b) == /\ ButNavic(a.good) = ButNavic(b.good)
                    /\ ButNavic(a.bad) = ButNavic(b.bad)
SamePlace(a, b) == a.place = b.place
Same(kind, a, b) ==
  CASE kind \in {"location", "bestPosition"} -> SamePlace(a, b)
    [] kind = "svHealth" -> SameHealth(a, b)
    [] OTHER -> a = b

Ignored(kind, item) == kind = "errRecovery" /\ item = 0

Bounded(entries) == IF Len(entries) > MaxItem THEN Tail(entries) ELSE entries

\* An item that is like the last one brings its time up to date.
SetIteminReport(kind, item, now) ==
  CASE Ignored(kind, item) -> cache[kind]
    [] ~Ignored(kind, item) /\ cache[kind] # <<>> /\ Same(kind, Last(cache[kind]).item, item) ->
         [cache[kind] EXCEPT ![Len(cache[kind])].utc = now]
    [] OTHER -> Bounded(Append(cache[kind], [item |-> item, utc |-> now]))
SetDefaultIteminReport(kind, now) ==
  Bounded(Append(cache[kind], [item |-> DefaultItems[kind], utc |-> now]))

SetItems(items, now) ==
  cache' = [kind \in ItemKinds |-> IF kind \in DOMAIN items
                                   THEN SetIteminReport(kind, items[kind], now)
                                   ELSE cache[kind]]

ItemsOf(s, junk) ==
  CASE s.tag = "PQWM1" -> LET m1 == ParsePQWM1(s)
                          IN [timeAndClock |-> TimeAndClock(m1), xoState |-> XoState(m1),
                              rfAndParams |-> RfAndParams(m1), errRecovery |-> ErrRecovery(m1)]
    [] s.tag = "PQWP1" -> [injectedPosition |-> InjectedPosition(ParsePQWP1(s, junk))]
    [] s.tag = "PQWP2" -> [bestPosition |-> BestPosition(ParsePQWP2(s, junk))]
    [] s.tag = "PQWP3" -> [xtra |-> Xtra(ParsePQWP3(s, junk))]
    [] s.tag = "PQWP4" -> [ephemeris |-> Ephemeris(ParsePQWP4(s, junk))]
    [] s.tag = "PQWP5" -> [svHealth |-> SvHealth(ParsePQWP5(s, junk))]
    [] s.tag = "PQWP6" -> [pdr |-> Pdr(ParsePQWP6(s, junk))]
    [] s.tag = "PQWP7" -> [navData |-> NavData(ParsePQWP7(s, junk))]
    [] s.tag = "PQWS1" -> [positionFailure |-> PositionFailure(ParsePQWS1(s, junk))]

----------------------------------------------------------------------------
\* The operations
Untold == [tag \in Tags \cup {"fix"} |-> [told |-> FALSE]]
NothingGiven == [levels |-> {}, now |-> 0, tow |-> 0, of |-> [told |-> FALSE]]

EngineStatusInit ==
  /\ cache = [kind \in ItemKinds |-> <<>>]
  /\ said = Untold
  /\ given = NothingGiven

SetNmeaString(s, now) ==
  /\ \E junk \in Contents[s.tag] : SetItems(ItemsOf(s, junk), now)
  /\ said' = [said EXCEPT ![s.tag] = [told |-> TRUE, size |-> s.size,
                                      content |-> s.content, at |-> s.at]]

EventPosition(place, now) ==
  /\ SetItems([location |-> Location(place)], now)
  /\ said' = [said EXCEPT !["fix"] = [told |-> TRUE, place |-> place, at |-> now]]

SetDefaultGnssEngineStates(now) ==
  /\ cache' = [kind \in ItemKinds |-> SetDefaultIteminReport(kind, now)]
  /\ said' = Untold

\* getReport with isLatestOnly, as all in the source ask for it
GetReport == [kind \in ItemKinds |-> IF cache[kind] = <<>> THEN <<>>
                                     ELSE <<Last(cache[kind])>>]

----------------------------------------------------------------------------
\* getDebugReport
LocationBlock(r) ==
  LET valid(kind) == r[kind] # <<>> /\ Head(r[kind]).item.valid
      from(kind) == [valid |-> TRUE, place |-> Head(r[kind]).item.place,
                     utc |-> Head(r[kind]).utc]
  IN  CASE valid("location") -> from("location")
        [] ~valid("location") /\ valid("bestPosition") -> from("bestPosition")
        [] OTHER -> [valid |-> FALSE]

TimeBlock(r) ==
  IF r.timeAndClock = <<>> \/ ~Head(r.timeAndClock).item.valid THEN [valid |-> FALSE]
  ELSE LET t == Head(r.timeAndClock).item
       IN  [valid |-> TRUE, tow |-> t.tow, leap |-> t.leap,
            uncNs |-> IF t.uncNs > 0 THEN t.leapUnc * 1000 + t.uncNs
                      ELSE (t.unc + t.leapUnc) * 1000]

\* convertSatelliteInfo: where a constellation begins in mNav
SvIndex(c) ==
  CASE c = "GPS" -> 0
    [] c = "GLONASS" -> SvNum["GPS"]
    [] c = "BEIDOU" -> SvNum["GPS"] + SvNum["GLONASS"]
    [] c = "GALILEO" -> SvNum["GPS"] + SvNum["GLONASS"] + SvNum["BEIDOU"]
    [] c = "QZSS" -> SvNum["GPS"] + SvNum["GLONASS"] + SvNum["BEIDOU"] + SvNum["GALILEO"]
    [] c = "NAVIC" -> SvNum["GPS"] + SvNum["GLONASS"] + SvNum["QZSS"]
                        + SvNum["BEIDOU"] + SvNum["GALILEO"]

\* One satellite; i counts from 0 within its constellation.
SatelliteInfo(r, c, i) ==
  [constellation |-> c, i |-> i,
   age |-> IF r.navData = <<>> THEN 0 ELSE Head(r.navData).item[SvIndex(c) + i + 1],
   health |-> CASE r.svHealth # <<>> /\ i \in Head(r.svHealth).item.good[c] -> "GOOD"
                [] r.svHealth # <<>> /\ i \notin Head(r.svHealth).item.good[c]
                     /\ i \in Head(r.svHealth).item.bad[c] -> "BAD"
                [] OTHER -> "UNKNOWN",
   predicted |-> r.xtra # <<>> /\ i \in Head(r.xtra).item.valid[c],
   predictionAge |-> IF r.xtra = <<>> THEN 0 ELSE Head(r.xtra).item.age[c]]

ConvertSatelliteInfo(r) ==
  {SatelliteInfo(r, c, i) : <<c, i>> \in UNION {{c} \X (0 .. SvNum[c] - 1) : c \in ReportedTypes}}

DebugReport ==
  LET r == GetReport
  IN  [location |-> LocationBlock(r), time |-> TimeBlock(r),
       satellites |-> ConvertSatelliteInfo(r)]

----------------------------------------------------------------------------
\* The levels are handed out with what is within two seconds of the time they
\* were told for; the comparison does not know that weeks end.
TwoSeconds == 4
Absolute(n) == IF n < 0 THEN -n ELSE n
ForThisTime(r, tow) ==
  /\ r.rfAndParams # <<>> /\ r.timeAndClock # <<>>
  /\ Absolute(tow - Head(r.timeAndClock).item.tow) < TwoSeconds

BandOf(c) == IF c = "QZSS" THEN "GPS" ELSE c

\* getAgcInformation
AgcInformation(types, tow) ==
  LET r == GetReport
  IN  IF ~ForThisTime(r, tow) THEN {}
      ELSE {[type |-> c, bit |-> "AGC", level |-> Head(r.rfAndParams).item.levels[BandOf(c)]] :
              c \in types \cap (Bands \cup {"QZSS"})}

\* getDataInformation: one signal of each band; that of GPS is the one of QZSS
\* and SBAS too.
SignalsOf(b) == IF b = "GPS" THEN {"GPS", "QZSS", "SBAS"} ELSE {b}
DataInformation(tow) ==
  LET r == GetReport
      rf == Head(r.rfAndParams).item
      of(bit, level) ==
        UNION {{[type |-> c, bit |-> bit, level |-> level[b]] : c \in SignalsOf(b)} :
                 b \in {x \in Bands : level[x] # InvalidLevel}}
  IN  IF ~ForThisTime(r, tow) THEN {}
      ELSE of("AGC", rf.levels) \cup of("JAMMER", rf.jammers)

Gives(levels, now, tow) ==
  given' = IF levels = {} THEN given
           ELSE [levels |-> levels, now |-> now, tow |-> tow, of |-> said["PQWM1"]]

----------------------------------------------------------------------------
Known(tag) == said[tag].told /\ said[tag].size # "short"
KindOf == [PQWP1 |-> "injectedPosition", PQWP4 |-> "ephemeris", PQWP6 |-> "pdr",
           PQWS1 |-> "positionFailure"]

\* The debug report shows the place and the time of the last fix since the last
\* deletion of all aiding data, or else the engine's best position (but for a
\* place at the origin, which a deletion makes the known one); the time of the
\* last $PQWM1; each satellite once, with what the last $PQWP3, $PQWP5 and
\* $PQWP7 told of it. Of the kinds that the report leaves out the last sentence
\* is held. A sentence cut short leaves $PQWM1 without time, of the others
\* nothing is promised (setIteminReport, equals, setDefaultGnssEngineStates,
\* getDebugReport).
DebugReportIsCurrent ==
  LET r == DebugReport
      fix == said["fix"]
  IN  /\ fix.told /\ fix.place # Origin =>
           r.location = [valid |-> TRUE, place |-> fix.place, utc |-> fix.at]
      /\ ~fix.told /\ Known("PQWP2") /\ said["PQWP2"].content # Origin =>
           r.location.valid /\ r.location.place = said["PQWP2"].content
      /\ ~fix.told /\ ~said["PQWP2"].told => ~r.location.valid
      /\ r.time.valid <=> Known("PQWM1") /\ said["PQWM1"].content.valid
      /\ r.time.valid => r.time.tow = said["PQWM1"].content.tow
      /\ {<<s.constellation, s.i>> : s \in r.satellites}
           = UNION {{c} \X (0 .. SvNum[c] - 1) : c \in ReportedTypes}
      /\ \A s \in r.satellites :
           LET c == s.constellation IN
           /\ Known("PQWP7") =>
                s.age = IF c = "NAVIC" /\ said["PQWP7"].size = "legacy" THEN 0
                        ELSE said["PQWP7"].content[c][s.i + 1]
           /\ Known("PQWP5") /\ c # "NAVIC" =>
                /\ s.health = "GOOD" <=> s.i \in said["PQWP5"].content.good[c]
                /\ s.health = "UNKNOWN" <=> s.i \notin said["PQWP5"].content.good[c]
                                                       \cup said["PQWP5"].content.bad[c]
           /\ Known("PQWP3") /\ c # "NAVIC" =>
                s.predicted <=> s.i \in said["PQWP3"].content.valid[c]
           /\ ~said["PQWP7"].told => s.age = 0
           /\ ~said["PQWP5"].told => s.health = "UNKNOWN"
           /\ ~said["PQWP3"].told => ~s.predicted
      /\ \A tag \in DOMAIN KindOf : Known(tag) =>
           Last(cache[KindOf[tag]]).item = said[tag].content

\* A level that goes out with measurements or data is that of a $PQWM1 of less
\* than two seconds before or after; where none is known since a deletion, or
\* the last was cut short, a level of zero goes out in the first two seconds of
\* a week (getAgcInformation, getDataInformation).
LevelsAreOfTheirTime ==
  given.levels # {} =>
    IF given.of.told /\ given.of.size # "short"
    THEN /\ Absolute(given.now - given.of.at) < TwoSeconds
         /\ \A l \in given.levels :
              l.level = IF l.bit = "AGC"
                        THEN given.of.content.levels[IF l.type = "SBAS" THEN "GPS"
                                                     ELSE BandOf(l.type)]
                        ELSE given.of.content.jammers[IF l.type = "SBAS" THEN "GPS"
                                                      ELSE BandOf(l.type)]
    ELSE given.tow < TwoSeconds /\ \A l \in given.levels : l.level = 0

\* What is told of the engine's state is the last it said, for the time asked.
EngineStatusIsTrue == DebugReportIsCurrent /\ LevelsAreOfTheirTime
=============================================================================
