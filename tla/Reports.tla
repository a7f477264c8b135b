------------------------------ MODULE Reports ------------------------------
(***************************************************************************)
(* What GnssAdapter does with the reports of the engine: positions,        *)
(* satellites, measurements, the system's information about leap seconds.  *)
(* They arrive on the engine's thread and wait in the adapter's queue with *)
(* the commands of the clients; where the engine hub is loaded it receives *)
(* them and its own reports take their place.                              *)
(***************************************************************************)
EXTENDS FixConversion, EngineStatus

CONSTANTS
  Clients,      (* the LocationAPI clients                                 *)
  CallbackSets, (* the sets of callbacks a client registers                *)
  Fixes,        (* [Worlds -> the fixes the engine makes, less their time] *)
  EngineFixes,  (* [location, the list of fixes]: those of the hub         *)
  SvReports,    (* the satellite reports, sequences of satellites          *)
  Infos,        (* the system information the engine sends                 *)
  DebugLines,   (* [Worlds -> the debug sentences the engine sends]        *)
  Week,         (* the half seconds of a week                              *)
  Measured,     (* the constellations that are measured                    *)
  Options,      (* [Worlds -> configuration and what is enabled]           *)
  Kinds,        (* [Worlds -> the events that come]                        *)
  MaxReports,   (* [Worlds -> Nat], bounds the events                      *)
  MaxMsgs,      (* bounds the adapter's queue                              *)
  Worlds

VARIABLES
  world,
  msgs,         (* the adapter's MsgTask's queue                           *)
  mClientData,  (* [Clients -> callbacks]                                  *)
  sessions,     (* the clients with a time-based tracking session          *)
  used,         (* mGnssSvIdUsedInPosition ... , [avail, mbAvail, ids, mb] *)
  prevNmea,     (* mPrevNmeaRptTimeNsec, in half seconds; 0 is none        *)
  sysInfo,      (* mLocSystemInfo: [current, change]                       *)
  code,         (* the group code of loc_nmea_generate_GSA                 *)
  usable,       (* mDGnssDataUsage                                         *)
  clock,        (* the time of the last fix, in half seconds               *)
  reports,      (* events so far                                           *)
  out,          (* what the last step handed to the clients                *)
  hubGot,       (* what the last step handed to the engine hub             *)
  told,         (* the last fix told to the clients of GNSS, whether a     *)
                (* satellite report was marked from it, and the satellites *)
                (* of that report that came marked from the engine         *)
  infoOf,       (* [Clients -> the information its callback has merged]    *)
  announced,    (* the last change of leap seconds the engine announced    *)
  fresh         (* no fix was reported since the first session started     *)

reportVars == <<world, msgs, mClientData, sessions, used, prevNmea, sysInfo, code,
                usable, clock, reports, out, hubGot, told, infoOf, announced,
                fresh, cache, said, given>>

opt == Options[world]
NoInfo == [known |-> FALSE, current |-> 0, change |-> NoChange]
NoMarks == [avail |-> FALSE, mbAvail |-> FALSE, ids |-> NoneUsed, mb |-> {}]
NothingTold == [marks |-> NoMarks, gps |-> 0, marked |-> FALSE, came |-> {}]

ReportsInit ==
  /\ world \in Worlds
  /\ msgs = <<>> /\ out = <<>> /\ hubGot = <<>>
  /\ mClientData = [c \in Clients |-> opt.begun]
  /\ sessions = IF opt.begun = {} THEN {} ELSE Clients
  /\ EngineStatusInit
  /\ used = NoMarks
  /\ prevNmea = 0 /\ clock = 0 /\ reports = 0
  /\ sysInfo = NoInfo
  /\ code = 1
  /\ usable = FALSE
  /\ told = NothingTold
  /\ infoOf = [c \in Clients |-> NoInfo]
  /\ announced = NoChange
  /\ fresh = FALSE

----------------------------------------------------------------------------
\* The engine's thread.
Happens(kind) ==
  /\ kind \in Kinds[world]
  /\ reports < MaxReports[world]
  /\ Len(msgs) < MaxMsgs
  /\ reports' = reports + 1
  /\ out' = <<>>

KeepEngine == UNCHANGED <<world, mClientData, sessions, used, prevNmea, sysInfo,
                          code, told, infoOf, announced, fresh, cache, said>>
KeepGiven == UNCHANGED given

\* msInWeek; the engine may not know it.
Tow(t) == (opt.startTow + t) % Week
NoTow == -1

Stamp(fix, t) == [fix EXCEPT !.utc = t, !.gps = 500 * t]

ReportPositionEvent(fix) ==
  /\ Happens("position")
  /\ clock' = clock + 1
  /\ msgs' = Append(msgs, [kind |-> "SPE", fix |-> Stamp(fix, clock + 1)])
  /\ hubGot' = <<>>
  /\ UNCHANGED usable
  /\ KeepEngine /\ KeepGiven

\* With the hub the engine's satellites go to it alone.
ReportSvEvent(svs, fromEngineHub) ==
  /\ Happens("sv")
  /\ fromEngineHub => opt.hub
  /\ hubGot' = IF fromEngineHub THEN <<>> ELSE <<svs>>
  /\ msgs' = IF ~fromEngineHub /\ opt.hub THEN msgs
             ELSE Append(msgs, [kind |-> "SV", svs |-> svs])
  /\ UNCHANGED <<clock, usable>>
  /\ KeepEngine /\ KeepGiven

ReportEnginePositionsEvent(fixes) ==
  /\ Happens("enginePositions")
  /\ opt.hub
  /\ clock' = clock + 1
  /\ msgs' = Append(msgs, [kind |-> "ENGINE",
                           fixes |-> [i \in 1..Len(fixes) |-> Stamp(fixes[i], clock + 1)]])
  /\ hubGot' = <<>>
  /\ UNCHANGED usable
  /\ KeepEngine /\ KeepGiven

ReportLocationSystemInfoEvent(info) ==
  /\ Happens("info")
  /\ hubGot' = <<info>>
  /\ msgs' = Append(msgs, [kind |-> "INFO", info |-> info])
  /\ UNCHANGED <<clock, usable>>
  /\ KeepEngine /\ KeepGiven

\* The engine's own sentences pass only where the modem provides them, or
\* for debugging.
ReportNmeaEvent ==
  /\ Happens("nmea")
  /\ msgs' = IF opt.ap THEN msgs ELSE Append(msgs, [kind |-> "NMEA"])
  /\ hubGot' = <<>>
  /\ UNCHANGED <<clock, usable>>
  /\ KeepEngine /\ KeepGiven

ReportDebugNmeaEvent(s, later) ==
  /\ Happens("debug")
  /\ clock' = clock + later
  /\ LET at == [s EXCEPT !.at = clock']
     IN  msgs' = Append(msgs, [kind |-> "DEBUG",
                               s |-> IF s.tag = "PQWM1"
                                     THEN [at EXCEPT !.content.tow = Tow(clock')] ELSE at])
  /\ hubGot' = <<>>
  /\ UNCHANGED usable
  /\ KeepEngine /\ KeepGiven

ReportDataEvent(timed, later) ==
  /\ Happens("data")
  /\ clock' = clock + later
  /\ msgs' = Append(msgs, [kind |-> "DATA", at |-> clock',
                           tow |-> IF timed THEN Tow(clock') ELSE NoTow])
  /\ hubGot' = <<>>
  /\ UNCHANGED usable
  /\ KeepEngine /\ KeepGiven

\* reportGnssMeasurementsEvent and reportDGnssDataUsable. The levels are looked
\* up here, past the sentences that wait.
ReportGnssMeasurementsEvent(count, corrected, timed, later) ==
  /\ Happens("measurements")
  /\ clock' = clock + later
  /\ LET levels == IF timed /\ count > 0 THEN AgcInformation(Measured, Tow(clock')) ELSE {}
     IN  /\ msgs' = IF count = 0 THEN msgs
                    ELSE Append(msgs, [kind |-> "MEASUREMENTS", levels |-> levels])
         /\ Gives(levels, clock', Tow(clock'))
  /\ usable' = IF opt.dgnss THEN corrected ELSE usable
  /\ hubGot' = <<"measurements">>
  /\ UNCHANGED <<world, mClientData, sessions, used, prevNmea, sysInfo, code, told,
                 infoOf, announced, fresh, cache, said>>

\* Reports that are the hub's alone: polynomials, ephemerides, the ionosphere,
\* the deletion of aiding data.
ReportForHub(kind) ==
  /\ Happens("hubOnly")
  /\ hubGot' = <<kind>>
  /\ UNCHANGED <<msgs, clock, usable>>
  /\ KeepEngine /\ KeepGiven

----------------------------------------------------------------------------
\* The commands of the clients that decide who is told what.
Command(msg) ==
  /\ Happens(msg.kind)
  /\ msgs' = Append(msgs, msg)
  /\ hubGot' = <<>>
  /\ UNCHANGED <<clock, usable>>
  /\ KeepEngine /\ KeepGiven

AddClientCommand(c, cbs) == Command([kind |-> "add", client |-> c, cbs |-> cbs])
RemoveClientCommand(c) == Command([kind |-> "remove", client |-> c])
StartSession(c) == Command([kind |-> "start", client |-> c])
StopSession(c) == Command([kind |-> "stop", client |-> c])
GnssDeleteAidingDataCommand(all, spe) ==
  Command([kind |-> "delete", all |-> all, spe |-> spe])

----------------------------------------------------------------------------
\* The adapter's thread.
Takes(kind) ==
  /\ msgs # <<>> /\ Head(msgs).kind = kind
  /\ msgs' = Tail(msgs)
  /\ UNCHANGED <<world, usable, clock, reports>>

Has(c, cb) == cb \in mClientData[c]
ToAll(cb, data) ==
  [i \in 1..Cardinality({c \in Clients : Has(c, cb)}) |->
     [to |-> SetToSeq({c \in Clients : Has(c, cb)})[i], cb |-> cb, data |-> data]]

NoLatitude == "blank"            \* latitude, longitude and reliability unset

NeedReportForGnss(fix) ==
  \/ opt.hub
  \/ fix.status = "SUCCESS" /\ fix.tech \cap {"SATELLITE", "SENSORS", "HYBRID"} # {}
  \/ /\ fix.status = "INTERMEDIATE" /\ opt.intermediate
     /\ ~("ACCURACY" \in fix.flags /\ "inaccurate" \in fix.marks)
NeedReportForFlp(fix) ==
  /\ fix.status # "FAILURE"
  /\ fix.status = "INTERMEDIATE" => "SENSORS" \in fix.tech \/ opt.allowFlp
IsFlpClient(cbs) ==
  cbs \cap {"gnssLocationInfo", "gnssSv", "gnssNmea", "gnssData",
            "gnssMeasurements"} = {}

\* The one callback of a client a fix goes to.
FixFor(c, fix) ==
  LET info == ConvertLocationInfo(fix)
      fused == [info EXCEPT !.eng = "FUSED", !.flags = @ \cup {"OUTPUT_ENG_TYPE"}]
  IN  CASE Has(c, "gnssLocationInfo") ->
             <<[to |-> c, cb |-> "gnssLocationInfo", data |-> info]>>
        [] ~Has(c, "gnssLocationInfo") /\ Has(c, "engineLocations") /\ ~opt.hub ->
             <<[to |-> c, cb |-> "engineLocations", data |-> <<fused, info>>]>>
        [] ~Has(c, "gnssLocationInfo") /\ ~(Has(c, "engineLocations") /\ ~opt.hub)
           /\ Has(c, "tracking") ->
             <<[to |-> c, cb |-> "tracking", data |-> info.location]>>
        [] OTHER -> <<>>

FixReports(fix) ==
  LET hears(c) == IF IsFlpClient(mClientData[c]) THEN NeedReportForFlp(fix)
                  ELSE NeedReportForGnss(fix)
      tell(sofar, c) == IF hears(c) THEN sofar \o FixFor(c, fix) ELSE sofar
  IN  FoldLeft(tell, <<>>, SetToSeq(Clients))

\* What the next satellite report is marked from.
Marks(fix) ==
  IF "SV_USED" \notin fix.flags THEN [used EXCEPT !.avail = FALSE, !.mbAvail = FALSE]
  ELSE IF "MULTIBAND" \in fix.flags
       THEN [avail |-> TRUE, mbAvail |-> TRUE, ids |-> fix.used, mb |-> fix.mb]
       ELSE [used EXCEPT !.avail = TRUE, !.mbAvail = FALSE, !.ids = fix.used]

\* Mutant: a fix without the satellites it used leaves the marks of the last.
MarksKept(fix) ==
  IF NeedReportForGnss(fix) /\ "SV_USED" \in fix.flags THEN Marks(fix)
  ELSE IF NeedReportForFlp(fix) /\ ~NeedReportForGnss(fix)
       THEN [used EXCEPT !.avail = FALSE, !.mbAvail = FALSE]
  ELSE used
MarksAfter(fix) ==
  IF NeedReportForGnss(fix) THEN Marks(fix)
  ELSE IF NeedReportForFlp(fix) THEN [used EXCEPT !.avail = FALSE, !.mbAvail = FALSE]
  ELSE used

\* needToGenerateNmeaReport; a pace is kept where the interval is below a
\* second and the sentences are asked for once a second.
NmeaDue(fix) ==
  /\ opt.ap /\ sessions # {}
  /\ \/ ~opt.paced
     \/ prevNmea = 0
     \/ fix.gps # 0 /\ fix.gps % 1000 <= 99
     \/ 500 * (fix.utc - prevNmea) >= 975

Sentences(fix) ==
  GeneratePos(fix, sysInfo,
              NeedReportForGnss(fix) /\ fix.status # "FAILURE"
                /\ NoLatitude \notin fix.marks,
              opt, code)

\* reportPosition, and what is handed out after it
ReportPosition(fix, after) ==
  LET due == NmeaDue(fix)
      nmea == IF due THEN ToAll("gnssNmea", Sentences(fix).out) ELSE <<>>
      generated == due /\ Sentences(fix).gga # 0
  IN  /\ used' = MarksAfter(fix)
      /\ told' = IF NeedReportForGnss(fix)
                 THEN [marks |-> [avail |-> "SV_USED" \in fix.flags,
                                  mbAvail |-> {"SV_USED", "MULTIBAND"} \subseteq fix.flags,
                                  ids |-> fix.used, mb |-> fix.mb],
                       gps |-> fix.gps, marked |-> FALSE, came |-> {}]
                 ELSE IF NeedReportForFlp(fix) THEN NothingTold
                 ELSE told
      /\ prevNmea' = IF due THEN fix.utc ELSE prevNmea
      /\ code' = IF generated THEN Sentences(fix).code ELSE code
      /\ out' = FixReports(fix) \o nmea \o after
      /\ fresh' = FALSE

\* mLocApi->injectPosition, the position assisted clock estimate
Injects(fix) ==
  /\ opt.pace /\ NeedReportForGnss(fix)
  /\ "SENSORS" \in fix.tech /\ fix.eng = "FUSED"
  /\ {"OUTPUT_ENG_TYPE", "OUTPUT_ENG_MASK"} \subseteq fix.flags
  /\ "DEAD_RECKONING" \in fix.mask

KeepReport == UNCHANGED <<mClientData, sessions, sysInfo, infoOf, announced>>
NothingReported == UNCHANGED <<used, told, prevNmea, code, fresh>>
KeepStatus == UNCHANGED <<cache, said>> /\ KeepGiven

EngineLocations(fixes) ==
  ToAll("engineLocations", [i \in 1..Len(fixes) |-> ConvertLocationInfo(fixes[i])])

Fused(fixes) == {i \in 1..Len(fixes) : "OUTPUT_ENG_TYPE" \in fixes[i].flags
                                         /\ fixes[i].eng = "FUSED"}

\* MsgReportSPEPosition: without a session the report is thrown away. A fix that
\* is told is also the one of the debug report, but not with the hub.
HandleReportPosition ==
  /\ Takes("SPE")
  /\ KeepReport
  /\ LET fix == Head(msgs).fix
         unpropagated == "unpropagated" \in fix.marks
         hasData == ~unpropagated /\ "data" \in fix.marks
         levels == IF hasData /\ "GPS_TIME" \in fix.flags
                   THEN DataInformation(Tow(fix.utc)) ELSE {}
         data == IF hasData THEN ToAll("gnssData", levels) ELSE <<>>
     IN  IF sessions = {}
         THEN out' = <<>> /\ hubGot' = <<>> /\ NothingReported /\ KeepStatus
         ELSE /\ Gives(levels, fix.utc, Tow(fix.utc))
              /\ IF opt.hub
                 THEN /\ hubGot' = <<fix>>
                      /\ out' = IF unpropagated THEN <<>>
                                ELSE data \o EngineLocations(<<WithVrp(fix, opt.leverArm)>>)
                      /\ NothingReported /\ UNCHANGED <<cache, said>>
                 ELSE IF unpropagated
                 THEN out' = <<>> /\ hubGot' = <<>> /\ NothingReported
                      /\ UNCHANGED <<cache, said>>
                 ELSE /\ hubGot' = IF Injects(fix) THEN <<"injected">> ELSE <<>>
                      /\ IF fix.status = "FAILURE" THEN UNCHANGED <<cache, said>>
                         ELSE EventPosition(fix.place, clock)
                      /\ ReportPosition(fix, data)

\* reportEnginePositions: the fused fix is a position like the modem's.
HandleEnginePositions ==
  /\ Takes("ENGINE") /\ KeepStatus
  /\ KeepReport
  /\ LET fixes == Head(msgs).fixes
     IN  IF Fused(fixes) = {}
         THEN out' = EngineLocations(fixes) /\ hubGot' = <<>> /\ NothingReported
         ELSE LET fix == fixes[CHOOSE i \in Fused(fixes) : TRUE]
              IN  /\ ReportPosition(fix, EngineLocations(fixes))
                  /\ hubGot' = IF Injects(fix) THEN <<"injected">> ELSE <<>>

----------------------------------------------------------------------------
\* reportSv: the signals of each constellation with a mask of their own
BandSignals ==
  {"GPS_L1CA", "GPS_L1C", "GPS_L2", "GPS_L5", "GLONASS_G1", "GLONASS_G2",
   "BEIDOU_B1I", "BEIDOU_B1C", "BEIDOU_B2I", "BEIDOU_B2AI", "BEIDOU_B2AQ",
   "GALILEO_E1", "GALILEO_E5A", "GALILEO_E5B",
   "QZSS_L1CA", "QZSS_L1S", "QZSS_L2", "QZSS_L5"}

\* mb is the set of <<signal, bit>> of the masks per band.
UsedBits(sv, marks) ==
  CASE ~marks.avail \/ sv.type = "SBAS" -> {}
    [] marks.avail /\ sv.type # "SBAS" /\ marks.mbAvail /\ sv.type # "NAVIC" ->
         {b \in 1..64 : sv.sig \in BandSignals /\ <<sv.sig, b>> \in marks.mb}
    [] OTHER -> marks.ids[sv.type]

BitOfSv(sv) == sv.id - SvIdOffset[sv.type]
\* A satellite the engine marked itself stays marked.
MarkSv(sv) ==
  IF sv.type # "SBAS" /\ BitOfSv(sv) \in 1..64 \cap UsedBits(sv, used)
  THEN [sv EXCEPT !.used = TRUE] ELSE sv

HandleReportSv ==
  /\ Takes("SV") /\ KeepStatus
  /\ KeepReport
  /\ LET svs == [i \in 1..Len(Head(msgs).svs) |-> MarkSv(Head(msgs).svs[i])]
     IN  out' = ToAll("gnssSv", svs)
                \o (IF opt.ap /\ sessions # {}
                    THEN ToAll("gnssNmea", GenerateSv(svs)) ELSE <<>>)
  /\ used' = [used EXCEPT !.avail = FALSE, !.mbAvail = FALSE]
  /\ told' = [told EXCEPT !.marked = TRUE,
                          !.came = {i \in 1..Len(Head(msgs).svs) : Head(msgs).svs[i].used}]
  /\ hubGot' = <<>>
  /\ UNCHANGED <<prevNmea, code, fresh>>

----------------------------------------------------------------------------
\* A part of the information that is absent leaves what was known; the change
\* of leap seconds is kept after the engine has taken it back.
Absent == -1
MergeInfo(old, info) ==
  [known |-> TRUE,
   current |-> IF info.current = Absent THEN old.current ELSE info.current,
   change |-> IF info.change = NoChange THEN old.change ELSE info.change]

HandleSystemInfo ==
  /\ Takes("INFO") /\ KeepStatus
  /\ LET info == Head(msgs).info
     IN  /\ sysInfo' = MergeInfo(sysInfo, info)
         /\ out' = ToAll("locationSystemInfo", info)
         /\ infoOf' = [c \in Clients |-> IF Has(c, "locationSystemInfo")
                                         THEN MergeInfo(infoOf[c], info) ELSE infoOf[c]]
         /\ announced' = IF info.change = NoChange THEN announced ELSE info.change
  /\ hubGot' = <<>>
  /\ UNCHANGED <<mClientData, sessions>>
  /\ NothingReported

\* notifyClientOfCachedLocationSystemInfo tells a client whose callback is new.
\* Mutant: only of a change of leap seconds.
NotifiesOfChange(c, cbs) ==
  /\ sysInfo.change # NoChange /\ "locationSystemInfo" \in cbs
  /\ ~Has(c, "locationSystemInfo")
Notifies(c, cbs) ==
  /\ sysInfo.known /\ "locationSystemInfo" \in cbs
  /\ ~Has(c, "locationSystemInfo")

\* addClientCommand's message: tells, then saveClient.
HandleAddClient ==
  /\ Takes("add") /\ KeepStatus
  /\ LET c == Head(msgs).client
         cbs == Head(msgs).cbs
         notify == Notifies(c, cbs)
     IN  /\ mClientData' = [mClientData EXCEPT ![c] = cbs]
         /\ out' = IF notify THEN <<[to |-> c, cb |-> "locationSystemInfo",
                                     data |-> sysInfo]>> ELSE <<>>
         /\ infoOf' = [infoOf EXCEPT ![c] =
                         IF notify THEN MergeInfo(@, sysInfo)
                         ELSE IF "locationSystemInfo" \in cbs THEN @ ELSE NoInfo]
  /\ hubGot' = <<>>
  /\ UNCHANGED <<sessions, sysInfo, announced>>
  /\ NothingReported

HandleRemoveClient ==
  /\ Takes("remove") /\ KeepStatus
  /\ mClientData' = [mClientData EXCEPT ![Head(msgs).client] = {}]
  /\ sessions' = sessions \ {Head(msgs).client}
  /\ infoOf' = [infoOf EXCEPT ![Head(msgs).client] = NoInfo]
  /\ out' = <<>> /\ hubGot' = <<>>
  /\ UNCHANGED <<sysInfo, announced>>
  /\ NothingReported

\* startTimeBasedTrackingMultiplex resets the pace of the sentences.
PaceAtStart(first) == IF first THEN 0 ELSE prevNmea
HandleStartSession ==
  /\ Takes("start") /\ KeepStatus
  /\ LET c == Head(msgs).client
         first == sessions = {} /\ mClientData[c] # {}
     IN  /\ sessions' = IF mClientData[c] # {} THEN sessions \cup {c} ELSE sessions
         /\ prevNmea' = PaceAtStart(first)
         /\ fresh' = (first \/ fresh)
  /\ out' = <<>> /\ hubGot' = <<>>
  /\ UNCHANGED <<mClientData, sysInfo, infoOf, announced, used, told, code>>

HandleStopSession ==
  /\ Takes("stop") /\ KeepStatus
  /\ sessions' = sessions \ {Head(msgs).client}
  /\ out' = <<>> /\ hubGot' = <<>>
  /\ UNCHANGED <<mClientData, sysInfo, infoOf, announced>>
  /\ NothingReported

HandleReportNmea ==
  /\ Takes("NMEA") /\ KeepStatus
  /\ out' = ToAll("gnssNmea", <<>>)
  /\ hubGot' = <<>>
  /\ KeepReport /\ NothingReported

\* A debug sentence ends in the system status.
HandleDebugNmea ==
  /\ Takes("DEBUG")
  /\ SetNmeaString(Head(msgs).s, clock)
  /\ out' = <<>> /\ hubGot' = <<>>
  /\ KeepReport /\ NothingReported /\ KeepGiven

HandleReportData ==
  /\ Takes("DATA")
  /\ LET levels == IF Head(msgs).tow = NoTow THEN {} ELSE DataInformation(Head(msgs).tow)
     IN  /\ out' = ToAll("gnssData", levels)
         /\ Gives(levels, Head(msgs).at, Head(msgs).tow)
  /\ hubGot' = <<>>
  /\ UNCHANGED <<cache, said>>
  /\ KeepReport /\ NothingReported

HandleMeasurements ==
  /\ Takes("MEASUREMENTS") /\ KeepStatus
  /\ out' = ToAll("gnssMeasurements", Head(msgs).levels)
  /\ hubGot' = <<>>
  /\ KeepReport /\ NothingReported

\* MsgDeleteAidingData, less what the engine and its answer make of it (module
\* Settings).
HandleDeleteAidingData ==
  /\ Takes("delete")
  /\ IF Head(msgs).spe /\ Head(msgs).all THEN SetDefaultGnssEngineStates(clock)
     ELSE UNCHANGED <<cache, said>>
  /\ hubGot' = <<"delete">>
  /\ out' = <<>>
  /\ KeepReport /\ NothingReported /\ KeepGiven

----------------------------------------------------------------------------
EngineReports ==
  \/ \E fix \in Fixes[world] : ReportPositionEvent(fix)
  \/ \E svs \in SvReports, hub \in BOOLEAN : ReportSvEvent(svs, hub)
  \/ \E fixes \in EngineFixes : ReportEnginePositionsEvent(fixes)
  \/ \E info \in Infos : ReportLocationSystemInfoEvent(info)
  \/ ReportNmeaEvent
  \/ \E s \in DebugLines[world], later \in opt.steps : ReportDebugNmeaEvent(s, later)
  \/ \E timed \in BOOLEAN, later \in opt.steps : ReportDataEvent(timed, later)
  \/ \E count \in 0..1, corrected \in IF opt.dgnss THEN BOOLEAN ELSE {FALSE},
        timed \in BOOLEAN, later \in opt.steps :
       ReportGnssMeasurementsEvent(count, corrected, timed, later)
  \/ ReportForHub("svPolynomial")

ClientCommands ==
  \/ \E all, spe \in BOOLEAN : GnssDeleteAidingDataCommand(all, spe)
  \/ \E c \in Clients :
      \/ \E cbs \in CallbackSets : AddClientCommand(c, cbs)
      \/ RemoveClientCommand(c)
      \/ StartSession(c)
      \/ StopSession(c)

ReportHandlers ==
  \/ HandleReportPosition \/ HandleEnginePositions \/ HandleReportSv
  \/ HandleSystemInfo \/ HandleAddClient \/ HandleRemoveClient
  \/ HandleStartSession \/ HandleStopSession
  \/ HandleReportNmea \/ HandleDebugNmea \/ HandleReportData \/ HandleMeasurements
  \/ HandleDeleteAidingData

ReportsNext == EngineReports \/ ClientCommands \/ ReportHandlers
----------------------------------------------------------------------------
Handed(cb) == {d.data : d \in {x \in ToSet(out) : x.cb = cb}}

WasUsed(sv) == told.marks.avail /\ BitOfSv(sv) \in UsedBits(sv, told.marks)

\* A satellite shown as used was used by the last fix told to the clients of
\* GNSS, in the band it is shown for where the fix tells bands apart, unless
\* the engine's report had it marked, and a fix marks one report of satellites
\* (reportPosition, reportSv).
UsedInFixIsTrue ==
  /\ told.marked => ~used.avail
  /\ \A svs \in Handed("gnssSv"), i \in 1..64 :
       i <= Len(svs) /\ svs[i].used => i \in told.came \/ WasUsed(svs[i])

\* reportSv's comment on the bit USED_IN_FIX: set if the satellite was used in
\* the previous fix, "else clear": none other is shown as used, whatever the
\* engine's report said. It does not hold: the bit is only ever set.
NotUsedIsCleared ==
  \A svs \in Handed("gnssSv") : \A i \in 1..Len(svs) : svs[i].used => WasUsed(svs[i])

\* A client that registered for the system's information has been told all
\* that the adapter knows, whenever it registered (reportLocationSystemInfo,
\* notifyClientOfCachedLocationSystemInfo).
KnowsLeapSeconds ==
  \A c \in Clients : Has(c, "locationSystemInfo") => infoOf[c] = sysInfo

\* The sentences of a fix in a leap second once announced show 23:59:60, also
\* when the engine has taken the announcement back; those of others do not
\* (reportLocationSystemInfo, get_utctime_with_leapsecond_transition).
LeapSecondShown ==
  \A sentences \in Handed("gnssNmea") : \A i \in 1..Len(sentences) :
    "time" \in DOMAIN sentences[i] =>
      (sentences[i].time = LeapSecond
         <=> /\ announced.after > announced.before
             /\ told.gps \in announced.at .. announced.at + 999)

\* Leap seconds reach whoever asks for them, and every sentence.
LeapSecondsTold == KnowsLeapSeconds /\ LeapSecondShown

OfKind(sentences, kind) == SelectSeq(sentences, LAMBDA s : s.kind = kind)
IdsOf(sentences) == FoldLeft(LAMBDA ids, s : ids \o s.ids, <<>>, sentences)

\* The sentences of one fix agree: GGA counts the satellites GSA lists, up to
\* twelve, RMC is valid if there is one, and all name the same talker: GN for
\* a fix of satellites of several constellations, else that of the one
\* constellation whose satellites GSA lists.
FixSentencesAgree(sentences) ==
  LET gsa == OfKind(sentences, "GSA")
      gga == Head(OfKind(sentences, "GGA"))
      rmc == Head(OfKind(sentences, "RMC"))
      listed == Len(IdsOf(gsa))
      several == told.marks.avail
                   /\ Cardinality({c \in Constellations : told.marks.ids[c] # {}}) > 1
  IN  "count" \in DOMAIN gga =>
        /\ gga.count = IF listed > 12 THEN 12 ELSE listed
        /\ rmc.valid <=> listed > 0
        /\ \A i \in 1..Len(sentences) : sentences[i].talker = gga.talker
        /\ gga.talker = "GN" <=> several /\ listed > 0
        /\ listed > 0 /\ ~several => gga.talker = TalkerName[gsa[1].system]

\* A satellite's place among the sentences: talker, signal and the number it
\* is known by there, blank for a GLONASS satellite of unknown slot.
Entry(sv) ==
  <<TalkerName[sv.type],
    SignalId(IF sv.sig = "none" THEN DefaultSignal[sv.type] ELSE sv.sig),
    CASE sv.type = "SBAS" -> sv.id - SbasSvIdOffset
      [] sv.type = "GLONASS" -> IF sv.id = GloSlotUnknown THEN BlankId ELSE sv.id
      [] OTHER -> sv.id - SvIdOffset[sv.type]>>
Entries(sentences) ==
  FoldLeft(LAMBDA all, s :
             all \o [i \in 1..Len(s.ids) |->
                       <<s.talker, SignalId(s.family.sig), s.ids[i]>>], <<>>, sentences)
Times(x, seq) == Cardinality({i \in 1..Len(seq) : seq[i] = x})

\* The sentences of satellites list every satellite of the report as often as
\* the report has it, under its number, and nothing else, in as many sentences
\* and with the count they say. Left out are the numbers of GPS satellites that
\* follow one of SBAS, printed with its offset, and, by the premise below,
\* reports with a signal the sentences do not know: its satellites are counted
\* and not listed.
KnownSignal(sv) == ListedIn(sv, CountedIn(sv))
AfterSbas(svs, i) ==
  /\ svs[i].type = "GPS"
  /\ \E j \in 1..i : svs[j].type = "SBAS" /\ Entry(svs[j])[2] = Entry(svs[i])[2]
SvSentencesAgree(svs, sentences) ==
  LET entries == Entries(sentences)
      own == [i \in 1..Len(svs) |-> IF AfterSbas(svs, i) THEN <<>> ELSE Entry(svs[i])]
  IN  /\ Len(entries) = Len(svs)
      /\ \A i \in 1..Len(svs) :
           AfterSbas(svs, i) \/ Times(own[i], entries) = Times(own[i], own)
      /\ \A i \in 1..Len(sentences) :
           LET same == SelectSeq(sentences, LAMBDA s : s.family = sentences[i].family)
           IN  sentences[i].total = Len(same) /\ sentences[i].count = Len(IdsOf(same))

OfAFix(sentences) == OfKind(sentences, "GGA") # <<>>
AllSignalsKnown ==
  \A svs \in Handed("gnssSv") : \A i \in 1..Len(svs) : KnownSignal(svs[i])

\* The first fix of the first session comes with sentences (the reset of
\* mPrevNmeaRptTimeNsec in startTimeBasedTrackingMultiplex).
FirstFixHasNmea ==
  [][fresh /\ ~fresh' /\ opt.ap => \A c \in Clients :
       Has(c, "gnssNmea") => \E d \in ToSet(out') : d.to = c /\ d.cb = "gnssNmea"]_reportVars

\* What is handed out as NMEA agrees with itself and with the fix or the
\* satellites it is made of (loc_nmea_generate_pos, loc_nmea_generate_sv), for
\* satellites with signals the sentences know, and the first fix's sentences
\* are there.
SentencesAreSound ==
  /\ [](\A sentences \in Handed("gnssNmea") :
          IF OfAFix(sentences) THEN FixSentencesAgree(sentences)
          ELSE AllSignalsKnown => \A svs \in Handed("gnssSv") :
                                    SvSentencesAgree(svs, sentences))
  /\ FirstFixHasNmea
=============================================================================
