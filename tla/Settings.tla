------------------------------ MODULE Settings ------------------------------
(***************************************************************************)
(* The other commands of the control clients that GnssAdapter brings to    *)
(* the engine: settings it remembers and sends again when the engine       *)
(* restarts, requests it answers by session id, the measurement            *)
(* corrections a client opens, the positions and times it injects.  They   *)
(* share the two queues of GnssConfig and its engine.                      *)
(*                                                                         *)
(* At engine up, setConfig posts one call to the LocApi's thread: there,   *)
(* after the lock and the blacklist, the adapter's remembered settings are *)
(* read (and first written, from gps.conf) while the adapter's thread may  *)
(* write them.                                                             *)
(***************************************************************************)
EXTENDS GnssConfig, FiniteSets

CONSTANTS
  Values,       (* what the clients set a setting to                       *)
  MaxAsks,      (* bound: requests with a session id                       *)
  MaxSeconds    (* bound: the clock                                        *)

ASSUME SettingsAssumption ==
  Values \cap {"file", "unset"} = {} /\ MaxAsks \in Nat /\ MaxSeconds \in Nat

Unset == "unset"
Kept == {"tunc", "pace"}      (* remembered, and taken by SynergyLocApi     *)

VARIABLES
  stored,       (* mLocConfigInfo, Unset where isValid is FALSE            *)
  has,          (* [Kept -> value], the engine's                           *)
  asks,         (* the requests, by session id                             *)
  answers,      (* [session id -> number of its responses, 2 for more]     *)
  lastDelete,   (* mLastDeleteAidingDataTime, in seconds since boot        *)
  second,       (* seconds since boot                                      *)
  corr,         (* measurement corrections: whether open, whether the      *)
                (* caller is about to look at the engine's capabilities,   *)
                (* and what it was told                                    *)
  antenna,      (* mIsAntennaInfoInterfaceOpened                           *)
  blocked,      (* mBlockCPIInfo.blockedTillTsMs, in seconds               *)
  asked,        (* [Kept -> the value last handled, Unset before]          *)
  raced         (* those written while the LocApi's thread held a value    *)

askVars == <<asks, answers, lastDelete, asked>>
ownVars == <<corr, antenna, blocked>>
settingVars == <<stored, has, askVars, second, ownVars, raced>>
allVars == <<vars, settingVars>>

SettingsInit ==
  /\ Init
  /\ stored = [s \in Kept |-> Unset]
  /\ has = [s \in Kept |-> Unset]
  /\ asks = <<>>
  /\ answers = [id \in 1..MaxAsks |-> 0]
  /\ lastDelete = 0 /\ second = 1
  /\ corr = [open |-> FALSE, looking |-> FALSE, told |-> {}]
  /\ antenna = FALSE
  /\ blocked = 0
  /\ asked = [s \in Kept |-> Unset]
  /\ raced = {}

-----------------------------------------------------------------------------
(* The callers' threads.                                                   *)

KeepAdapter == UNCHANGED <<adapterVars, engine, enables, world, stored, has, raced>>

(* Every such command takes a session id and posts its message.            *)
Ask(m) ==
  /\ Len(asks) < MaxAsks
  /\ asks' = Append(asks, m)
  /\ Send([kind |-> m.kind, ask |-> m, id |-> Len(asks) + 1])
  /\ KeepAdapter
  /\ UNCHANGED <<api, answers, lastDelete, asked, second, ownVars>>

SetConstrainedTuncCommand(v) == Ask([kind |-> "set", setting |-> "tunc", value |-> v])
SetPositionAssistedClockEstimatorCommand(v) ==
  Ask([kind |-> "set", setting |-> "pace", value |-> v])
ConfigLeverArmCommand == Ask([kind |-> "leverArm"])
ConfigDeadReckoningEngineParamsCommand == Ask([kind |-> "dreParams"])
ConfigEngineRunStateCommand(dre) == Ask([kind |-> "runState", dre |-> dre])
GnssDeleteAidingDataCommand(spe) == Ask([kind |-> "delete", spe |-> spe])

(* The LocApi has only LocApiBase's code for these, which does nothing.    *)
ConfigRobustLocationCommand == Ask([kind |-> "unserved", what |-> "robust"])
GnssUpdateSecondaryBandConfigCommand == Ask([kind |-> "unserved", what |-> "band"])
GnssGetSecondaryBandConfigCommand == Ask([kind |-> "unserved", what |-> "getBand"])

(* gnssGetConfigCommand, one flag at a time.                               *)
GetFlags == {"lock", "blacklist", "robust"}
GnssGetConfigCommand(flag) == Ask([kind |-> "get", flag |-> flag])

(* openMeasCorrCommand: opens, then looks at the capabilities.             *)
OpenMeasCorrCommand ==
  /\ HasRoom
  /\ ~corr.open /\ ~corr.looking
  /\ corr' = [open |-> TRUE, looking |-> TRUE, told |-> {}]
  /\ KeepAdapter
  /\ UNCHANGED <<api, queue, askVars, second, antenna, blocked>>

MeasCorrCapabilities == IF world.supported THEN "all" ELSE "none"

OpenMeasCorrLooks ==
  /\ corr.looking
  /\ IF known /\ world.supported
     THEN queue' = Append(queue, [kind |-> "measCorr", mask |-> "all"])
     ELSE UNCHANGED queue
  /\ corr' = [corr EXCEPT !.looking = FALSE,
                          !.told = IF known /\ ~world.supported THEN @ \cup {"refused"} ELSE @]
  /\ KeepAdapter
  /\ UNCHANGED <<api, askVars, second, antenna, blocked>>

CloseMeasCorrCommand ==
  /\ corr.open /\ ~corr.looking
  /\ corr' = [corr EXCEPT !.open = FALSE]
  /\ KeepAdapter
  /\ UNCHANGED <<api, queue, askVars, second, antenna, blocked>>

MeasCorrSetCorrectionsCommand ==
  /\ world.supported
  /\ Send([kind |-> "corrections"])
  /\ KeepAdapter
  /\ UNCHANGED <<api, askVars, second, ownVars>>

(* Refused until closed, once opened.                                      *)
AntennaInfoInitCommand ==
  /\ ~antenna
  /\ antenna' = TRUE
  /\ Send([kind |-> "antenna"])
  /\ KeepAdapter
  /\ UNCHANGED <<api, askVars, second, corr, blocked>>

AntennaInfoCloseCommand ==
  /\ antenna
  /\ antenna' = FALSE
  /\ KeepAdapter
  /\ UNCHANGED <<queue, api, askVars, second, corr, blocked>>

Post(m) ==
  /\ Send(m)
  /\ KeepAdapter
  /\ UNCHANGED <<api, askVars, second, ownVars>>

(* The position injected is near the one that may be blocked, or not.      *)
InjectLocationCommand(near) == Post([kind |-> "location", near |-> near])
InjectLocationExtCommand == Post([kind |-> "location", near |-> FALSE])
InjectTimeCommand == Post([kind |-> "time"])
BlockCPICommand(seconds) == Post([kind |-> "block", till |-> second + seconds])
UpdateSystemPowerStateCommand == Post([kind |-> "power"])

Tick ==
  /\ second < MaxSeconds
  /\ second' = second + 1
  /\ KeepAdapter
  /\ UNCHANGED <<queue, api, askVars, ownVars>>

-----------------------------------------------------------------------------
(* The adapter's thread.                                                   *)

Taken == queue' = Tail(queue)
KeepSettings == UNCHANGED <<adapterVars, engine, enables, world, has, asks, second>>

(* reportResponse; two stands for more.                                    *)
ReportResponse(answered) ==
  answers' = [id \in DOMAIN answers |->
                IF id \notin answered THEN answers[id] ELSE IF answers[id] = 0 THEN 1 ELSE 2]

(* The LocApi's thread is between its look at a setting and its call.      *)
HoldsValueOf(s) == \E call \in {"default", "send"} : Runs(call) /\ Head(api).setting = s

(* setConstrainedTunc, setPositionAssistedClockEstimator                   *)
SetSetting(s) ==
  /\ Handles("set")
  /\ Head(queue).ask.setting = s
  /\ LET v == Head(queue).ask.value
     IN  /\ stored' = [stored EXCEPT ![s] = v]
         /\ asked' = [asked EXCEPT ![s] = v]
         /\ raced' = IF HoldsValueOf(s) THEN raced \cup {s} ELSE raced \ {s}
         /\ PostCalls(<<[call |-> "set", setting |-> s, value |-> v, id |-> Head(queue).id]>>)
  /\ Taken
  /\ KeepSettings
  /\ UNCHANGED <<answers, lastDelete, ownVars>>
SetConstrainedTunc == SetSetting("tunc")
SetPositionAssistedClockEstimator == SetSetting("pace")

(* The adapter answers what the engine hub does by itself.                 *)
AnswerFor(kinds) ==
  /\ \E kind \in kinds : Handles(kind)
  /\ ReportResponse({Head(queue).id})
  /\ Taken
  /\ KeepSettings
  /\ UNCHANGED <<stored, asked, raced, api, lastDelete, ownVars>>

ConfigLeverArm == AnswerFor({"leverArm"})
ConfigDeadReckoningEngineParams == AnswerFor({"dreParams"})
ConfigEngineRunState == AnswerFor({"runState"})

(* A message for which the LocApi does nothing, or nothing is left to do.  *)
Ignored(kinds) ==
  /\ \E kind \in kinds : Handles(kind)
  /\ Taken
  /\ KeepSettings
  /\ UNCHANGED <<stored, askVars, raced, api, ownVars>>

ConfigUnserved == Ignored({"unserved"})
UpdateSystemPowerState == Ignored({"power"})
SetMeasurementCorrections == Ignored({"corrections"})
ReportGnssAntennaInformation == Ignored({"antenna"})

(* deleteAidingData: the throttle compares whole seconds, so it drops only *)
(* a second deletion within the same one.                                  *)
Throttled == second <= lastDelete

(* A bug to catch: the adapter answers also what the engine answers.       *)
AnswersDeletion(spe) == TRUE
AnswersDeletionItself(spe) == ~spe

(* MsgDeleteAidingData                                                     *)
DeleteAidingData ==
  /\ Handles("delete")
  /\ LET m == Head(queue)
     IN  /\ PostCalls(IF m.ask.spe /\ ~Throttled
                      THEN <<[call |-> "delete", id |-> m.id]>> ELSE <<>>)
         /\ lastDelete' = IF m.ask.spe /\ ~Throttled THEN second ELSE lastDelete
         /\ ReportResponse(IF AnswersDeletionItself(m.ask.spe) THEN {m.id} ELSE {})
  /\ Taken
  /\ KeepSettings
  /\ UNCHANGED <<stored, asked, raced, ownVars>>

(* MsgGnssGetConfig: the id of a robust location setting is left to the    *)
(* LocApi, which has no code for it.                                       *)
GetConfig ==
  /\ known
  /\ Handles("get")
  /\ LET m == Head(queue)
     IN  /\ ReportResponse(IF m.ask.flag = "robust" THEN {} ELSE {m.id})
         /\ PostCalls(IF m.ask.flag = "blacklist" /\ world.supported
                      THEN <<[call |-> "getBlacklist"]>> ELSE <<>>)
  /\ Taken
  /\ KeepSettings
  /\ UNCHANGED <<stored, asked, raced, lastDelete, ownVars>>

(* A LocApiResponse comes back as a message.                               *)
HandleLocApiResponse == AnswerFor({"response"})

(* reportGnssSvIdConfig                                                    *)
ReportGnssSvIdConfig == Ignored({"svIds"})

(* MsgInitMeasCorr                                                         *)
InitMeasCorr ==
  /\ Handles("measCorr")
  /\ corr' = [corr EXCEPT !.told = @ \cup {Head(queue).mask}]
  /\ Taken
  /\ KeepSettings
  /\ UNCHANGED <<stored, askVars, raced, api, antenna, blocked>>

(* MsgInjectLocation, MsgInjectLocationExt                                 *)
InjectLocation ==
  /\ Handles("location")
  /\ PostCalls(IF Head(queue).near /\ second <= blocked THEN <<>>
               ELSE <<[call |-> "inject"]>>)
  /\ Taken
  /\ KeepSettings
  /\ UNCHANGED <<stored, askVars, raced, ownVars>>

InjectTime ==
  /\ Handles("time")
  /\ PostCalls(<<[call |-> "inject"]>>)
  /\ Taken
  /\ KeepSettings
  /\ UNCHANGED <<stored, askVars, raced, ownVars>>

BlockCPI ==
  /\ Handles("block")
  /\ blocked' = Head(queue).till
  /\ Taken
  /\ KeepSettings
  /\ UNCHANGED <<stored, askVars, raced, api, corr, antenna>>

(* What setConfig posts for an interface that is open.                     *)
(* A bug to catch: only to one whose caller found the engine up.           *)
MeasCorrForKnown ==
  IF corr.open /\ known THEN <<[kind |-> "measCorr", mask |-> MeasCorrCapabilities]>> ELSE <<>>
MeasCorrAtEngineUp ==
  IF corr.open THEN <<[kind |-> "measCorr", mask |-> MeasCorrCapabilities]>> ELSE <<>>

(* What its call goes on with.                                             *)
Check(s) == <<[call |-> "check", setting |-> s]>>
SetConfigStep ==
  /\ SetConfig(IF world.settings = {} THEN <<>> ELSE Check("tunc"), MeasCorrAtEngineUp)
  /\ UNCHANGED settingVars

SettingHandlers ==
  \/ SetConstrainedTunc \/ SetPositionAssistedClockEstimator \/ ConfigLeverArm
  \/ ConfigDeadReckoningEngineParams \/ ConfigEngineRunState \/ ConfigUnserved
  \/ UpdateSystemPowerState \/ SetMeasurementCorrections
  \/ ReportGnssAntennaInformation \/ DeleteAidingData \/ GetConfig
  \/ HandleLocApiResponse \/ ReportGnssSvIdConfig \/ InitMeasCorr
  \/ InjectLocation \/ InjectTime \/ BlockCPI

-----------------------------------------------------------------------------
(* The LocApi's thread.                                                    *)

KeepForApi == UNCHANGED <<adapterVars, enables, world, askVars, second, ownVars, raced>>

(* A setting nobody set is loaded from gps.conf "on first boot-up".        *)
LoadsDefault(s) == stored[s] = Unset

CheckSetting ==
  /\ Runs("check")
  /\ LET s == Head(api).setting
     IN  api' = [api EXCEPT ![1] =
                   IF LoadsDefault(s) THEN [call |-> "default", setting |-> s]
                   ELSE [call |-> "send", setting |-> s, value |-> stored[s]]]
  /\ UNCHANGED <<queue, engine, stored, has>>
  /\ KeepForApi

LoadDefault ==
  /\ Runs("default")
  /\ LET s == Head(api).setting
     IN  /\ stored' = [stored EXCEPT ![s] = "file"]
         /\ api' = [api EXCEPT ![1] = [call |-> "send", setting |-> s, value |-> "file"]]
  /\ UNCHANGED <<queue, engine, has>>
  /\ KeepForApi

(* The call is posted behind those that wait.                              *)
SendSetting ==
  /\ Runs("send")
  /\ LET c == Head(api)
     IN  api' = (IF c.setting = "tunc" THEN Check("pace") ELSE <<>>) \o Tail(api)
                \o <<[call |-> "set", setting |-> c.setting, value |-> c.value, id |-> 0]>>
  /\ UNCHANGED <<queue, engine, stored, has>>
  /\ KeepForApi

(* returnToSender                                                          *)
Respond(id) ==
  queue' = IF id = 0 THEN queue ELSE Append(queue, [kind |-> "response", id |-> id])

SetMode ==
  /\ Runs("set")
  /\ LET c == Head(api)
     IN  /\ has' = IF engine.up THEN [has EXCEPT ![c.setting] = c.value] ELSE has
         /\ Respond(c.id)
  /\ api' = Tail(api)
  /\ UNCHANGED <<engine, stored>>
  /\ KeepForApi

DeleteInEngine ==
  /\ Runs("delete")
  /\ Respond(Head(api).id)
  /\ api' = Tail(api)
  /\ UNCHANGED <<engine, stored, has>>
  /\ KeepForApi

(* The engine answers with an event of its own.                            *)
GetBlacklistSv ==
  /\ Runs("getBlacklist")
  /\ queue' = IF engine.up THEN Append(queue, [kind |-> "svIds"]) ELSE queue
  /\ api' = Tail(api)
  /\ UNCHANGED <<engine, stored, has>>
  /\ KeepForApi

InjectPosition ==
  /\ Runs("inject")
  /\ api' = Tail(api)
  /\ UNCHANGED <<queue, engine, stored, has>>
  /\ KeepForApi

(* A restarted engine has none of the settings.                            *)
OpenAnew == Open /\ has' = [s \in Kept |-> Unset]

SettingCalls ==
  CheckSetting \/ LoadDefault \/ SendSetting \/ SetMode \/ DeleteInEngine
  \/ GetBlacklistSv \/ InjectPosition

-----------------------------------------------------------------------------
Looks(what) == what \in world.settings

SettingCommands ==
  \/ /\ Looks("values")
     /\ \E v \in Values : \/ SetConstrainedTuncCommand(v)
                          \/ SetPositionAssistedClockEstimatorCommand(v)
  \/ /\ Looks("asks")
     /\ \/ ConfigLeverArmCommand \/ ConfigDeadReckoningEngineParamsCommand
        \/ \E dre \in BOOLEAN : ConfigEngineRunStateCommand(dre)
        \/ \E spe \in BOOLEAN : GnssDeleteAidingDataCommand(spe)
        \/ \E flag \in GetFlags : GnssGetConfigCommand(flag)
        \/ ConfigRobustLocationCommand \/ GnssUpdateSecondaryBandConfigCommand
        \/ GnssGetSecondaryBandConfigCommand \/ Tick
  \/ /\ Looks("corrections")
     /\ \/ OpenMeasCorrCommand \/ CloseMeasCorrCommand
        \/ MeasCorrSetCorrectionsCommand
        \/ AntennaInfoInitCommand \/ AntennaInfoCloseCommand
  \/ /\ Looks("injections")
     /\ \/ \E near \in BOOLEAN : InjectLocationCommand(near)
        \/ \E seconds \in 0..1 : BlockCPICommand(seconds)
        \/ InjectLocationExtCommand \/ InjectTimeCommand
        \/ UpdateSystemPowerStateCommand \/ Tick

AdapterSteps ==
  \/ AdapterStep /\ UNCHANGED settingVars
  \/ SetConfigStep
  \/ SettingHandlers

ApiSteps ==
  \/ (SetGpsLockSync \/ GnssUpdateConfig \/ SvIdConfigUpdateSync \/ SetBlacklistSv
      \/ SetConstellationControl \/ ResetConstellationControl) /\ UNCHANGED settingVars
  \/ OpenAnew /\ UNCHANGED <<stored, askVars, second, ownVars, raced>>
  \/ SettingCalls

ClientSteps ==
  \/ world.settings = {} /\ ClientStep /\ UNCHANGED settingVars
  \/ SettingCommands
  \/ OpenMeasCorrLooks

Next == AdapterSteps \/ ApiSteps \/ ClientSteps \/ (EngineDown /\ UNCHANGED settingVars)

(* Both threads take their messages as long as there are any.              *)
Spec == SettingsInit /\ [][Next]_allVars
        /\ WF_allVars(AdapterSteps) /\ WF_allVars(ApiSteps)

-----------------------------------------------------------------------------
(* "load tunc configuration from config file on first boot-up"             *)
(* (GnssAdapter.cpp:963): once both queues are empty the engine has what   *)
(* was set last, or else what the file says, after restarts too -- unless  *)
(* it was set while the LocApi's thread held the value before.             *)
ValuesHeld ==
  Settled /\ known /\ world.settings # {} =>
    \A s \in Kept \ raced : has[s] = IF asked[s] = Unset THEN "file" ELSE asked[s]

(* What the adapter remembers the engine has: satellites and               *)
(* constellations as they are remembered, values as they were last set,    *)
(* through every restart until one sends a message that was freed.         *)
SettingsHeld == BlacklistHeld /\ ConstellationsHeldForHal /\ ValuesHeld

(* Whoever opens the measurement corrections is told the capabilities, or  *)
(* refused, whichever of it and the engine comes first                     *)
(* (openMeasCorrCommand, setConfig).                                       *)
MeasCorrTold ==
  Settled /\ known /\ corr.open /\ ~corr.looking =>
    IF world.supported THEN corr.told = {"all"} ELSE corr.told # {}

(* These requests the adapter or the engine answers: but for robust        *)
(* locations the queries, and of the deletions those that leave the        *)
(* engine alone and those whose turn comes when none was within a second.  *)
Served(id) ==
  /\ id <= Len(asks)
  /\ \/ asks[id].kind \in {"set", "leverArm", "dreParams", "runState"}
     \/ asks[id].kind = "get" /\ asks[id].flag # "robust"
     \/ asks[id].kind = "delete" /\ ~asks[id].spe
     \/ Handles("delete") /\ Head(queue).id = id /\ ~Throttled

(* A request is not answered twice, by the adapter and by the engine, or   *)
(* again at each restart of the engine; and one that is served is          *)
(* answered, though the engine may be down, unless the adapter comes to a  *)
(* message that was freed.                                                 *)
AsksAnsweredOnce ==
  /\ [](\A id \in 1..Len(asks) : answers[id] <= 1)
  /\ \A id \in 1..MaxAsks : Served(id) ~> (answers[id] = 1 \/ Undefined)

=============================================================================
