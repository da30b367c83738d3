------------------------------ MODULE MCServices ------------------------------
(* Small instances of the services around the accounts: alerts, audit,       *)
(* warnings, books, market context, console and the shadow pipeline: one at  *)
(* a time, chosen at the start.  Each is checked as it stands; nothing else  *)
(* moves.                                                                    *)
EXTENDS CaptureAlerts, TelegramConsole, CaptureAudit, EarlyWarning, ShadowSystem, BookFeed, MarketContext

CONSTANTS k1, k2, u, v, x

VARIABLE which

-----------------------------------------------------------------------------
\* The console: somebody who may execute, a reader and a stranger.
Written == [user : {u}, cmd : {"vpd", "plan", "drop"}]
           \cup [user : {v}, cmd : {"regime"}] \cup [user : {x}, cmd : {"vpd"}]

\* Two state files of one asset: the identities and times of the pipeline.
PickIds == {0, 2} \X {"x"}
PickIntents == [id : PickIds, created : 0 .. 5, expires : 0 .. 7, notional : {100}, hold : {1}]
OneBook == {[price |-> 50, size |-> 2]}
Shadow == {[mode |-> "SHADOW", kill |-> FALSE]}

\* What the theorems about the pipeline suppose of the constants.
ASSUME PipelineAssumption == OneVocabulary

-----------------------------------------------------------------------------
MCInit ==
  /\ LInit /\ TInit /\ AInit /\ WInit /\ SysInit /\ FInit /\ MInit
  /\ which \in {"alerts", "console", "audit", "warning", "pipeline", "feed", "context"}
  /\ which # "alerts" => caught = {}
  /\ which # "feed" => venue = "bybit"

AlertsStep == which = "alerts" /\ LNext /\ UNCHANGED <<which, tvars, avars, wvars, sysVars, bvars, mvars>>
ConsoleStep == which = "console" /\ TNext /\ UNCHANGED <<which, lvars, avars, wvars, sysVars, bvars, mvars>>
AuditStep == which = "audit" /\ ANext /\ UNCHANGED <<which, lvars, tvars, wvars, sysVars, bvars, mvars>>
WarningStep == which = "warning" /\ WNext /\ UNCHANGED <<which, lvars, tvars, avars, sysVars, bvars, mvars>>
PipelineStep == which = "pipeline" /\ SysNext /\ UNCHANGED <<which, lvars, tvars, avars, wvars, bvars, mvars>>
FeedStep == which = "feed" /\ FNext /\ UNCHANGED <<which, lvars, tvars, avars, wvars, sysVars, mvars>>
ContextStep == which = "context" /\ MNext /\ UNCHANGED <<which, lvars, tvars, avars, wvars, sysVars, bvars>>

MCNext ==
  \/ AlertsStep \/ ConsoleStep \/ AuditStep \/ PipelineStep
  \/ WarningStep \/ FeedStep \/ ContextStep

MCSpec == MCInit /\ [][MCNext]_<<which, lvars, tvars, avars, wvars, sysVars, bvars, mvars>>
=============================================================================
