---------------------------- MODULE EarlyWarning ----------------------------
(* The early warning watch (scanner/early_warning_watch.py): a process that  *)
(* runs to its end each time, reads the snapshot and the levels it saved     *)
(* last, judges each coin it watches by its minute candles, tells Telegram   *)
(* of a coin that enters, escalates or leaves an alert, and saves levels and *)
(* history once every message is out.  A read of a file or of the candles    *)
(* may fail quietly; a message or a write may fail and end the run.          *)
EXTENDS Integers, FiniteSets

CONSTANTS Watchable, MaxWatch, MaxRuns, Nought

VARIABLES saved, logged, made, run, said, sends, doubt
wvars == <<saved, logged, made, run, said, sends, doubt>>

Levels == {"QUIET", "WATCH", "ORANGE", "RED"}
Alerting == {"ORANGE", "RED"}
Rank(level) == CASE level = "QUIET" -> 0 [] level = "WATCH" -> 1
                 [] level = "ORANGE" -> 2 [] level = "RED" -> 3

(* A fresh state: nothing saved (a coin without a level reads as QUIET), the *)
(* reader told of nothing.  said, sends and doubt are the reader's side:     *)
(* the level last announced of a coin, the messages sent of it, and the      *)
(* coins whose announced level the program may have lost: announced by a run *)
(* that died before saving, cleared without a word, or saved by a run that   *)
(* had read nothing.                                                         *)
WInit == /\ saved = [c \in Watchable |-> "QUIET"] /\ logged = {}
         /\ made = 0 /\ run = Nought
         /\ said = [c \in Watchable |-> "QUIET"] /\ sends = [c \in Watchable |-> 0]
         /\ doubt = {}

-----------------------------------------------------------------------------
(* The coins chosen by their scores out of a usable snapshot; one missing or *)
(* older than sixteen hours ends the run with nothing done.                  *)
Watchlists == {w \in SUBSET Watchable : Cardinality(w) <= MaxWatch}

(* The level the last minutes of a coin earn; a coin whose candles cannot be *)
(* read, or are too few, has none.                                           *)
Readings(watch) == [watch -> Levels \cup {Nought}]
Observed(r) == {c \in r.watch : r.level[c] # Nought}

(* What a run that is going on has read, kept and told.                     *)
AllReadings == UNION {Readings(watch) : watch \in SUBSET Watchable}
RunStates ==
  [watch : SUBSET Watchable, level : AllReadings,
   left : SUBSET Watchable, state : [Watchable -> Levels], read : BOOLEAN,
   told : SUBSET Watchable, gone : SUBSET Watchable, at : {"judge", "state", "history"}]

ASSUME WarningAssumption == Nought \notin Levels \cup RunStates

(* A run reads the snapshot, the candles and the levels saved last; a failed *)
(* read of the levels looks like an empty file.                              *)
Begin ==
  /\ run = Nought /\ made < MaxRuns
  /\ \E watch \in Watchlists : \E level \in Readings(watch), read \in BOOLEAN :
       run' = [watch |-> watch, level |-> level, left |-> {c \in watch : level[c] # Nought},
               state |-> IF read THEN saved ELSE [c \in Watchable |-> "QUIET"],
               read |-> read, told |-> {}, gone |-> {}, at |-> "judge"]
  /\ made' = made + 1
  /\ UNCHANGED <<saved, logged, said, sends, doubt>>

(* mutant: an alert that has sunk to orange is cleared, and saved, as well *)
ClearsSunk(current, previous) ==
  previous \in Alerting /\ Rank(current) < Rank(previous)
(* mutant: an unchanged alert is sent again *)
AlertsAgain(current, previous) ==
  current \in Alerting /\ Rank(current) >= Rank(previous)

Alerts(current, previous) == current \in Alerting /\ Rank(current) > Rank(previous)
Clears(current, previous) == previous \in Alerting /\ current \notin Alerting
News(c) == Alerts(run.level[c], run.state[c]) \/ Clears(run.level[c], run.state[c])
Judging(c) == run # Nought /\ run.at = "judge" /\ c \in run.left
Messaged(c) == /\ said' = [said EXCEPT ![c] = run.level[c]]
                /\ sends' = [sends EXCEPT ![c] = @ + 1]

(* One coin is judged: news is sent and the level kept in memory; without    *)
(* news the level of before stands, though the coin may have sunk to orange. *)
Tell(c) ==
  /\ Judging(c) /\ News(c) /\ Messaged(c)
  /\ run' = [run EXCEPT !.left = @ \ {c}, !.state[c] = run.level[c], !.told = @ \cup {c}]
  /\ UNCHANGED <<saved, logged, made, doubt>>
Skip(c) ==
  /\ Judging(c) /\ ~News(c) /\ run' = [run EXCEPT !.left = @ \ {c}]
  /\ UNCHANGED <<saved, logged, made, said, sends, doubt>>

(* The coins in alert that this run has not observed, whatever the reason,   *)
(* are cleared without a message.                                            *)
Dropped(r) == {c \in Watchable \ Observed(r) : r.state[c] \in Alerting}
Drop ==
  /\ run # Nought /\ run.at = "judge" /\ run.left = {}
  /\ LET gone == Dropped(run)
     IN run' = IF run.told \cup gone = {} THEN Nought
               ELSE [run EXCEPT !.state = [c \in Watchable |-> IF c \in gone THEN "QUIET" ELSE @[c]],
                                !.gone = gone, !.at = "state"]
  /\ UNCHANGED <<saved, logged, made, said, sends, doubt>>

(* The levels replace the file; then the events are appended to what could   *)
(* be read of the history, which is nothing when the read fails.             *)
Unread == IF run.read THEN {} ELSE {c \in Watchable \ run.told : said[c] \in Alerting}
SaveState ==
  /\ run # Nought /\ run.at = "state"
  /\ saved' = run.state /\ run' = [run EXCEPT !.at = "history"]
  /\ doubt' = (doubt \ run.told) \cup run.gone \cup Unread
  /\ UNCHANGED <<logged, made, said, sends>>
SaveHistory ==
  /\ run # Nought /\ run.at = "history"
  /\ \E read \in BOOLEAN :
       logged' = (IF read THEN logged ELSE {}) \cup {<<made, c>> : c \in run.told \cup run.gone}
  /\ run' = Nought /\ UNCHANGED <<saved, made, said, sends, doubt>>

(* A send or a write raises, or the process is killed.  The message that     *)
(* failed may have arrived all the same.                                     *)
RunDies ==
  /\ run # Nought
  /\ \/ UNCHANGED <<said, sends>> /\ doubt' = doubt \cup (IF run.at = "history" THEN {} ELSE run.told)
     \/ \E c \in Watchable : /\ Judging(c) /\ News(c) /\ Messaged(c)
                          /\ doubt' = doubt \cup run.told \cup {c}
  /\ run' = Nought /\ UNCHANGED <<saved, logged, made>>

WNext == Begin \/ (\E c \in Watchable : Tell(c) \/ Skip(c)) \/ Drop \/ SaveState \/ SaveHistory \/ RunDies
WSpec == WInit /\ [][WNext]_wvars

-----------------------------------------------------------------------------
(* Telegram hears of a coin only when it enters an alert, escalates within   *)
(* one or leaves one (scanner/early_warning_watch.py:8), compared with what  *)
(* it heard of that coin last, over any number of runs and deaths, as long   *)
(* as the run could read its levels and no level announced was lost before.  *)
MessagesAreNews ==
  \A c \in Watchable : sends'[c] # sends[c] /\ run.read /\ c \notin doubt
    => \/ said'[c] \in Alerting /\ Rank(said'[c]) > Rank(said[c])
       \/ said[c] \in Alerting /\ said'[c] \notin Alerting

WarningsAreNews == [][MessagesAreNews]_wvars

(* A coin is cleared without a message only when it "falls out of the        *)
(* current VPD watchlist" (scanner/early_warning_watch.py:425).              *)
OnlyLeaversAreCleared == run # Nought => run.gone \cap run.watch = {}
=============================================================================
