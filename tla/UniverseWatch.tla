--------------------------- MODULE UniverseWatch ---------------------------
(* New coins join the public feed without restarting the others              *)
(* (magi1/fast_universe_watch.py, in the process of magi1/fast_observe.py):  *)
(* the listing is asked again and again, only additions are acted on, each   *)
(* in a stream of its own, and what was observed is kept with the events     *)
(* that announce it.                                                         *)
EXTENDS Integers, FiniteSets

CONSTANTS
  Coins, Malformed,  \* a row of a listing: a coin or nothing that can be read
  Batch,             \* at most Batch coins in a stream
  MaxStarts, MaxStreams,   \* bounds
  NoUniverse

VARIABLES
  listed,            \* by the exchange
  stage,             \* of the process: what it waits for
  symbols, streams,  \* the shared list; the coins of each stream opened
  joining, added,    \* coins still to subscribe; those to be recorded
  lastRun,           \* the universe of the last run, read at the start
  answer,            \* the listing being acted on
  meta, announced,   \* kept: the universe, the coins of all UNIVERSE_ADDED events
  first,             \* history: the first universe kept
  starts
observer == <<symbols, streams, joining, added, lastRun, answer>>
uvars == <<listed, stage, observer, meta, announced, first, starts>>

UInit == /\ listed \in SUBSET Coins \ {{}} /\ stage = "down"
         /\ symbols = {} /\ streams = {} /\ joining = {} /\ added = {} /\ lastRun = {}
         /\ answer = {} /\ meta = NoUniverse /\ announced = {} /\ first = NoUniverse /\ starts = 0

Relist == /\ \E c \in Coins : listed' = IF c \in listed THEN listed \ {c} ELSE listed \cup {c}
          /\ listed' # {}
          /\ UNCHANGED <<stage, observer, meta, announced, first, starts>>

-----------------------------------------------------------------------------
\* parse_markets(): what the exchange may answer, and what is taken of it -- all
\* or nothing: a row that cannot be read, or no coin at all, refuses the whole.
Replies == {listed, listed \cup {Malformed}, {}}
Fetched == {rows \in Replies : rows # {} /\ rows \subseteq Coins}

\* Seeded fault: what the last run observed is not read.
AsListed(now) == now
Previous(now) == IF meta = NoUniverse THEN now ELSE meta

\* The process starts with the listing it fetches.  Nothing is new to the first.
Start == /\ stage = "down" /\ starts < MaxStarts /\ starts' = starts + 1
         /\ answer' \in Fetched /\ symbols' = answer' /\ joining' = answer' /\ streams' = {}
         /\ lastRun' = Previous(answer') /\ added' = answer' \ lastRun'
         /\ stage' = "subscribe"
         /\ UNCHANGED <<listed, meta, announced, first>>

\* subscribe(): stream after stream, with a pause between them.
Subscribe == /\ stage = "subscribe" /\ joining # {} /\ Cardinality(streams) < MaxStreams
             /\ \E group \in SUBSET joining :
                  /\ Cardinality(group) = IF Cardinality(joining) < Batch THEN Cardinality(joining) ELSE Batch
                  /\ streams' = streams \cup {group} /\ joining' = joining \ group
             /\ UNCHANGED <<listed, stage, symbols, added, lastRun, answer, meta, announced, first, starts>>

\* record(): the announcement and the universe in one commit.
Record == /\ stage = "subscribe" /\ joining = {} /\ stage' = "idle"
          /\ announced' = announced \cup added /\ meta' = symbols
          /\ first' = (IF meta = NoUniverse THEN symbols ELSE first)
          /\ UNCHANGED <<listed, observer, starts>>

\* Seeded fault: the coins listed now replace those that are watched.
Replaced(now) == now
Extended(now) == symbols \cup now

\* check() and refresh(): only a listing that was read whole, and only what it adds.
Check == /\ stage = "idle" /\ answer' \in Fetched /\ added' = answer' \ symbols /\ joining' = added'
         /\ symbols' = Extended(answer') /\ stage' = "subscribe"
         /\ UNCHANGED <<listed, streams, lastRun, meta, announced, first, starts>>

\* A stream that ends ends the process; it may also be killed at any moment.
StreamEnds == /\ stage # "down" /\ stage' = "down"
       /\ symbols' = {} /\ streams' = {} /\ joining' = {} /\ added' = {} /\ lastRun' = {} /\ answer' = {}
       /\ UNCHANGED <<listed, meta, announced, first, starts>>

UNext == Relist \/ Start \/ Subscribe \/ Record \/ Check \/ StreamEnds
\* The process runs on, asks every 30 seconds and is restarted by its supervisor.
USpec == UInit /\ [][UNext]_uvars /\ WF_uvars(Start) /\ WF_uvars(Subscribe)
         /\ WF_uvars(Record) /\ WF_uvars(Check)

-----------------------------------------------------------------------------
\* While the process waits for the next listing, every coin it has seen listed
\* since its start is in exactly one stream, whatever was delisted meanwhile;
\* and the universe it keeps holds no coin that was neither there at first nor
\* announced (magi1/fast_universe_watch.py:3, :93 and :101).
EachCoinOnce ==
  /\ stage = "idle" => /\ UNION streams = symbols /\ answer \subseteq symbols
                    /\ \A g, h \in streams : g # h => g \cap h = {}
                    /\ meta = symbols
  /\ meta # NoUniverse /\ first # NoUniverse => meta \subseteq first \cup announced
=============================================================================
