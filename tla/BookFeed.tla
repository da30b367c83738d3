------------------------------ MODULE BookFeed ------------------------------
(* How an order book is rebuilt from the public feed of an exchange, in the  *)
(* collectors (magi1/collectors/public_ws.py) and in the workers of the      *)
(* other venues (magi1/fast_venue.py): a snapshot, then changes, applied in  *)
(* order to the adapter of one connection.  What cannot be applied raises    *)
(* and ends the connection; the next one starts with a new adapter.          *)
(*                                                                           *)
(* One side of one book: a price that is higher is better.  "bybit" numbers  *)
(* its changes, which makes a repeated one harmless and leaves a lost one    *)
(* unnoticed; "kraken" sends a checksum of the whole view; "binance" sends   *)
(* whole views, whose numbers only the worker ("fast_binance") looks at.     *)
EXTENDS Integers, FiniteSets, Sequences, FiniteSetsExt

CONSTANTS FeedVenues, Prices, MaxQty, Depth, MaxMoves, MaxWire, MaxInterruptions, NoBook

VARIABLES venue,
          truth, seq,       \* the book of the exchange and its last number
          subscribed,       \* whether its snapshot was sent on this connection
          wire, up,         \* messages on the way; whether a connection stands
          adapter,          \* book and number
          emitted,          \* the last book handed on
          missed,           \* history: a numbered message was lost since the last snapshot
          interruptions
bvars == <<venue, truth, seq, subscribed, wire, up, adapter, emitted, missed, interruptions>>

WholeViews == {"binance", "fast_binance"}
Numbered == venue \in {"bybit", "fast_binance"}

Better(p) == {o \in Prices : o > p}
Empty == [p \in Prices |-> 0]

\* The best levels of a book: what the exchange shows, and what is kept of it.
Best(book) ==
  [p \in Prices |-> IF Cardinality({o \in Better(p) : book[o] > 0}) < Depth THEN book[p] ELSE 0]

\* What may be on the way: a snapshot, a whole view, or the levels that changed.
Books == [Prices -> Nat]
PartBooks == UNION {[shown -> Nat] : shown \in SUBSET Prices}
Deliveries == [kind : {"snapshot", "whole", "delta"}, seq : Nat, levels : PartBooks, view : Books]

ASSUME FeedAssumption ==
  /\ FeedVenues \subseteq {"bybit", "kraken"} \cup WholeViews /\ Prices \subseteq Int /\ IsFiniteSet(Prices)
  /\ {MaxQty, Depth, MaxMoves, MaxWire, MaxInterruptions} \subseteq Nat
  /\ NoBook \notin Int /\ NoBook \notin Books

FreshAdapter == [book |-> NoBook, seq |-> NoBook]

FInit == /\ venue \in FeedVenues /\ truth = Empty /\ seq = 1 /\ subscribed = FALSE /\ wire = <<>>
         /\ up = FALSE /\ adapter = FreshAdapter
         /\ emitted = NoBook /\ missed = FALSE /\ interruptions = 0

-----------------------------------------------------------------------------
(* The exchange                                                            *)

Message(kind, levels, book) == [kind |-> kind, seq |-> seq', levels |-> levels, view |-> Best(book)]

Whole(book) == [p \in {o \in Prices : Best(book)[o] > 0} |-> Best(book)[p]]

\* What changed in the view.  A level that others push out of it may be
\* withdrawn, or left for the reader to cut.
Differences(old, new) ==
  LET differ == {p \in Prices : Best(old)[p] # Best(new)[p]}
      pushed == {p \in differ : Best(new)[p] = 0 /\ new[p] > 0}
  IN {[p \in differ \ kept |-> Best(new)[p]] : kept \in SUBSET pushed}

Change ==
  /\ seq < MaxMoves /\ Len(wire) < MaxWire /\ seq' = seq + 1
  /\ \E p \in Prices, q \in 0 .. MaxQty :
       /\ q # truth[p] /\ truth' = [truth EXCEPT ![p] = q]
       /\ IF ~up THEN UNCHANGED wire
          ELSE IF venue \in WholeViews
            THEN wire' = Append(wire, Message("whole", Whole(truth'), truth'))
          ELSE \E levels \in Differences(truth, truth') :
                 wire' = IF levels = <<>> THEN wire
                         ELSE Append(wire, Message("delta", levels, truth'))
  /\ UNCHANGED <<venue, subscribed, up, adapter, emitted, missed, interruptions>>

\* The snapshot of the subscription; changes may overtake it.
Snapshot ==
  /\ up /\ ~subscribed /\ venue \notin WholeViews /\ Len(wire) < MaxWire
  /\ subscribed' = TRUE
  /\ seq' = seq /\ wire' = Append(wire, Message("snapshot", Whole(truth), truth))
  /\ UNCHANGED <<venue, truth, up, adapter, emitted, missed, interruptions>>

\* The service of the exchange restarts: a new snapshot, numbered from 1.
Renumber ==
  /\ venue = "bybit" /\ subscribed /\ Len(wire) < MaxWire
  /\ interruptions < MaxInterruptions /\ interruptions' = interruptions + 1
  /\ seq' = 1 /\ wire' = Append(wire, Message("snapshot", Whole(truth), truth))
  /\ UNCHANGED <<venue, truth, subscribed, up, adapter, emitted, missed>>

Repeat ==
  /\ wire # <<>>
  /\ interruptions < MaxInterruptions /\ interruptions' = interruptions + 1
  /\ wire' = <<Head(wire)>> \o wire
  /\ UNCHANGED <<venue, truth, seq, subscribed, up, adapter, emitted, missed>>

Lose ==
  /\ wire # <<>>
  /\ interruptions < MaxInterruptions /\ interruptions' = interruptions + 1
  /\ wire' = Tail(wire) /\ missed' = (missed \/ venue = "bybit")
  /\ UNCHANGED <<venue, truth, seq, subscribed, up, adapter, emitted>>

-----------------------------------------------------------------------------
(* The reader                                                              *)

\* Seeded fault: the adapter of the venue outlives its connection.
KeptAdapter(old) == old
AdapterOf(old) == FreshAdapter

Connect ==
  /\ ~up /\ up' = TRUE
  /\ adapter' = AdapterOf(adapter)
  /\ UNCHANGED <<venue, truth, seq, subscribed, wire, emitted, missed, interruptions>>

\* A close, an error, a silence that the heartbeat ends: what was read of the
\* connection is no longer a book of the market.
Down == /\ up' = FALSE /\ subscribed' = FALSE
        /\ wire' = <<>> /\ emitted' = NoBook /\ missed' = FALSE
Close == /\ up /\ interruptions < MaxInterruptions /\ interruptions' = interruptions + 1
         /\ Down /\ UNCHANGED <<venue, truth, seq, adapter>>

\* A snapshot starts the book and its numbers anew.
Started(a, m) ==
  IF m.kind # "delta" THEN [book |-> Empty, seq |-> IF m.kind = "snapshot" THEN NoBook ELSE a.seq]
  ELSE a
\* A number that is not greater is passed over; one that was skipped is not
\* asked about.
Outdone(a, m) == Numbered /\ \E last \in {a.seq} \ {NoBook} : m.seq <= last
Cut(book) == Best(book)

Applied(a, m) ==
  [a EXCEPT !.book = Cut([p \in Prices |-> IF p \in DOMAIN m.levels THEN m.levels[p] ELSE @[p]]),
            !.seq = IF Numbered THEN m.seq ELSE @]
Checked(a, m) == venue = "kraken" => Best(a.book) = m.view

Read ==
  /\ up /\ wire # <<>>
  /\ LET m == Head(wire)
         a == Started(adapter, m)
     IN IF a.book = NoBook THEN Down /\ UNCHANGED adapter
        ELSE IF Outdone(a, m)
          THEN wire' = Tail(wire) /\ adapter' = a /\ UNCHANGED <<up, subscribed, emitted, missed>>
        ELSE IF ~Checked(Applied(a, m), m) THEN Down /\ UNCHANGED adapter
        ELSE /\ adapter' = Applied(a, m) /\ wire' = Tail(wire)
             /\ emitted' = [book |-> adapter'.book, view |-> m.view]
             /\ missed' = (missed /\ m.kind = "delta")
             /\ UNCHANGED <<up, subscribed>>
  /\ UNCHANGED <<venue, truth, seq, interruptions>>

FNext == Change \/ Snapshot \/ Renumber \/ Repeat \/ Lose \/ Connect \/ Close \/ Read
FSpec == FInit /\ [][FNext]_bvars

-----------------------------------------------------------------------------
\* Every book handed on is what the exchange showed when it sent the message,
\* though changes are partial, cut at the depth, repeated or renumbered, and lost
\* where a checksum tells or the whole view comes.  Where changes are only
\* numbered a lost one leaves wrong levels and nobody notices, but not beyond the
\* next snapshot or the next connection (magi1/collectors/public_ws.py:119, :124
\* and :147).
BooksAreTheVenues == emitted # NoBook => emitted.book = emitted.view \/ (venue = "bybit" /\ missed)
=============================================================================
