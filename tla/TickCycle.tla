------------------------------ MODULE TickCycle ------------------------------
(***************************************************************************)
(* One session of the limit-cycle account (magi2/fast_tick_paper.py,       *)
(* CurrentTickLedger) and its two threads (magi2/fast_tick_service.py):    *)
(* one simulates limit orders on the public trade tape and a queue         *)
(* estimate, the other closes the session at its deadline on public books. *)
(*                                                                         *)
(* A buy at the last price is followed by a sell of what was acquired, at  *)
(* least a tick above its average, and so on.  Prices and quantities are   *)
(* small integers, the tick is 1; fees, slippage and lot rounding are left *)
(* out.  A page shows the last PageSize trades of the tape.                *)
(***************************************************************************)
EXTENDS Integers, Sequences, FiniteSets, FiniteSetsExt, SequencesExt

CONSTANTS
  Prices,
  Budget,            \* cash of the session at the start
  MinLots,           \* the smallest order the exchange takes
  PageSize,
  LATENCY, AGE, DEADLINE,
  MaxTime, MaxTrades,
  None

VARIABLES
  now,
  tape,              \* the public trades: [ts, price, qty, buyer]
  t,                 \* the session
  limit,             \* the limit thread: "idle" or its page and its book
  exiting,           \* the deadline thread: None, or when it asked for a book
  used               \* history: lots of each trade that served the queue or an order

kvars == <<now, tape, t, limit, exiting, used>>

Ready == [phase |-> "idle", page |-> <<>>, at |-> None, book |-> None]

Session == [status |-> "ENTRY_PENDING", cash |-> Budget, qty |-> 0, gross |-> 0, order |-> None,
            entered |-> FALSE, exitFrom |-> None, lastBook |-> None]

\* A sell placed before the floor existed may rest below the average.
Inherited == [Session EXCEPT !.status = "OPEN", !.qty = 2, !.gross = 4, !.cash = Budget - 4, !.entered = TRUE,
              !.order = [side |-> "SELL", price |-> 2, remaining |-> 2, ready |-> 0, active |-> 0, queue |-> 0,
                         resync |-> FALSE, seen |-> {1}, cursor |-> 0, same |-> {1}, front |-> 0, made |-> 0]]

\* Buyers trade at the highest price, sellers at the lowest.
PublicTrade(ts, buyer) ==
  [ts |-> ts, price |-> IF buyer THEN Max(Prices) ELSE Min(Prices), qty |-> 2, buyer |-> buyer]

KInit ==
  /\ now = 0 /\ t \in {Session, Inherited}
  /\ tape = <<PublicTrade(0, TRUE)>>
  /\ limit = Ready /\ exiting = None /\ used = <<0>>

Pass == /\ now < MaxTime /\ now' = now + 1 /\ UNCHANGED <<tape, t, limit, exiting, used>>

\* External: a trade on the exchange, while the session can still use it.
Trade ==
  /\ Len(tape) < MaxTrades /\ t.status \in {"ENTRY_PENDING", "OPEN"} /\ now < DEADLINE
  /\ \E buyer \in BOOLEAN : tape' = Append(tape, PublicTrade(now, buyer))
  /\ used' = Append(used, 0)
  /\ UNCHANGED <<now, t, limit, exiting>>

-----------------------------------------------------------------------------
\* Fills.

\* A price above the average that the fills of the session had.
MinimumSell(s) == s.gross \div s.qty + 1

SellPrice(s, last) == Max({last + 1, MinimumSell(s)})

Bought(s, qty, price) ==
  LET b == [s EXCEPT !.status = "OPEN", !.entered = TRUE, !.cash = @ - qty * price, !.qty = @ + qty,
                     !.gross = @ + qty * price, !.order.remaining = @ - qty]
  IN IF b.qty >= MinLots THEN [b EXCEPT !.order = None] ELSE b

\* The cost leaves in proportion; the average of the rest stays.
SoldOff(s, qty, price) ==
  LET rest == s.qty - qty IN
  [s EXCEPT !.cash = @ + qty * price, !.qty = rest, !.gross = (@ * rest) \div s.qty]

Filled(s, qty, price) ==
  IF s.order.side = "BUY" THEN Bought(s, qty, price)
  ELSE LET r == SoldOff(s, qty, price) IN
       IF r.qty = 0 THEN [r EXCEPT !.order = None] ELSE [r EXCEPT !.order.remaining = @ - qty]

\* _expire(): the order is canceled; what is held is to be sold at the market.
Ended(s) == [s EXCEPT !.order = None, !.status = IF s.entered THEN "CLOSED" ELSE "SKIPPED"]

Expire(s) ==
  IF s.qty = 0 THEN Ended(s)
  ELSE IF s.status = "EXIT_PENDING" THEN s
  ELSE [s EXCEPT !.order = None, !.status = "EXIT_PENDING", !.exitFrom = now]

-----------------------------------------------------------------------------
\* One step of the limit order.

LastPrice(page) == tape[page[Len(page)]].price

Place(s, page) ==
  LET selling == s.qty > 0
      price == IF selling THEN SellPrice(s, LastPrice(page)) ELSE LastPrice(page)
      lots == IF selling THEN s.qty ELSE s.cash \div price
  IN IF lots < MinLots THEN s
     ELSE [s EXCEPT !.order = [side |-> IF selling THEN "SELL" ELSE "BUY", price |-> price, remaining |-> lots,
                               ready |-> now + LATENCY, active |-> None, queue |-> 0, resync |-> FALSE,
                               seen |-> {}, cursor |-> 0, same |-> {}, front |-> 0, made |-> 0]]

\* The page an order has seen: its trades, its last time and those of that time.
Cursor(order, page) ==
  LET ts == tape[page[Len(page)]].ts IN
  [order EXCEPT !.seen = Range(page), !.cursor = ts, !.same = {i \in Range(page) : tape[i].ts = ts}]

\* The order joins the queue that a later book shows; what crosses it trades.
Activate(s, page, book) ==
  LET order == Cursor([s.order EXCEPT !.active = now, !.queue = book.queue, !.front = book.queue], page)
      lots == Min({order.remaining, book.crossing})
      placed == [s EXCEPT !.order = order]
  IN IF lots = 0 THEN placed ELSE Filled(placed, lots, order.price)

Resynced(s, page, book) ==
  LET queue == Max({s.order.queue, book.queue}) IN
  [s EXCEPT !.order = Cursor([@ EXCEPT !.queue = queue, !.resync = FALSE], page)]

\* Seeded fault: the trades of the page whose time is the cursor's count again.
AnyRecent(order, page) == SelectSeq(page, LAMBDA i : tape[i].ts >= order.cursor)

New(order, page) ==
  SelectSeq(page, LAMBDA i : tape[i].ts > order.cursor \/ (tape[i].ts = order.cursor /\ i \notin order.same))

Eligible(order, r) ==
  /\ r.ts >= order.active /\ r.ts < DEADLINE
  /\ IF order.side = "BUY" THEN ~ r.buyer /\ r.price <= order.price ELSE r.buyer /\ r.price >= order.price

\* A trade of the tape first serves the queue, then the order, at its limit.
Maker(acc, i) ==
  IF acc.s.order = None \/ ~ Eligible(acc.s.order, tape[i]) THEN acc
  ELSE LET o == acc.s.order
           ahead == Min({o.queue, tape[i].qty})
           lots == Min({o.remaining, tape[i].qty - ahead})
           waiting == [acc.s EXCEPT !.order.queue = @ - ahead, !.order.made = @ + lots]
       IN [s |-> IF lots = 0 THEN waiting ELSE Filled(waiting, lots, o.price),
           used |-> [acc.used EXCEPT ![i] = @ + ahead + lots]]

Through(s, page) ==
  LET end == FoldLeft(Maker, [s |-> s, used |-> used], New(s.order, page)) IN
  IF end.s.order = None THEN end ELSE [end EXCEPT !.s.order = Cursor(@, page)]

\* Seeded fault: an order that rests is left where it is.
Unfloored(s) == s

\* check_sell_floor()
Floored(s) ==
  IF s.order # None /\ s.order.side = "SELL" /\ s.order.price < MinimumSell(s)
    THEN [s EXCEPT !.order = None] ELSE s

FreshTape(at) == now - at <= AGE

FreshBook(order, book) == book.asked >= order.ready /\ now - book.at <= AGE

\* limit_step(): the session and the use of the tape after it.
Step(s0, page, book) ==
  LET s == Floored(s0)
      kept(x) == [s |-> x, used |-> used]
  IN IF s0.status \notin {"ENTRY_PENDING", "OPEN"} THEN kept(s0)
     ELSE IF now >= DEADLINE THEN kept(Expire(s0))
     ELSE IF s.order = None THEN kept(Place(s, page))
     ELSE IF now < s.order.ready THEN kept(s)
     ELSE IF s.order.active = None \/ s.order.resync
       THEN IF book = None THEN kept(s)
            ELSE IF ~ FreshBook(s.order, book) \/ ~ book.visible THEN kept(s)
            ELSE kept(IF s.order.resync THEN Resynced(s, page, book) ELSE Activate(s, page, book))
     ELSE IF s.order.seen \cap Range(page) = {} THEN kept([s EXCEPT !.order.resync = TRUE])
     ELSE Through(s, page)

-----------------------------------------------------------------------------
\* The limit thread.

Page == SubSeq([i \in 1 .. Len(tape) |-> i], Max({1, Len(tape) - PageSize + 1}), Len(tape))

NeedsBook == t.order # None /\ (t.order.active = None \/ t.order.resync)

Tape ==
  /\ limit.phase = "idle" /\ t.status \in {"ENTRY_PENDING", "OPEN"} /\ now < DEADLINE
  /\ limit' = [phase |-> IF NeedsBook THEN "book" ELSE "step", page |-> Page, at |-> now, book |-> None]
  /\ UNCHANGED <<now, tape, t, exiting, used>>

Book ==
  /\ limit.phase = "book"
  /\ \E queue, crossing \in 0 .. 1, visible \in BOOLEAN :
       /\ visible \/ queue + crossing = 0
       /\ limit' = [limit EXCEPT !.phase = "step",
                                 !.book = [asked |-> now, at |-> now, queue |-> queue, crossing |-> crossing,
                                           visible |-> visible]]
  /\ UNCHANGED <<now, tape, t, exiting, used>>

\* A step that leaves no order places the next one on the same page.
LimitStep ==
  /\ limit.phase = "step" /\ limit' = Ready
  /\ IF ~ FreshTape(limit.at) THEN UNCHANGED <<t, used>>
     ELSE LET one == Step(t, limit.page, limit.book)
              again == one.s # t /\ one.s.order = None /\ one.s.status \in {"ENTRY_PENDING", "OPEN"}
          IN /\ t' = IF again THEN Place(one.s, limit.page) ELSE one.s
             /\ used' = one.used
  /\ UNCHANGED <<now, tape, exiting>>

Fail ==
  /\ limit.phase # "idle" /\ limit' = Ready
  /\ UNCHANGED <<now, tape, t, exiting, used>>

-----------------------------------------------------------------------------
\* The deadline thread.

Advance ==
  /\ exiting = None /\ now >= DEADLINE /\ t.status \in {"ENTRY_PENDING", "OPEN"}
  /\ t' = Expire(t)
  /\ UNCHANGED <<now, tape, limit, exiting, used>>

AskBook ==
  /\ exiting = None /\ t.status = "EXIT_PENDING" /\ exiting' = now
  /\ UNCHANGED <<now, tape, t, limit, used>>

\* exit(): what the displayed bids take, unless they are those of the last sale.
Exit ==
  /\ exiting # None /\ exiting' = None
  /\ \E price \in Prices, size \in 1 .. 2 :
       LET lots == Min({t.qty, size})
           s == [SoldOff(t, lots, price) EXCEPT !.lastBook = <<price, size>>]
       IN t' = IF t.status # "EXIT_PENDING" \/ exiting < t.exitFrom \/ now - exiting > AGE \/ t.lastBook = <<price, size>>
                 THEN t ELSE IF s.qty = 0 THEN Ended(s) ELSE s
  /\ UNCHANGED <<now, tape, limit, used>>

\* A new process; resting sells below the floor are canceled first.
Restart ==
  /\ limit' = Ready /\ exiting' = None
  /\ t' = IF t.status \notin {"ENTRY_PENDING", "OPEN"} THEN t
          ELSE IF now >= DEADLINE THEN Expire(t) ELSE Floored(t)
  /\ UNCHANGED <<now, tape, used>>

KNext == Pass \/ Trade \/ Tape \/ Book \/ LimitStep \/ Fail \/ Advance \/ AskBook \/ Exit \/ Restart

KSpec == KInit /\ [][KNext]_kvars

-----------------------------------------------------------------------------

\* A lot of a public trade fills an order at most once, whatever pages overlap,
\* are lost or repeat, and an order never trades before what the queue ahead
\* of it had traded (fast_tick_paper.py:178, :222, :241-256).
TapeIsUsedOnce ==
  /\ \A i \in DOMAIN tape : used[i] <= tape[i].qty
  /\ \A o \in {t.order} \ {None} : o.made > 0 =>
       o.front + o.made <= MapThenSumSet(LAMBDA i : IF Eligible(o, tape[i]) THEN tape[i].qty ELSE 0, DOMAIN tape)

\* A limit order fills only before the deadline, from trades since it became
\* active, within its cash, and a limit sale never loses, be it of an order
\* from before the floor; after the deadline the session only sells at the
\* market and ends (fast_tick_paper.py:189, :248, :312-333).
LimitsAreKept ==
  /\ \A i \in DOMAIN tape : used'[i] > used[i] =>
       tape[i].ts < DEADLINE /\ t.order # None /\ tape[i].ts >= t.order.active
  /\ (t'.qty > t.qty => now < DEADLINE /\ t'.cash >= 0 /\ t.status \in {"ENTRY_PENDING", "OPEN"})
  /\ (t'.qty < t.qty /\ t.status # "EXIT_PENDING" => t'.cash - t.cash > t.gross - t'.gross)
  /\ (t.status \in {"CLOSED", "SKIPPED"} => t' = t)

=============================================================================
