------------------------------- MODULE Tables -------------------------------
(***************************************************************************)
(* What db_writer keeps in Postgres over time (bin/db_writer.rs) and what  *)
(* a chart reads of it (get_candles in bin/api/main.rs, candle.rs).        *)
(*                                                                         *)
(* Projections has the writer's transactions, acks and trims; here a       *)
(* transaction is one step and the module follows the rows: orders and     *)
(* trades of one market, the candles rolled up from the trades, and the    *)
(* hourly sweep that deletes old rows.  Balance rows are in Views.  One    *)
(* clock stands for Redis', Postgres' and the writer's, in seconds; a      *)
(* transaction reads it once.                                              *)
(***************************************************************************)
EXTENDS Integers, SequencesExt

CONSTANTS Script,           \* the batches the engine emits, in order
          Widths, Labels,   \* INTERVAL_WIDTHS, and the API's labels for them
          OrderDays, TradeDays, CandleDays,   \* retention in clock units; 0 keeps
          RetentionBatch, RetentionMaxBatches, RetentionInterval,
          ReadCount,        \* COUNT of XREADGROUP
          MaxLimit, Limits, \* MAX_CANDLES_LIMIT, limits a client asks for
          None,
          MaxClock, MaxFaults   \* bounds

ASSUME WidthsAssumption == Widths \subseteq Nat \ {0} /\ \A l \in DOMAIN Labels : Labels[l] \in Widths
ASSUME RetentionAssumption ==
  /\ {OrderDays, TradeDays, CandleDays, MaxClock, MaxFaults} \subseteq Nat
  /\ {RetentionBatch, RetentionMaxBatches, RetentionInterval, ReadCount, MaxLimit} \subseteq Nat \ {0}

VARIABLES clock,
          published,    \* XADD times: published[i] for the entry with Script[i], seq i - 1
          cursor,       \* entries delivered to the group
          lost,         \* entries whose transaction failed; XREADGROUP > skips them
          tables,       \* [orders, trades, candles], each a partial function of its key
          pc, next_sweep,   \* the writer's loop
          counted,      \* history: trades inserted, in commit order
          chart,        \* a client that pages backwards through the candles
          faults

vars == <<clock, published, cursor, lost, tables, pc, next_sweep, counted, chart, faults>>

-----------------------------------------------------------------------------
(* apply_event                                                             *)

\* "<seq>:<i>", the id of an event in a batch; a stream id would be "<millis>-<n>".
EventId(seq, i) == [form |-> ":", head |-> seq, index |-> i]

\* split_once('-'): only a stream id yields a time.
EntryMillis(id) == IF id.form = "-" THEN id.head ELSE None

TradeTime(id) == IF EntryMillis(id) = None THEN clock ELSE EntryMillis(id)

Put(rows, key, row) == [k \in DOMAIN rows \cup {key} |-> IF k = key THEN row ELSE rows[k]]

\* DO UPDATE SET: everything but open.
Upsert(row, t) ==
  [row EXCEPT !.high = Max({@, t.price}), !.low = Min({@, t.price}),
              !.close = t.price, !.volume = @ + t.qty]

FirstRow(t) == [open |-> t.price, high |-> t.price, low |-> t.price,
                close |-> t.price, volume |-> t.qty]

Bucket(width, secs) == (secs \div width) * width

\* One row per width.
RollUp(candles, secs, t) ==
  LET keys == {<<w, Bucket(w, secs)>> : w \in Widths}
  IN  [k \in DOMAIN candles \cup keys |->
         IF k \notin keys THEN candles[k]
         ELSE IF k \in DOMAIN candles THEN Upsert(candles[k], t) ELSE FirstRow(t)]

\* Sensitivity variant of InsertTrade: candles are updated whether or not the row is new.
InsertTradeAlways(tb, id, t) ==
  [tb EXCEPT !.trades = Put(@, id, TradeTime(id)), !.candles = RollUp(@, TradeTime(id), t)]

\* ON CONFLICT DO NOTHING RETURNING: candles only if the row is new.
InsertTrade(tb, id, t) ==
  IF id \in DOMAIN tb.trades THEN tb
  ELSE [tb EXCEPT !.trades = Put(@, id, TradeTime(id)), !.candles = RollUp(@, TradeTime(id), t)]

SetStatus(tb, order, status) ==
  IF order \in DOMAIN tb.orders
  THEN [tb EXCEPT !.orders = Put(@, order, [status |-> status, updated_at |-> clock])] ELSE tb

ApplyEvent(tb, id, e) ==
  CASE e.type = "Trade"          -> InsertTrade(tb, id, e)
    [] e.type = "OrderAccepted"  ->
         IF e.order \in DOMAIN tb.orders THEN tb
         ELSE [tb EXCEPT !.orders = Put(@, e.order, [status |-> "open", updated_at |-> clock])]
    [] e.type = "OrderUpdated"   -> SetStatus(tb, e.order, e.status)
    [] e.type = "OrderCancelled" -> SetStatus(tb, e.order, "cancelled")

\* The events of entries from + 1 .. to with their ids.
EventsOf(from, to) ==
  FlattenSeq([n \in 1 .. to - from |->
    [i \in 1 .. Len(Script[from + n]) |->
       [id |-> EventId(from + n - 1, i - 1), event |-> Script[from + n][i]]]])

ApplyNext(tb, x) == ApplyEvent(tb, x.id, x.event)

-----------------------------------------------------------------------------
(* The writer's loop                                                       *)

ReadTo == Min({Len(published), cursor + ReadCount})

\* Read, stage, commit, acknowledge.
Write ==
  LET events == EventsOf(cursor, ReadTo)
      IsNewTrade(x) == x.event.type = "Trade" /\ x.id \notin DOMAIN tables.trades
      new == SelectSeq(events, IsNewTrade)
  IN  /\ pc = "read" /\ ReadTo > cursor
      /\ tables' = FoldLeft(ApplyNext, tables, events)
      /\ counted' = counted \o [i \in 1 .. Len(new) |->
                                  [id |-> new[i].id, at |-> TradeTime(new[i].id),
                                   price |-> new[i].event.price, qty |-> new[i].event.qty]]
      /\ cursor' = ReadTo /\ pc' = "top"
      /\ UNCHANGED <<clock, published, lost, next_sweep, chart, faults>>

\* BLOCK expires.
ReadNothing ==
  /\ pc = "read" /\ ReadTo = cursor
  /\ pc' = "top"
  /\ UNCHANGED <<clock, published, cursor, lost, tables, next_sweep, counted, chart, faults>>

\* A statement or the commit fails: the process ends, is restarted, and sweeps.
WriteFails ==
  /\ pc = "read" /\ ReadTo > cursor /\ faults < MaxFaults
  /\ cursor' = ReadTo /\ lost' = lost \cup (cursor + 1 .. ReadTo)
  /\ pc' = "top" /\ next_sweep' = clock /\ faults' = faults + 1
  /\ UNCHANGED <<clock, published, tables, counted, chart>>

\* The group's cursor falls back (Redis lost its last writes): entries come again.
Redeliver ==
  /\ pc = "read" /\ faults < MaxFaults
  /\ \E to \in 0 .. cursor - 1 : cursor' = to
  /\ faults' = faults + 1
  /\ UNCHANGED <<clock, published, lost, tables, pc, next_sweep, counted, chart>>

\* The tables prune may leave: whole batches of old rows are deleted, in no
\* particular order, until none is left, the limit is reached or one fails.
Prune(rows, old, days, fails) ==
  LET limit == RetentionBatch * RetentionMaxBatches
      sizes == IF fails THEN {n \in 0 .. limit - 1 : n % RetentionBatch = 0}
               ELSE {Min({limit, Cardinality(old)})}
      gone  == IF days = 0 THEN {{}} ELSE {g \in SUBSET old : Cardinality(g) \in sizes}
  IN  {[k \in DOMAIN rows \ g |-> rows[k]] : g \in gone}

Terminal == {"filled", "cancelled"}

\* Sensitivity variant of OldOrders: old rows, whatever their status.
OldOrdersAny == {o \in DOMAIN tables.orders : tables.orders[o].updated_at < clock - OrderDays}

OldOrders == {o \in DOMAIN tables.orders : /\ tables.orders[o].status \in Terminal
                                           /\ tables.orders[o].updated_at < clock - OrderDays}

OldTrades == {t \in DOMAIN tables.trades : tables.trades[t] < clock - TradeDays}

OldCandles == {k \in DOMAIN tables.candles : k[1] = 1 /\ k[2] < clock - CandleDays}

\* sweep: a failed DELETE skips the tables after it; ingestion goes on.
Sweep(failed) ==
  /\ pc = "top" /\ clock >= next_sweep
  /\ next_sweep' = clock + RetentionInterval /\ pc' = "read"
  /\ \E orders \in Prune(tables.orders, OldOrders, OrderDays, failed = "orders"),
        trades \in IF failed = "orders" THEN {tables.trades}
                   ELSE Prune(tables.trades, OldTrades, TradeDays, failed = "trades"),
        candles \in IF failed \in {"orders", "trades"} THEN {tables.candles}
                    ELSE Prune(tables.candles, OldCandles, CandleDays, failed = "candles") :
       tables' = [orders |-> orders, trades |-> trades, candles |-> candles]
  /\ UNCHANGED <<clock, published, cursor, lost, counted, chart, faults>>

NoSweepDue ==
  /\ pc = "top" /\ clock < next_sweep
  /\ pc' = "read"
  /\ UNCHANGED <<clock, published, cursor, lost, tables, next_sweep, counted, chart, faults>>

-----------------------------------------------------------------------------
(* GET /candles, and a client that pages backwards with end                *)

IntervalSeconds(label) == IF label \in DOMAIN Labels THEN Labels[label] ELSE None

Clamp(n, lo, hi) == Max({lo, Min({n, hi})})

Buckets(width) == {k[2] : k \in {key \in DOMAIN tables.candles : key[1] = width}}

\* Sensitivity variant of InWindow: end is inclusive.
InWindowClosed(b, start, end) == (start = None \/ b >= start) /\ (end = None \/ b <= end)

InWindow(b, start, end) == (start = None \/ b >= start) /\ (end = None \/ b < end)

\* The newest buckets of the window, ascending.
GetCandles(width, start, end, limit) ==
  LET window == {b \in Buckets(width) : InWindow(b, start, end)}
      newest == {b \in window : Cardinality({c \in window : c > b}) < Clamp(limit, 1, MaxLimit)}
  IN  SetToSortSeq(newest, <)

NoChart == [width |-> None, end |-> None, got |-> << >>, had |-> {}]

\* A bad label is a 400.
OpenChart(label) ==
  /\ chart.width = None
  /\ IntervalSeconds(label) # None
  /\ chart' = [NoChart EXCEPT !.width = IntervalSeconds(label),
                              !.had = Buckets(IntervalSeconds(label))]
  /\ UNCHANGED <<clock, published, cursor, lost, tables, pc, next_sweep, counted, faults>>

\* The next page ends where the last one began; an empty one ends the chart.
NextPage(limit) ==
  LET page == GetCandles(chart.width, None, chart.end, limit)
  IN  /\ chart.width # None
      /\ chart' = IF page = << >> THEN NoChart
                  ELSE [chart EXCEPT !.end = page[1], !.got = page \o @]
      /\ UNCHANGED <<clock, published, cursor, lost, tables, pc, next_sweep, counted, faults>>

-----------------------------------------------------------------------------
Tick ==
  /\ clock < MaxClock
  /\ clock' = clock + 1
  /\ UNCHANGED <<published, cursor, lost, tables, pc, next_sweep, counted, chart, faults>>

\* The engine's XADD events.
Publish ==
  /\ Len(published) < Len(Script)
  /\ published' = Append(published, clock)
  /\ UNCHANGED <<clock, cursor, lost, tables, pc, next_sweep, counted, chart, faults>>

Init ==
  /\ clock = 0 /\ published = << >> /\ cursor = 0 /\ lost = {}
  /\ tables = [orders |-> [o \in {} |-> o], trades |-> [t \in {} |-> t], candles |-> [k \in {} |-> k]]
  /\ pc = "top" /\ next_sweep = 0
  /\ counted = << >> /\ chart = NoChart /\ faults = 0

Next ==
  \/ Tick \/ Publish
  \/ Write \/ ReadNothing \/ WriteFails \/ Redeliver \/ NoSweepDue
  \/ \E failed \in {"none", "orders", "trades", "candles"} : Sweep(failed)
  \/ \E label \in DOMAIN Labels : OpenChart(label)
  \/ \E limit \in Limits : NextPage(limit)

Spec == Init /\ [][Next]_vars
=============================================================================
