-------------------------- MODULE TablesProperties --------------------------
(***************************************************************************)
(* What the rows promise under redelivery, lost transactions and sweeps.   *)
(***************************************************************************)
EXTENDS Tables

CountedIn(width, bucket) ==
  LET Mine(x) == Bucket(width, x.at) = bucket IN SelectSeq(counted, Mine)

\* The candle of a sequence of trades, by definition.
CandleOf(ts) ==
  LET prices == {ts[i].price : i \in DOMAIN ts}
      AddQty(n, x) == n + x.qty
  IN  [open |-> ts[1].price, high |-> Max(prices), low |-> Min(prices),
       close |-> ts[Len(ts)].price, volume |-> FoldLeft(AddQty, 0, ts)]

(* Every candle is what its bucket's trades make it, each counted once     *)
(* however often its entry is delivered, and no committed trade is missing *)
(* from any width; only 1s candles past their retention are gone.  The one *)
(* way to count a trade twice: its entry comes again after its row, the    *)
(* dedup guard, was swept (apply_event and sweep in db_writer).            *)
CandlesExact ==
  /\ \A k \in DOMAIN tables.candles : tables.candles[k] = CandleOf(CountedIn(k[1], k[2]))
  /\ \A i \in DOMAIN counted, w \in Widths :
       \/ <<w, Bucket(w, counted[i].at)>> \in DOMAIN tables.candles
       \/ w = 1 /\ counted[i].at < clock - CandleDays
  /\ \A i, j \in DOMAIN counted :
       i < j /\ counted[i].id = counted[j].id => counted[i].at < counted[j].at - TradeDays
  /\ \A i \in (1 .. cursor) \ lost : \A n \in DOMAIN Script[i] :
       Script[i][n].type = "Trade" =>
         \E j \in DOMAIN counted : counted[j].id = EventId(i - 1, n - 1)

\* The statuses of order o in the entries delivered, and the entries that touch it.
Touches(i, o) == \E n \in DOMAIN Script[i] : Script[i][n].type # "Trade" /\ Script[i][n].order = o
StatusOf(e) == IF e.type = "OrderAccepted" THEN "open"
               ELSE IF e.type = "OrderCancelled" THEN "cancelled" ELSE e.status
LastStatus(o) ==
  LET OfOrder(x) == x.event.type # "Trade" /\ x.event.order = o
      mine == SelectSeq(EventsOf(0, cursor), OfOrder)
  IN  StatusOf(mine[Len(mine)].event)

(* A live order is never swept, and a row that is there says what became   *)
(* of its order: once the writer has caught up, redeliveries and sweeps in *)
(* between included.  Orders of a lost transaction are the exception.      *)
OrdersSurviveSweep ==
  cursor = Len(published) =>
    \A o \in UNION {{Script[i][n].order : n \in {m \in DOMAIN Script[i] : Script[i][m].type # "Trade"}}
                    : i \in 1 .. cursor} :
      \/ \E i \in lost : Touches(i, o)
      \/ IF o \in DOMAIN tables.orders THEN tables.orders[o].status = LastStatus(o)
         ELSE LastStatus(o) \in Terminal

(* A chart stitched from pages has no bucket twice and misses none that    *)
(* was there all along, whatever the writer and the sweep do between two   *)
(* pages (get_candles: end is exclusive, whole buckets only).              *)
PagesStitch ==
  /\ \A i, j \in DOMAIN chart.got : i < j => chart.got[i] < chart.got[j]
  /\ chart.got # << >> =>
       \A b \in chart.had \cap Buckets(chart.width) :
         b >= chart.end => \E i \in DOMAIN chart.got : chart.got[i] = b

(* db_writer.rs on entry_millis: "this is match time, and it's part of the *)
(* entry rather than regenerated, which means it survives replay           *)
(* unchanged".  A trade's row carries the time its batch was added.        *)
BucketIsMatchTime ==
  \A id \in DOMAIN tables.trades : tables.trades[id] = published[id.head + 1]
=============================================================================
