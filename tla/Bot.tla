-------------------------------- MODULE Bot --------------------------------
(***************************************************************************)
(* The market-making bot (bin/bot.rs) with the accounts and tokens it      *)
(* authenticates with (bin/api/auth.rs), against an exchange it shares     *)
(* with an outsider.                                                       *)
(*                                                                         *)
(* The exchange is what the bot meets of it: one market of unit orders,    *)
(* matched by price and time, with the self-trade check; a refusal for     *)
(* another reason (band, funds) counts as a fault.  GET /book and GET      *)
(* /orders are projections that trail it.  A request or its reply may be   *)
(* lost.                                                                   *)
(* The clock moves between ticks of the bot; random choices are choices.   *)
(***************************************************************************)
EXTENDS Integers, SequencesExt

CONSTANTS QuoteLevels, Spread,      \* LEVELS, SPREAD
          MinMid, MaxMid,           \* the clamp of mid
          FirstMid,                 \* mid of a market that never traded
          Ttl, ReauthEvery,         \* TOKEN_TTL_SECS, REAUTH_EVERY
          MaxPrints,                \* prints per tick
          StartTime, TickTime,      \* how long starting and a tick take
          None,
          MaxTicks, MaxFaults, MaxOutsider   \* bounds

ASSUME QuotesAssumption ==
  /\ {QuoteLevels, Spread, MinMid, MaxMid, FirstMid, Ttl, ReauthEvery} \subseteq Nat \ {0}
  /\ {MaxPrints, StartTime, TickTime, MaxTicks, MaxFaults, MaxOutsider} \subseteq Nat
  /\ MinMid <= MaxMid /\ ReauthEvery <= Ttl

VARIABLES orders, next_order_id, last_price,   \* the exchange
          shown, rows,     \* what GET /book and GET /orders would answer
          users,           \* emails in the users table
          clock,
          bot,             \* [pc, step, mid, resting, previous]
          session,         \* expiry of each token, and last_auth
          excused,         \* history: mid came from a book that was behind or squeezed
          leaked,          \* history: maker orders a fault made the bot forget
          failed,          \* history: tokens this tick tried to renew and could not
          ticks, faults, visits   \* counters of the bounds

exchange == <<orders, next_order_id, last_price>>
history  == <<excused, leaked, failed>>
vars == <<exchange, shown, rows, users, clock, bot, session, history, ticks, faults, visits>>

Roles == {"maker", "taker"}

-----------------------------------------------------------------------------
(* The exchange                                                            *)

On(side) == {o \in orders : o.side = side}
Opposite(side) == IF side = "Bid" THEN "Ask" ELSE "Bid"
Ahead(o, p) ==
  \/ IF o.side = "Ask" THEN o.price < p.price ELSE o.price > p.price
  \/ o.price = p.price /\ o.id < p.id

\* The order a unit of req trades with, if any: best price, then oldest.
Crosses(req, o) ==
  \/ req.order_type = "Market"
  \/ IF req.side = "Bid" THEN o.price <= req.price ELSE o.price >= req.price
Counterparts(req) ==
  {o \in On(Opposite(req.side)) :
     Crosses(req, o) /\ \A p \in On(Opposite(req.side)) : p = o \/ Ahead(o, p)}

SelfTrade(who, req) == \E o \in Counterparts(req) : o.owner = who

\* place in the engine, accepted: trade one unit, or rest if it is a limit order.
Accept(who, req) ==
  /\ ~SelfTrade(who, req)
  /\ next_order_id' = next_order_id + 1
  /\ LET hit == Counterparts(req)
     IN  /\ orders' = IF hit # {} THEN orders \ hit
                      ELSE IF req.order_type = "Market" THEN orders
                      ELSE orders \cup {[id |-> next_order_id, owner |-> who,
                                         side |-> req.side, price |-> req.price]}
         /\ last_price' = IF hit = {} THEN last_price ELSE (CHOOSE o \in hit : TRUE).price

BestOf(side) ==
  LET prices == {o.price : o \in On(side)}
  IN  IF prices = {} THEN None ELSE IF side = "Bid" THEN Max(prices) ELSE Min(prices)

Current == [bid |-> BestOf("Bid"), ask |-> BestOf("Ask")]
MakerOrders == {o \in orders : o.owner = "maker"}
IdsOf(os) == {o.id : o \in os}

\* The projections catch up.
Project ==
  /\ shown' = Current /\ rows' = IdsOf(MakerOrders)
  /\ UNCHANGED <<exchange, users, clock, bot, session, history, faults, visits, ticks>>

\* Anyone else places an order.
Visit(side, price) ==
  /\ visits < MaxOutsider
  /\ visits' = visits + 1
  /\ Accept("outsider", [order_type |-> "Limit", side |-> side, price |-> price])
  /\ UNCHANGED <<shown, rows, users, clock, bot, session, history, faults, ticks>>

\* A fault that costs nothing if there is another reason.
Refusal(reason) ==
  /\ ~reason => faults < MaxFaults
  /\ faults' = IF reason THEN faults ELSE faults + 1

-----------------------------------------------------------------------------
(* Accounts and tokens                                                     *)

\* sign: a token is its expiry; verify: it has not passed.
Sign == clock + Ttl
Verify(token) == clock <= token

\* A new user's token, or 409 if the email is taken.
Signup(who) == IF who \in users THEN None ELSE Sign
\* A token, or 401 if there is no such user.
Login(who) == IF who \in users THEN Sign ELSE None

\* Bot::auth, when the API answers: signup, then login.
AuthToken(who) == IF Signup(who) # None THEN Signup(who) ELSE Login(who)

-----------------------------------------------------------------------------
(* Startup                                                                 *)

Fresh == [pc |-> "maker", step |-> 0, mid |-> FirstMid,
          resting |-> << >>, previous |-> << >>]

\* The maker's token is tried for until it comes; no taker token ends the process.
\* If the reply is lost, the account may have been created all the same.
AuthAtStart(ok) ==
  /\ bot.pc \in Roles
  /\ users' \in IF ok THEN {users \cup {bot.pc}} ELSE {users, users \cup {bot.pc}}
  /\ session' = IF ok THEN [session EXCEPT ![bot.pc] = AuthToken(bot.pc), !.last_auth = clock]
                ELSE session
  /\ bot' = IF ~ok THEN Fresh ELSE [bot EXCEPT !.pc = IF @ = "maker" THEN "taker" ELSE "clear"]
  /\ UNCHANGED <<exchange, shown, rows, clock, history, faults, visits, ticks>>

\* Cancel what GET /orders lists, then take mid from the last trade, if GET
\* /candles answers.  A fault loses the list or one of the cancels; the calls
\* take their time.
ClearStale(missed) ==
  /\ bot.pc = "clear" /\ ticks < MaxTicks
  /\ clock' = clock + StartTime
  /\ Refusal(missed = {})
  /\ orders' = {o \in orders : o.owner # "maker" \/ o.id \notin rows \ missed}
  /\ \E answer \in {None, last_price} :
       bot' = [bot EXCEPT !.pc = "tick",
                          !.mid = IF answer = None THEN FirstMid ELSE answer]
  /\ UNCHANGED <<next_order_id, last_price, shown, rows, users, session, history, visits, ticks>>

-----------------------------------------------------------------------------
(* A tick                                                                  *)

ReauthDue == clock - session.last_auth >= ReauthEvery

\* Sensitivity variant of Renewed: the clock is reset if either token came.
RenewedEither(got) ==
  [maker     |-> IF "maker" \in got THEN AuthToken("maker") ELSE session.maker,
   taker     |-> IF "taker" \in got THEN AuthToken("taker") ELSE session.taker,
   last_auth |-> IF got # {} THEN clock ELSE session.last_auth]

\* The tokens that came replace the old ones; both reset the clock.
Renewed(got) ==
  [maker     |-> IF "maker" \in got THEN AuthToken("maker") ELSE session.maker,
   taker     |-> IF "taker" \in got THEN AuthToken("taker") ELSE session.taker,
   last_auth |-> IF got = Roles THEN clock ELSE session.last_auth]

\* mid between the best prices GET /book shows, if it shows both.
Anchor(answered) ==
  IF answered /\ shown.bid # None /\ shown.ask # None THEN (shown.bid + shown.ask) \div 2
  ELSE bot.mid

Walked(mid, step) == Max({MinMid, Min({MaxMid, Max({0, mid + step})})})

\* Nothing fits between the best prices shown.
Squeezed == None \notin {shown.bid, shown.ask} /\ shown.ask - shown.bid = 1

\* Renew the tokens if due, walk mid, set the previous quotes aside.
Tick(got, answered, step) ==
  /\ bot.pc = "tick"
  /\ ticks' = ticks + 1
  /\ ReauthDue \/ got = Roles
  /\ Refusal(answered)
  /\ session' = IF ReauthDue THEN Renewed(got) ELSE session
  /\ failed' = Roles \ got
  /\ bot' = [bot EXCEPT !.pc = "quote", !.step = 0,
                        !.mid = Walked(Anchor(answered), step),
                        !.previous = bot.resting, !.resting = << >>]
  /\ excused' = (answered /\ (shown # Current \/ Squeezed))
  /\ UNCHANGED <<exchange, shown, rows, users, clock, leaked, visits>>

\* Sensitivity variant of QuoteAt: the ask one tick closer.
QuoteAtTight(step) ==
  LET i == step \div 2
  IN  [order_type |-> "Limit",
       side  |-> IF step % 2 = 0 THEN "Bid" ELSE "Ask",
       price |-> IF step % 2 = 0 THEN Max({0, bot.mid - (Spread + i)}) ELSE bot.mid + Spread + i - 1]

\* The ladder: bid and ask of each level in turn.
QuoteAt(step) ==
  LET i == step \div 2
  IN  [order_type |-> "Limit",
       side  |-> IF step % 2 = 0 THEN "Bid" ELSE "Ask",
       price |-> IF step % 2 = 0 THEN Max({0, bot.mid - (Spread + i)}) ELSE bot.mid + Spread + i]

Quoting == bot.pc = "quote" /\ bot.step < 2 * QuoteLevels
After(b) == [b EXCEPT !.step = @ + 1]

\* Placed, rested or traded, and the order id came back.
QuotePlaced ==
  /\ Quoting /\ Verify(session.maker)
  /\ Accept("maker", QuoteAt(bot.step))
  /\ bot' = After([bot EXCEPT !.resting = Append(@, next_order_id)])
  /\ UNCHANGED <<shown, rows, users, clock, session, history, faults, visits, ticks>>

\* Refused by the API or the engine, or never arrived: no order.
QuoteRefused ==
  /\ Quoting
  /\ Refusal(~Verify(session.maker) \/ SelfTrade("maker", QuoteAt(bot.step)))
  /\ bot' = After(bot)
  /\ UNCHANGED <<exchange, shown, rows, users, clock, session, history, visits, ticks>>

\* Placed, but the reply was lost: the bot does not know the order.
QuoteForgotten ==
  /\ Quoting /\ Verify(session.maker) /\ faults < MaxFaults
  /\ faults' = faults + 1
  /\ Accept("maker", QuoteAt(bot.step))
  /\ leaked' = leaked \cup {next_order_id}
  /\ bot' = After(bot)
  /\ UNCHANGED <<shown, rows, users, clock, session, excused, failed, visits, ticks>>

Quoted == bot.pc = "quote" /\ bot.step = 2 * QuoteLevels

\* Sensitivity variant of CancelPrevious: the list is dropped after the first cancel.
CancelFirst ==
  /\ Quoted /\ bot.previous # << >> /\ Verify(session.maker)
  /\ orders' = {o \in orders : o.owner # "maker" \/ o.id # Head(bot.previous)}
  /\ bot' = [bot EXCEPT !.previous = << >>]
  /\ UNCHANGED <<next_order_id, last_price, shown, rows, users, clock, session, history,
                 faults, visits, ticks>>

\* Cancel the next of the previous quotes; it may be gone already.
CancelPrevious ==
  /\ Quoted /\ bot.previous # << >> /\ Verify(session.maker)
  /\ orders' = {o \in orders : o.owner # "maker" \/ o.id # Head(bot.previous)}
  /\ bot' = [bot EXCEPT !.previous = Tail(@)]
  /\ UNCHANGED <<next_order_id, last_price, shown, rows, users, clock, session, history,
                 faults, visits, ticks>>

\* A cancel that is lost, or refused for its token, is never tried again.
CancelLost ==
  /\ Quoted /\ bot.previous # << >>
  /\ Refusal(~Verify(session.maker))
  /\ leaked' = leaked \cup {Head(bot.previous)}
  /\ bot' = [bot EXCEPT !.previous = Tail(@)]
  /\ UNCHANGED <<exchange, shown, rows, users, clock, session, excused, failed, visits, ticks>>

Cancelled ==
  /\ Quoted /\ bot.previous = << >>
  /\ bot' = [bot EXCEPT !.pc = "print", !.step = 0]
  /\ UNCHANGED <<exchange, shown, rows, users, clock, session, history, faults, visits, ticks>>

TakerRequest(side) == [order_type |-> "Market", side |-> side, price |-> 0]

\* One taker print, placed or refused; whatever came back is ignored.
TakerPrint(side) ==
  /\ bot.pc = "print" /\ bot.step < MaxPrints
  /\ \/ Verify(session.taker) /\ Accept("taker", TakerRequest(side)) /\ UNCHANGED faults
     \/ Refusal(~Verify(session.taker) \/ SelfTrade("taker", TakerRequest(side))) /\ UNCHANGED exchange
  /\ bot' = After(bot)
  /\ UNCHANGED <<shown, rows, users, clock, session, history, visits, ticks>>

\* The sleeps between prints.
TickEnds ==
  /\ bot.pc = "print" /\ bot.step > 0 /\ ticks < MaxTicks
  /\ bot' = [bot EXCEPT !.pc = "tick", !.step = 0]
  /\ clock' = clock + TickTime
  /\ UNCHANGED <<exchange, shown, rows, users, session, history, faults, visits, ticks>>

\* The process stops and is started again: what it had resting is forgotten.
Restart ==
  /\ bot.pc \notin Roles /\ faults < MaxFaults
  /\ faults' = faults + 1
  /\ bot' = Fresh
  /\ leaked' = leaked \cup IdsOf(MakerOrders)
  /\ UNCHANGED <<exchange, shown, rows, users, clock, session, excused, failed, visits, ticks>>

-----------------------------------------------------------------------------
Init ==
  /\ orders = {} /\ next_order_id = 0 /\ last_price = None
  /\ shown = [bid |-> None, ask |-> None] /\ rows = {}
  /\ users = {} /\ clock = 0
  /\ bot = Fresh /\ session = [maker |-> 0, taker |-> 0, last_auth |-> 0]
  /\ excused = FALSE /\ leaked = {}
  /\ failed = {}
  /\ ticks = 0 /\ faults = 0 /\ visits = 0

BotStep ==
  \/ \E ok \in BOOLEAN : AuthAtStart(ok)
  \/ \E missed \in {{}, rows} \cup {{id} : id \in rows} : ClearStale(missed)
  \/ \E got \in SUBSET Roles, answered \in BOOLEAN, step \in {-1, 0, 1} : Tick(got, answered, step)
  \/ QuotePlaced \/ QuoteRefused \/ QuoteForgotten
  \/ CancelPrevious \/ CancelLost \/ Cancelled
  \/ \E side \in {"Bid", "Ask"} : TakerPrint(side)
  \/ TickEnds

Next ==
  \/ BotStep \/ Restart
  \/ Project
  \/ \E side \in {"Bid", "Ask"}, price \in MinMid .. MaxMid : Visit(side, price)

Spec == Init /\ [][Next]_vars
=============================================================================
