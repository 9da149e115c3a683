--------------------------- MODULE BotProperties ---------------------------
(***************************************************************************)
(* What keeps the demo market alive: the bot's quotes do not run into each *)
(* other, it does not lose track of them, and its tokens do not run out.   *)
(***************************************************************************)
EXTENDS Bot

Tracked == {bot.resting[i] : i \in DOMAIN bot.resting}
           \cup {bot.previous[i] : i \in DOMAIN bot.previous}

(* Quoting before cancelling never makes the maker cross its own previous  *)
(* ladder (bot.rs on SPREAD), unless the book it read was behind, an       *)
(* outsider stood inside the spread, or a fault left an order behind.      *)
QuotesDoNotCross ==
  Quoting /\ SelfTrade("maker", QuoteAt(bot.step)) =>
    excused \/ leaked \cap IdsOf(MakerOrders) # {}

(* The bot knows every order it has in the book, whatever traded, was      *)
(* refused or was answered late, but for those a lost reply, a lost cancel *)
(* or a restart took from it; the taker has none.                          *)
OrdersTracked ==
  /\ IdsOf(MakerOrders) \subseteq Tracked \cup leaked
  /\ \A o \in orders : o.owner # "taker"

(* A token that has run out is in use only on a tick that tried to renew   *)
(* it and could not: renewing the other one, or an earlier failure, does   *)
(* not put the next attempt off (the re-auth block of the loop).           *)
TokensRenewedInTime ==
  bot.pc \in {"quote", "print"} => \A who \in Roles : Verify(session[who]) \/ who \in failed
=============================================================================
