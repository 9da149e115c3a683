----------------------------- MODULE MCRequests -----------------------------
EXTENDS RequestsProperties

Sent(account_id, client_order_id, kind, valid_pair, verdict) ==
  [account_id |-> account_id, client_order_id |-> client_order_id, kind |-> kind,
   valid_pair |-> valid_pair, verdict |-> verdict]

\* Two keys of one account, and two requests that are turned away.
SomeCalls ==
  {Sent(1, 1, "DelistPair", TRUE, "Ok"), Sent(1, 2, "Place", TRUE, "Err"),
   Sent(None, None, "Deposit", TRUE, "Ok"), Sent(2, 1, "ListPair", TRUE, "Ok")}
=============================================================================
