---- MODULE MCRpcDispatch ----
(* Small instances of RpcDispatch for TLC. *)
EXTENDS RpcDispatch, TLC

Limits(volume, amount) == [m \in {"volume", "amount"} |-> IF m = "volume" THEN volume ELSE amount]

\* Two orders within the limits, one of which takes a whole day's amount, and one
\* that is too large.
SomeOrders == {Limits(1, 1), Limits(1, 2), Limits(2, 1)}
MaxOfOrder == Limits(1, 2)
MaxOfDay   == Limits(2, 2)

Readonly == {<<"xtdata", "get_full_tick">>, <<"trader", "query_stock_asset">>}
Trading  == {<<"trader", "order_stock">>, <<"trader", "cancel_order_stock">>}
OrderNames  == {"order_stock"}
CancelNames == {"cancel_order_stock"}
Public == {"get_full_tick", "query_stock_asset", "order_stock", "cancel_order_stock",
           "query_order_book", "get_trading_dates", "download"}
\* "query_order_book" holds the marker "order", "get_trading_dates" and "download" hold none.
Marked == {"order_stock", "cancel_order_stock", "query_order_book"}

Server(enabled, dryRun, confirm, transparent, targets, trader, trading, symbols) ==
  [enable_trading |-> enabled, trading_dry_run |-> dryRun, require_trade_confirmation |-> confirm,
   transparent_rpc |-> transparent, targets |-> targets, allow_trader |-> trader,
   allow_trading |-> trading, accounts |-> {"ours"}, symbols |-> symbols, blocked |-> {"s2"}]

\* The trading switches with the transparent mode off, and with it as open as can be;
\* for real trading only some of its openings.
SomeSettings ==
  UNION {
    {Server(e, d, TRUE, FALSE, {}, FALSE, FALSE, {}),
     Server(e, d, FALSE, FALSE, {}, FALSE, FALSE, {"s1"}),
     Server(e, d, TRUE, TRUE, {"xtdata"}, FALSE, TRUE, {}),
     Server(e, d, TRUE, TRUE, {"xtdata", "trader"}, TRUE, TRUE, {})} : e \in BOOLEAN, d \in BOOLEAN}
  \union
  {Server(TRUE, TRUE, TRUE, TRUE, {"xtdata", "trader"}, r, a, {}) : r \in BOOLEAN, a \in BOOLEAN}

Request(target, method, account, symbol, amounts, confirmed, wellFormed) ==
  [target |-> target, method |-> method, account |-> account, symbol |-> symbol,
   order |-> amounts, confirmed |-> confirmed, wellFormed |-> wellFormed]

SomeCalls ==
  {Request("trader", "order_stock", "ours", "s1", Limits(1, 1), TRUE, TRUE),
   Request("trader", "order_stock", "ours", "s3", Limits(1, 2), TRUE, TRUE),
   Request("trader", "order_stock", "ours", "s1", Limits(1, 1), FALSE, TRUE),
   Request("trader", "order_stock", "ours", "s2", Limits(1, 1), TRUE, TRUE),
   Request("trader", "order_stock", "other", "s1", Limits(1, 1), TRUE, TRUE),
   Request("trader", "order_stock", "ours", "s1", Limits(2, 1), TRUE, TRUE),
   Request("trader", "order_stock", "ours", "s1", Limits(1, 1), TRUE, FALSE),
   Request("trader", "cancel_order_stock", "ours", "s1", Limits(1, 1), TRUE, TRUE),
   Request("trader", "query_stock_asset", "ours", "s1", Limits(1, 1), FALSE, TRUE),
   Request("trader", "query_order_book", "ours", "s1", Limits(1, 1), TRUE, TRUE),
   Request("xtdata", "order_stock", "ours", "s1", Limits(1, 1), TRUE, TRUE),
   Request("xtdata", "download", "ours", "s1", Limits(1, 1), FALSE, TRUE),
   Request("xtdata", "__class__", "ours", "s1", Limits(1, 1), FALSE, TRUE)}

Symmetry == Permutations(Threads)
====
