---------------------------- MODULE MCStockLedger ----------------------------
(* Instances of StockLedger for TLC. *)
EXTENDS StockLedger, FiniteSets

CONSTANTS r1, r2, r3, shop, store, annex, key, usedKey

Do(op, c, d, n, k) == [op |-> op, cell |-> c, to |-> d, qty |-> n, key |-> k]

OpeningStock == [c \in Cells |-> IF c = shop THEN 2 ELSE 0]

\* Unkeyed commands on a stocked cell and on a cell without a row; opposite
\* transfers take the two row locks in opposite orders.
MixedMenu ==
  <<Do("receive", shop, shop, 1, NoKey), Do("issue", shop, shop, 2, NoKey),
    Do("adjust", shop, shop, 2, NoKey), Do("adjust", store, store, 1, NoKey),
    Do("transfer", shop, store, 1, NoKey), Do("transfer", store, shop, 1, NoKey),
    Do("transfer", shop, shop, 1, NoKey)>>

\* The same key on a retried command, on another operation and on a transfer;
\* a key that a command of another service has used; an unknown location.
KeyedMenu ==
  <<Do("receive", shop, shop, 1, key), Do("issue", shop, shop, 1, key),
    Do("transfer", shop, store, 1, key), Do("receive", store, store, 1, usedKey),
    Do("receive", annex, annex, 1, key), Do("adjust", store, store, 1, key),
    Do("adjust", shop, shop, 0, NoKey)>>

AllCommands == {MixedMenu[i] : i \in DOMAIN MixedMenu} \cup {KeyedMenu[i] : i \in DOMAIN KeyedMenu}

\* Every choice of one command per request, up to a renaming of the requests:
\* nothing in the specification tells them apart.
Meetings(menu) ==
  {[r \in Requests |-> menu[pick[r]]] :
     pick \in {p \in [Requests -> DOMAIN menu] :
                 (r3 \in Requests => p[r2] <= p[r3]) /\ p[r1] <= p[r2]}}

Mixed == Meetings(MixedMenu)
MixedOrKeyed == Mixed \cup Meetings(KeyedMenu)

\* One receipt, sent again.
RetriedReceive == {[r \in Requests |-> Do("receive", shop, shop, 1, key)]}
=============================================================================
