--------------------------- MODULE MCOrderService ---------------------------
(* Small instances of OrderService for TLC. *)
EXTENDS OrderInvariant, TLC

CONSTANTS buy, sell, c1, c2, c3, k1, k2, coin

OneBuy == {buy}
BuyAndSell == {buy, sell}
MCPairOf == [a \in Action |-> coin]
MCSideOf == [a \in Action |-> IF a = buy THEN "buy" ELSE "sell"]
Symmetry == Permutations(Call) \cup Permutations(Cron)
=============================================================================
