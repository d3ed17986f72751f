---------------------------- MODULE MCSpendGuard ----------------------------
(* Small tables and few requests.  The costs are a response priced at zero   *)
(* dollars and a dear one, so that the two units diverge.                    *)
EXTENDS SpendGuard, TLC

Cap(tokens, usd) == [tokens |-> tokens, usd |-> usd]
BothUnits == {"tokens", "usd"}

MCCosts == {Cap(1, 0), Cap(2, 1)}
MCStandIns == {Cap(2, 1)}
DollarSessionCap == Cap(0, 1)
TokenDayCap == Cap(2, 0)

MCSymmetry == Permutations(Session) \cup Permutations(Req) \cup Permutations(Tenant)

=============================================================================
