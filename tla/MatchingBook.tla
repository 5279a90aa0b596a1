---------------------------- MODULE MatchingBook ----------------------------
(***************************************************************************)
(* What the order book promises, without arrays, statistics, threads or    *)
(* locks: a volume at every price, a window of prices that orders may      *)
(* name, and one order after the other that takes from the best price of   *)
(* the other side, one price at a time, before anything of it comes to     *)
(* rest.  OrderBook implements this (BookRefinement).                      *)
(*                                                                         *)
(* Negative volume is demand, positive volume is supply.                   *)
(***************************************************************************)
EXTENDS Integers, FiniteSetsExt

CONSTANTS
    AllPrices,    \* every price there is
    BookLength,   \* how many prices the window spans
    Orders,       \* [type, volume, price]
    NoTaker       \* no order is being processed

VARIABLES
    volume,       \* the volume at each price
    low,          \* the lowest price of the window
    taker         \* the order being processed and what became of it so far

bookvars == <<volume, low, taker>>

Fresh(o) == [order |-> o, open |-> o.volume, revenue |-> 0, price |-> 0,
             error |-> 0, done |-> FALSE]
-----------------------------------------------------------------------------
InWindow(p) == low <= p /\ p < low + BookLength
Accepted(o) == o.volume = 0 \/ InWindow(o.price)

\* What of a volume held at a price goes to one who asks for a volume
Given(held, asked) ==
    IF held > 0 /\ asked > 0 THEN Min({held, asked})
    ELSE IF held < 0 /\ asked < 0 THEN Max({held, asked}) ELSE 0

OtherSide == {p \in AllPrices : Given(volume[p], -taker.open) # 0}
BestPrice == IF taker.open < 0 THEN Min(OtherSide) ELSE Max(OtherSide)

\* An order added to the book starts to trade when the best price of the
\* other side is as good as its own, and then goes on at any price.
Trades ==
    /\ OtherSide # {}
    /\ \/ taker.order.type = "market"
       \/ taker.open # taker.order.volume
       \/ taker.open < 0 /\ BestPrice <= taker.order.price
       \/ taker.open > 0 /\ BestPrice >= taker.order.price

Working(type) ==
    taker # NoTaker /\ ~taker.done /\ taker.order.type = type

Moved(p, v) == volume' = [volume EXCEPT ![p] = @ + v]
-----------------------------------------------------------------------------
Begin(o) ==
    /\ taker = NoTaker
    /\ taker' = Fresh(o)
    /\ UNCHANGED <<volume, low>>

\* One price, the best one, gives what it has or all that is asked for.
Match ==
    /\ Working("market") \/ (Working("add") /\ Accepted(taker.order))
    /\ Trades
    /\ LET p == BestPrice
           traded == Given(volume[p], -taker.open)
       IN  /\ Moved(p, -traded)
           /\ taker' = [taker EXCEPT !.open = @ + traded,
                                     !.revenue = @ - traded * p,
                                     !.price = p]
    /\ UNCHANGED low

\* What is left of an order rests at its price, or is dropped.
Rest ==
    /\ Working("add") /\ Accepted(taker.order) /\ ~Trades
    /\ Moved(taker.order.price, taker.open)
    /\ taker' = [taker EXCEPT !.done = TRUE]
    /\ UNCHANGED low

Drop ==
    /\ Working("market") /\ ~Trades
    /\ taker' = [taker EXCEPT !.done = TRUE]
    /\ UNCHANGED <<volume, low>>

\* Volume that rests is taken out again, no more than there is.
TakeOut ==
    /\ Working("withdraw") /\ Accepted(taker.order)
    /\ LET p == taker.order.price
           taken == IF taker.open = 0 THEN 0 ELSE Given(volume[p], taker.open)
       IN  /\ Moved(p, -taken)
           /\ taker' = [taker EXCEPT !.open = @ - taken, !.done = TRUE]
    /\ UNCHANGED low

Refuse ==
    /\ Working("add") \/ Working("withdraw")
    /\ ~Accepted(taker.order)
    /\ taker' = [taker EXCEPT !.error = 1, !.done = TRUE]
    /\ UNCHANGED <<volume, low>>

End ==
    /\ taker # NoTaker /\ taker.done
    /\ taker' = NoTaker
    /\ UNCHANGED <<volume, low>>

\* The window moves; all volume is in it before and after.
Shift ==
    /\ taker = NoTaker
    /\ low' \in AllPrices
    /\ \A p \in AllPrices : volume[p] # 0 => InWindow(p)'
    /\ UNCHANGED <<volume, taker>>
-----------------------------------------------------------------------------
Init ==
    /\ volume = [p \in AllPrices |-> 0]
    /\ low \in AllPrices
    /\ taker = NoTaker

Next ==
    \/ \E o \in Orders : Begin(o)
    \/ Match \/ Rest \/ Drop \/ TakeOut \/ Refuse \/ End
    \/ Shift

Spec == Init /\ [][Next]_bookvars
=============================================================================
