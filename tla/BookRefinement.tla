--------------------------- MODULE BookRefinement ---------------------------
(***************************************************************************)
(* OrderBook implements MatchingBook: whatever the threads do, the book    *)
(* moves as if one order after the other were matched at the best price.   *)
(***************************************************************************)
EXTENDS OrderBook

\* Between the two halves of a shift the buckets are where the new base
\* price will have them.
PendingShift ==
    LET movers == {t \in Threads : pc[t] = "shift_base"}
    IN  IF movers = {} THEN 0 ELSE shift[CHOOSE t \in movers : TRUE].mem_shift

LowPrice == base_price + PendingShift
PriceVolume == [p \in UInts |-> VolumeAt(p, mem_span, LowPrice)]

\* The thread whose order is being processed; one that unlocks after a shift
\* has none.
Processing ==
    {t \in Threads : \/ pc[t] \in FluxPoints \ ShiftPoints
                     \/ pc[t] = "enter"
                     \/ pc[t] = "unlock" /\ shift[t] = NoShift}

\* The handler of the order's own type has returned.
Handled(t) ==
    \/ pc[t] \in {"leave", "unlock"}
    \/ order[t].type = "add" /\ pc[t] \in {"withdraw", "market", "market_run"}
    \/ order[t].type = "withdraw" /\ pc[t] \in {"market", "market_run"}

\* The order is in the loop of run_through_book.
Matching(t) ==
    /\ ~run[t].dummy
    /\ \/ order[t].type = "add" /\ pc[t] = "add_run"
       \/ order[t].type = "market" /\ pc[t] = "market_run"

Progress(t) ==
    IF Handled(t)
    THEN [open |-> order[t].volume - ret[t].filled, revenue |-> ret[t].revenue,
          price |-> ret[t].price, error |-> ret[t].error, done |-> TRUE]
    ELSE IF Matching(t)
    THEN [open |-> run[t].open_vol, revenue |-> run[t].order_revenue,
          price |-> IF run[t].open_vol = run[t].volume THEN 0
                    ELSE base_price + run[t].transaction_index,
          error |-> 0, done |-> FALSE]
    ELSE [open |-> order[t].volume, revenue |-> 0, price |-> 0,
          error |-> 0, done |-> FALSE]

NoTaker == [order |-> {}]

Taker ==
    IF Processing = {} THEN NoTaker
    ELSE LET t == CHOOSE t \in Processing : TRUE
             p == Progress(t)
         IN  [order |-> order[t], open |-> p.open, revenue |-> p.revenue,
              price |-> p.price, error |-> p.error, done |-> p.done]

Abstract == INSTANCE MatchingBook WITH
    AllPrices <- UInts, volume <- PriceVolume, low <- LowPrice, taker <- Taker

\* Whatever the threads do, the book is what matching one order after the
\* other makes it: best prices first, one at a time; what is left comes to
\* rest; a withdrawal takes out no more than there is; a shift changes the
\* volume of no price; and the response tells the volume filled, the revenue
\* and the last price of exactly what was traded (readme.md "process_order",
\* "shift_book"; OrderBookHelpers.hpp:83-138, FIXMsgClasses.hpp:129-302).
MatchesBook == Abstract!Spec
=============================================================================
