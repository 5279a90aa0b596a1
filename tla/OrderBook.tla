----------------------------- MODULE OrderBook -----------------------------
(***************************************************************************)
(* The order book of src/production/OrderBook.hpp with the three message   *)
(* handlers of FIXMsgClasses.hpp, the helpers of OrderBookHelpers.hpp and  *)
(* the bucket of OrderBookBucket.hpp, as seen by the threads that write to *)
(* it: process_order and shift_book, both under the spin lock modify_lock. *)
(*                                                                         *)
(* Negative volume is demand (bids), positive volume is supply (offers).   *)
(* A buy order has negative volume, a sell order positive volume.          *)
(*                                                                         *)
(* The array has BookLength buckets, indices 0..BookLength-1.  The code's  *)
(* range tests let index BookLength through, so mem_span has one more      *)
(* cell: the memory word behind the array, whose contents are arbitrary.   *)
(***************************************************************************)
EXTENDS Integers, FiniteSetsExt

CONSTANTS
    Threads,      \* the threads that call process_order and shift_book
    BookLength,   \* book_length: number of price buckets
    HalfRange,    \* 2^31: std::int32_t is -HalfRange..HalfRange-1
    BasePrices,   \* the base prices the book may be constructed with
    Prices,       \* order prices offered to the book
    Volumes,      \* order volumes offered to the book
    Shifts,       \* arguments of shift_book
    SlackValues,  \* possible contents of the word behind the array
    MaxVolume,    \* bound: largest absolute volume of a bucket
    MaxVersion,   \* bound: version_counter counts modulo MaxVersion + 1
    Discipline    \* the restrictions on their calls that the callers observe

\* The restrictions a caller can observe.  With all of them the book keeps
\* its promises; the runs that leave one out show what it is needed for.
Disciplines == {"inner_price", "clear_edges", "clear_top", "lone_shift",
                "narrow_price"}

ASSUME LengthAssumption == BookLength \in Nat \ {0}
ASSUME WidthAssumption == HalfRange \in Nat /\ BookLength < HalfRange
ASSUME InputAssumption ==
    /\ BasePrices \subseteq 0..(2 * HalfRange - 1)
    /\ Prices \subseteq 0..(2 * HalfRange - 1)
    /\ Volumes \subseteq Int
    /\ Shifts \subseteq (-HalfRange)..(HalfRange - 1)
    /\ SlackValues \subseteq Int
ASSUME BoundAssumption ==
    /\ MaxVolume \in Nat
    /\ MaxVersion \in Nat /\ MaxVersion % 2 = 1
ASSUME DisciplineAssumption ==
    /\ Discipline \subseteq Disciplines
    /\ "narrow_price" \in Discipline =>
         \A b \in BasePrices : b + BookLength < HalfRange

VARIABLES
    base_price,       \* price of bucket 0, std::uint32_t
    mem_span,         \* volume of every bucket, and the word behind them
    stats,            \* stats_array: best/lowest bid, best/highest offer
    modify_lock,      \* the std::atomic_flag writers spin on
    version_counter,  \* odd while a writer changes the book
    pc,               \* where each thread is in process_order or shift_book
    order,            \* the order each thread is processing
    run,              \* the locals of run_through_book of each thread
    ret,              \* the response each thread has accumulated
    shift             \* the locals of shift_book of each thread

book == <<base_price, mem_span, stats>>
locals == <<order, run, ret, shift>>
vars == <<base_price, mem_span, stats, modify_lock, version_counter,
          pc, order, run, ret, shift>>
-----------------------------------------------------------------------------
(***************************************************************************)
(* Values.                                                                 *)
(***************************************************************************)
\* An empty std::optional<std::uint32_t>; the code reads it as value_or(-1).
None == -1

\* Conversion of an unsigned value (or of value_or(-1)) to std::int32_t, and
\* of a sum or difference of two unsigned values to std::uint32_t.
Int32(x) == IF x >= HalfRange THEN x - 2 * HalfRange ELSE x
UInt32(x) == IF x < 0 THEN x + 2 * HalfRange
             ELSE IF x >= 2 * HalfRange THEN x - 2 * HalfRange ELSE x

Buckets == 0..(BookLength - 1)
Cells == 0..BookLength
UInts == 0..(2 * HalfRange - 1)
OptPrices == UInts \cup {None}

Orders == [type : {"add", "withdraw"}, volume : Volumes, price : Prices]
          \cup [type : {"market"}, volume : Volumes, price : {0}]

\* make_tuple_from_variant: every handler is called with an order of its
\* type, the default-constructed one unless the message is of that type.
Blank(type) == [type |-> type, volume |-> 0, price |-> 0]
OrderFor(type, o) == IF o.type = type THEN o ELSE Blank(type)

NoStats == [best_bid |-> None, lowest_bid |-> None,
            best_offer |-> None, highest_offer |-> None]
NoRun == [volume |-> 0, dummy |-> TRUE, index |-> 0, n_iterations |-> 0,
          open_vol |-> 0, transaction_index |-> 0, order_revenue |-> 0]
NoResponse == [price |-> 0, filled |-> 0, revenue |-> 0, error |-> 0]
NoShift == [seen_base |-> 0, shift_by |-> 0, possible |-> FALSE,
            mem_shift |-> 0]

\* Auxil::add_to_tuple
AddResponse(r, s) == [price |-> r.price + s.price,
                      filled |-> r.filled + s.filled,
                      revenue |-> r.revenue + s.revenue,
                      error |-> r.error + s.error]

\* fetch_add on the version counter, modulo MaxVersion + 1
Tick(v) == IF v = MaxVersion THEN 0 ELSE v + 1
-----------------------------------------------------------------------------
(***************************************************************************)
(* The bucket and the helpers of the handlers.                             *)
(***************************************************************************)
\* consume_liquidity: the volume taken from a bucket that holds `held' when
\* `fill' is asked for.  Nothing when the signs do not match.
Consumed(held, fill) ==
    IF (held < 0) # (fill < 0) THEN 0
    ELSE IF (IF held < 0 THEN held <= fill ELSE held >= fill) THEN fill
    ELSE held

\* find_liquid_bucket: the price of the first bucket with volume on the way
\* from start to end (only start when end is empty), None without one.
FindLiquid(mem, base, start, end) ==
    LET last == IF end = None THEN start ELSE end
        liquid == {p \in start..last \cup last..start : mem[p - base] # 0}
    IN  IF liquid = {} THEN None
        ELSE IF start <= last THEN Min(liquid) ELSE Max(liquid)

PriceInRange(price, base) ==
    base <= price /\ price <= UInt32(base + BookLength)

\* Both order handlers replace an order that is out of range by one of
\* volume 0 at the base price.
InRange(o, base) == o.volume = 0 \/ PriceInRange(o.price, base)
UsedPrice(o, base) == IF InRange(o, base) THEN o.price ELSE base
UsedVolume(o, base) == IF InRange(o, base) THEN o.volume ELSE 0

\* run_through_book, the locals before the loop
RunFrame(volume, end_price, s, base) ==
    LET buy == volume < 0
        start == Int32(IF buy THEN s.best_offer ELSE s.best_bid)
        dummy == end_price < 0
    IN  [volume |-> volume, dummy |-> dummy,
         index |-> start - Int32(base),
         n_iterations |-> IF buy THEN end_price - start ELSE start - end_price,
         open_vol |-> IF dummy THEN 0 ELSE volume,
         transaction_index |-> 0, order_revenue |-> 0]

\* Slip: the loop forgets its end price
RunningToTheEdge(f) == f.open_vol # 0 /\ f.index >= 0

\* The condition of the loop of run_through_book
Running(f) == f.n_iterations >= 0 /\ f.open_vol # 0 /\ f.index >= 0

\* Slip: an empty bucket is looked at again and again
AdvancedOnFill(f, filled, base) ==
    IF filled = 0 THEN f
    ELSE [f EXCEPT !.index = IF f.volume < 0 THEN @ + 1 ELSE @ - 1,
                   !.n_iterations = @ - 1, !.open_vol = @ + filled]

\* Slip: the revenue is counted at the distance from the base price
AdvancedAtIndex(f, filled, base) ==
    [f EXCEPT !.index = IF f.volume < 0 THEN @ + 1 ELSE @ - 1,
              !.n_iterations = @ - 1,
              !.open_vol = @ + filled,
              !.transaction_index = IF filled # 0 THEN f.index ELSE @,
              !.order_revenue = @ - filled * f.index]

\* run_through_book, the locals after an iteration that filled some volume
Advanced(f, filled, base) ==
    [f EXCEPT !.index = IF f.volume < 0 THEN @ + 1 ELSE @ - 1,
              !.n_iterations = @ - 1,
              !.open_vol = @ + filled,
              !.transaction_index = IF filled # 0 THEN f.index ELSE @,
              !.order_revenue = @ - filled * (f.index + base)]

\* run_through_book, the statistics after the loop
Settled(f, s, mem, base) ==
    LET buy == f.volume < 0
        end(x) == IF f.dummy THEN None ELSE x
        offer == IF buy /\ s.best_offer # None
                 THEN FindLiquid(mem, base, s.best_offer, end(s.highest_offer))
                 ELSE s.best_offer
        bid == IF ~buy /\ s.best_bid # None
               THEN FindLiquid(mem, base, s.best_bid, end(s.lowest_bid))
               ELSE s.best_bid
    IN  [best_bid |-> bid,
         lowest_bid |-> IF bid = None THEN None ELSE s.lowest_bid,
         best_offer |-> offer,
         highest_offer |-> IF offer = None THEN None ELSE s.highest_offer]

RunResponse(f, base) ==
    [price |-> IF f.dummy THEN 0 ELSE base + f.transaction_index,
     filled |-> IF f.dummy THEN 0 ELSE f.volume - f.open_vol,
     revenue |-> f.order_revenue, error |-> 0]
-----------------------------------------------------------------------------
(***************************************************************************)
(* What the handlers compute.                                              *)
(***************************************************************************)
\* AddLimitOrder: does the order meet the other side of the book?
Crossed(o, s, base) ==
    LET volume == UsedVolume(o, base)
        price == UsedPrice(o, base)
    IN  \/ volume < 0 /\ s.best_offer # None /\ price >= s.best_offer
        \/ volume > 0 /\ s.best_bid # None /\ price <= s.best_bid

\* Slip: a run ends at the best price, and what is left rests across the rest
NearEnd(volume, s) ==
    IF volume = 0 THEN -1
    ELSE Int32(IF volume < 0 THEN s.best_offer ELSE s.best_bid)

\* The price a run for this volume ends at: the far end of the other side.
FarEnd(volume, s) ==
    IF volume = 0 THEN -1
    ELSE Int32(IF volume < 0 THEN s.highest_offer ELSE s.lowest_bid)

\* Slip: the far statistics of an empty side are never set
RestedBestOnly(volume, unfilled, price, s) ==
    LET bid == unfilled # 0 /\ volume < 0
        offer == unfilled # 0 /\ volume > 0
    IN  [s EXCEPT !.best_bid = IF bid /\ @ < price THEN price ELSE @,
                  !.lowest_bid = IF bid /\ @ > price THEN price ELSE @,
                  !.best_offer = IF offer /\ (@ = None \/ @ > price)
                                 THEN price ELSE @,
                  !.highest_offer = IF offer /\ @ < price THEN price ELSE @]

\* The statistics once a volume that was not filled rests at a price
Rested(volume, unfilled, price, s) ==
    LET bid == unfilled # 0 /\ volume < 0
        offer == unfilled # 0 /\ volume > 0
    IN  [best_bid |-> IF bid /\ s.best_bid < price
                      THEN price ELSE s.best_bid,
         lowest_bid |-> IF bid /\ (s.lowest_bid = None \/ s.lowest_bid > price)
                        THEN price ELSE s.lowest_bid,
         best_offer |-> IF offer /\ (s.best_offer = None \/ s.best_offer > price)
                        THEN price ELSE s.best_offer,
         highest_offer |-> IF offer /\ s.highest_offer < price
                           THEN price ELSE s.highest_offer]

\* WithdrawLimitOrder: the volume taken out, the memory, then the statistics
Withdrawn(o, mem, base) ==
    IF o.volume = 0 THEN 0
    ELSE Consumed(mem[UsedPrice(o, base) - base], UsedVolume(o, base))

WithdrawnMem(o, mem, base) ==
    IF o.volume = 0 THEN mem
    ELSE [mem EXCEPT ![UsedPrice(o, base) - base] =
                       @ - Withdrawn(o, mem, base)]

\* One statistic after the other looks for its next bucket when its own was
\* emptied, the second of each pair with the new value of the first.
WithdrawnStats(o, mem, base, s) ==
    LET price == UsedPrice(o, base)
        exhausted == o.volume = 0 \/ mem[price - base] = 0
        next(x, end) == IF x # price \/ ~exhausted THEN x
                        ELSE FindLiquid(mem, base, price, end)
        best_bid == IF s.best_bid = None THEN None
                    ELSE next(s.best_bid, s.lowest_bid)
        best_offer == IF s.best_offer = None THEN None
                      ELSE next(s.best_offer, s.highest_offer)
    IN  [best_bid |-> best_bid,
         lowest_bid |-> IF s.lowest_bid = None THEN None
                        ELSE next(s.lowest_bid, best_bid),
         best_offer |-> best_offer,
         highest_offer |-> IF s.highest_offer = None THEN None
                           ELSE next(s.highest_offer, best_offer)]

\* Slip: the price is tested of a blank order too, so every handler that an
\* order is not meant for adds an error of its own
OutOfRangeWhenBlank(o, base) == IF PriceInRange(o.price, base) THEN 0 ELSE 1

\* Slip: the flag is set from the price once that has been replaced
OutOfRangeTooLate(o, base) ==
    IF InRange([o EXCEPT !.price = UsedPrice(o, base)], base) THEN 0 ELSE 1

\* The error in the response: 1 when the price is out of range
OutOfRange(o, base) == IF InRange(o, base) THEN 0 ELSE 1

\* shift_book: is the shift possible, given the base price it read first?
ValueOr(x, y) == IF x = None THEN y ELSE x
NoVolume(s) == s.best_bid = None /\ s.best_offer = None

\* Slip: the test of the base price is missing
ShiftPossibleBelowZero(k, seen_base, base, s) ==
    LET max_price == base + BookLength
    IN  \/ k >= 0 /\ ValueOr(s.lowest_bid, ValueOr(s.best_offer, max_price))
                       - base >= k
        \/ k < 0 /\ max_price - ValueOr(s.highest_offer,
                                        ValueOr(s.best_bid, base)) >= -k
        \/ NoVolume(s)

\* Slip: a shift up may push the lowest bucket out
ShiftPossibleByOneMore(k, seen_base, base, s) ==
    LET max_price == base + BookLength
    IN  /\ \/ k >= 0 /\ ValueOr(s.lowest_bid, ValueOr(s.best_offer, max_price))
                          - base + 1 >= k
           \/ k < 0 /\ max_price - ValueOr(s.highest_offer,
                                           ValueOr(s.best_bid, base)) >= -k
           \/ NoVolume(s)
        /\ seen_base + k >= 0

\* The room at the top is a difference of two std::int32_t.  At the bottom
\* the unsigned base_price makes it one of two std::uint32_t, which becomes a
\* std::int32_t again when it is stored.
ShiftPossible(k, seen_base, base, s) ==
    LET max_price == UInt32(base + BookLength)
        free_top == Int32(max_price) - Int32(ValueOr(s.highest_offer,
                                                     ValueOr(s.best_bid, base)))
        lowest == ValueOr(s.lowest_bid, ValueOr(s.best_offer, max_price))
        free_bottom == Int32(UInt32(lowest - base))
    IN  /\ \/ k >= 0 /\ free_bottom >= k
           \/ k < 0 /\ free_top >= -k
           \/ NoVolume(s)
        /\ Int32(seen_base) + k >= 0

\* Slip: a shift to the right ends one past the array
ShiftedMemPastEnd(mem, k) ==
    IF k <= -BookLength \/ k >= BookLength THEN mem
    ELSE [i \in Cells |-> IF i + k \in Buckets THEN mem[i + k] ELSE mem[i]]

\* std::shift_left (k > 0) and std::shift_right (k < 0): the buckets that
\* are vacated keep their old volume, and nothing moves when the distance is
\* the whole array or more.
ShiftedMem(mem, k) ==
    IF k <= -BookLength \/ k >= BookLength THEN mem
    ELSE [i \in Cells |-> IF i \in Buckets /\ i + k \in Buckets
                          THEN mem[i + k] ELSE mem[i]]
-----------------------------------------------------------------------------
(***************************************************************************)
(* The callers.                                                            *)
(***************************************************************************)
\* Bound: volumes are added only while their bucket stays within MaxVolume.
VolumeFits(o) ==
    o.type = "add" /\ PriceInRange(o.price, base_price) =>
        mem_span[o.price - base_price] + o.volume \in -MaxVolume..MaxVolume

\* inner_price: no order is priced one past the last bucket, an index the
\* handlers take for one of the array.
OrderAllowed(o) ==
    "inner_price" \in Discipline /\ o.volume # 0 =>
        o.price # UInt32(base_price + BookLength)

\* clear_edges: the buckets a shift vacates hold no volume.
\* clear_top: on a shift down no volume is where it would end one past the
\* last bucket.
\* narrow_price: all prices of the shifted book fit into std::int32_t.
ShiftAllowed(k) ==
    /\ "clear_edges" \in Discipline =>
         \A i \in Buckets : mem_span[i] # 0 => i < BookLength - k /\ i >= -k
    /\ "clear_top" \in Discipline /\ k < 0 =>
         \A i \in Buckets : mem_span[i] # 0 => i # BookLength + k
    /\ "narrow_price" \in Discipline =>
         base_price + k + BookLength < HalfRange

ShiftPoints == {"shift_lock", "shift_enter", "shift_move", "shift_base",
                "shift_leave"}

\* lone_shift: one call of shift_book at a time.
ShiftBegins == "lone_shift" \in Discipline =>
                   \A u \in Threads : pc[u] \notin ShiftPoints
-----------------------------------------------------------------------------
(***************************************************************************)
(* process_order                                                           *)
(***************************************************************************)
Goto(t, from, to) == pc[t] = from /\ pc' = [pc EXCEPT ![t] = to]

\* Slip: the lock is set without a look at its old value
LockOrderBlindly(t, o) ==
    /\ Goto(t, "idle", "enter")
    /\ OrderAllowed(o) /\ VolumeFits(o)
    /\ modify_lock' = TRUE
    /\ order' = [order EXCEPT ![t] = o]
    /\ UNCHANGED <<book, version_counter, run, ret, shift>>

\* The call, up to the successful test_and_set; a failing one changes nothing.
LockOrder(t, o) ==
    /\ Goto(t, "idle", "enter")
    /\ ~modify_lock
    /\ OrderAllowed(o) /\ VolumeFits(o)
    /\ modify_lock' = TRUE
    /\ order' = [order EXCEPT ![t] = o]
    /\ UNCHANGED <<book, version_counter, run, ret, shift>>

EnterOrder(t) ==
    /\ Goto(t, "enter", "add")
    /\ version_counter' = Tick(version_counter)
    /\ UNCHANGED <<book, modify_lock, locals>>

\* AddLimitOrder::handle_order up to the loop of run_through_book
StartAdd(t) ==
    LET o == OrderFor("add", order[t])
        volume == UsedVolume(o, base_price)
        end_price == IF Crossed(o, stats, base_price)
                     THEN FarEnd(volume, stats) ELSE -1
    IN  /\ Goto(t, "add", "add_run")
        /\ run' = [run EXCEPT ![t] =
                     RunFrame(volume, end_price, stats, base_price)]
        /\ UNCHANGED <<book, modify_lock, version_counter, order, ret, shift>>

\* One iteration of the loop of run_through_book
RunStep(t) ==
    LET f == run[t]
        filled == Consumed(mem_span[f.index], -f.open_vol)
    IN  /\ pc[t] \in {"add_run", "market_run"}
        /\ Running(f)
        /\ mem_span' = [mem_span EXCEPT ![f.index] = @ - filled]
        /\ run' = [run EXCEPT ![t] = Advanced(f, filled, base_price)]
        /\ UNCHANGED <<base_price, stats, modify_lock, version_counter, pc,
                       order, ret, shift>>

\* The end of run_through_book and the rest of AddLimitOrder::handle_order:
\* what was not filled is added to the bucket of the price.
FinishAdd(t) ==
    LET o == OrderFor("add", order[t])
        f == run[t]
        price == UsedPrice(o, base_price)
        response == RunResponse(f, base_price)
        unfilled == f.volume - response.filled
    IN  /\ Goto(t, "add_run", "withdraw")
        /\ ~Running(f)
        /\ mem_span' = IF f.volume = 0 THEN mem_span
                       ELSE [mem_span EXCEPT ![price - base_price] =
                                               @ + unfilled]
        /\ stats' = Rested(f.volume, unfilled, price,
                           Settled(f, stats, mem_span, base_price))
        /\ ret' = [ret EXCEPT ![t] =
                     [response EXCEPT !.error = OutOfRange(o, base_price)]]
        /\ run' = [run EXCEPT ![t] = NoRun]
        /\ UNCHANGED <<base_price, modify_lock, version_counter, order, shift>>

\* WithdrawLimitOrder::handle_order
Withdraw(t) ==
    LET o == OrderFor("withdraw", order[t])
        mem == WithdrawnMem(o, mem_span, base_price)
    IN  /\ Goto(t, "withdraw", "market")
        /\ mem_span' = mem
        /\ stats' = WithdrawnStats(o, mem, base_price, stats)
        /\ ret' = [ret EXCEPT ![t] = AddResponse(@,
             [price |-> 0, filled |-> Withdrawn(o, mem_span, base_price),
              revenue |-> 0, error |-> OutOfRange(o, base_price)])]
        /\ UNCHANGED <<base_price, modify_lock, version_counter, order, run,
                       shift>>

\* MarketOrder::handle_order up to the loop of run_through_book
StartMarket(t) ==
    LET volume == OrderFor("market", order[t]).volume
    IN  /\ Goto(t, "market", "market_run")
        /\ run' = [run EXCEPT ![t] = RunFrame(volume, FarEnd(volume, stats),
                                              stats, base_price)]
        /\ UNCHANGED <<book, modify_lock, version_counter, order, ret, shift>>

FinishMarket(t) ==
    LET f == run[t]
    IN  /\ Goto(t, "market_run", "leave")
        /\ ~Running(f)
        /\ stats' = Settled(f, stats, mem_span, base_price)
        /\ ret' = [ret EXCEPT ![t] =
                     AddResponse(@, RunResponse(f, base_price))]
        /\ run' = [run EXCEPT ![t] = NoRun]
        /\ UNCHANGED <<base_price, mem_span, modify_lock, version_counter,
                       order, shift>>

LeaveOrder(t) ==
    /\ Goto(t, "leave", "unlock")
    /\ version_counter' = Tick(version_counter)
    /\ UNCHANGED <<book, modify_lock, locals>>
-----------------------------------------------------------------------------
(***************************************************************************)
(* shift_book                                                              *)
(***************************************************************************)
\* pos_base_price is computed from the base price before the lock is taken.
CallShift(t) ==
    /\ Goto(t, "idle", "shift_lock")
    /\ ShiftBegins
    /\ shift' = [shift EXCEPT ![t] = [NoShift EXCEPT !.seen_base = base_price]]
    /\ UNCHANGED <<book, modify_lock, version_counter, order, run, ret>>

LockShift(t, k) ==
    /\ Goto(t, "shift_lock", "shift_enter")
    /\ ~modify_lock
    /\ ShiftAllowed(k)
    /\ modify_lock' = TRUE
    /\ shift' = [shift EXCEPT ![t] = [@ EXCEPT !.shift_by = k]]
    /\ UNCHANGED <<book, version_counter, order, run, ret>>

\* The decision, and the start of the critical section for reads
EnterShift(t) ==
    LET k == shift[t].shift_by
        possible == ShiftPossible(k, shift[t].seen_base, base_price, stats)
    IN  /\ Goto(t, "shift_enter", "shift_move")
        /\ version_counter' = Tick(version_counter)
        /\ shift' = [shift EXCEPT ![t] =
             [@ EXCEPT !.possible = possible,
                       !.mem_shift = IF possible /\ ~NoVolume(stats)
                                     THEN k ELSE 0]]
        /\ UNCHANGED <<book, modify_lock, order, run, ret>>

MoveBuckets(t) ==
    /\ Goto(t, "shift_move", "shift_base")
    /\ mem_span' = ShiftedMem(mem_span, shift[t].mem_shift)
    /\ UNCHANGED <<base_price, stats, modify_lock, version_counter, locals>>

MoveBase(t) ==
    /\ Goto(t, "shift_base", "shift_leave")
    /\ base_price' = IF shift[t].possible
                     THEN UInt32(base_price + shift[t].shift_by)
                     ELSE base_price
    /\ UNCHANGED <<mem_span, stats, modify_lock, version_counter, locals>>

LeaveShift(t) ==
    /\ Goto(t, "shift_leave", "unlock")
    /\ version_counter' = Tick(version_counter)
    /\ UNCHANGED <<book, modify_lock, locals>>

\* AtomicFlagGuard::unlock, called by process_order and by the destructor of
\* the guard of shift_book, and the return to the caller
Unlock(t) ==
    /\ Goto(t, "unlock", "idle")
    /\ modify_lock' = FALSE
    /\ order' = [order EXCEPT ![t] = Blank("add")]
    /\ ret' = [ret EXCEPT ![t] = NoResponse]
    /\ shift' = [shift EXCEPT ![t] = NoShift]
    /\ UNCHANGED <<book, version_counter, run>>
-----------------------------------------------------------------------------
Init ==
    /\ base_price \in BasePrices
    /\ mem_span \in {[i \in Cells |-> IF i = BookLength THEN w ELSE 0] :
                       w \in SlackValues}
    /\ stats = NoStats
    /\ modify_lock = FALSE
    /\ version_counter = 0
    /\ pc = [t \in Threads |-> "idle"]
    /\ order = [t \in Threads |-> Blank("add")]
    /\ run = [t \in Threads |-> NoRun]
    /\ ret = [t \in Threads |-> NoResponse]
    /\ shift = [t \in Threads |-> NoShift]

\* The steps of a thread that holds the lock
OrderStep(t) ==
    \/ EnterOrder(t) \/ StartAdd(t) \/ RunStep(t) \/ FinishAdd(t)
    \/ Withdraw(t) \/ StartMarket(t) \/ FinishMarket(t) \/ LeaveOrder(t)

ShiftStep(t) ==
    \/ EnterShift(t) \/ MoveBuckets(t) \/ MoveBase(t) \/ LeaveShift(t)

HolderStep(t) == OrderStep(t) \/ ShiftStep(t) \/ Unlock(t)

\* The steps that start a call or end the wait for the lock
CallerStep(t) ==
    \/ \E o \in Orders : LockOrder(t, o)
    \/ CallShift(t)
    \/ \E k \in Shifts : LockShift(t, k)

Next == \E t \in Threads : CallerStep(t) \/ HolderStep(t)

Spec == Init /\ [][Next]_vars

\* A thread inside the lock never blocks, so it runs on.  Nothing is assumed
\* of the threads that spin: test_and_set favours no one.
Fairness == \A t \in Threads : WF_vars(HolderStep(t))

FairSpec == Spec /\ Fairness
-----------------------------------------------------------------------------
(***************************************************************************)
(* Properties.                                                             *)
(***************************************************************************)
FluxPoints == {"add", "add_run", "withdraw", "market", "market_run", "leave",
               "shift_move", "shift_base", "shift_leave"}
HeldPoints == FluxPoints \cup {"enter", "shift_enter", "unlock"}
Points == HeldPoints \cup {"idle", "shift_lock"}

Statistics == [best_bid : OptPrices, lowest_bid : OptPrices,
               best_offer : OptPrices, highest_offer : OptPrices]
\* The status of a response is 0 or 1, although it is the sum of the three
\* handlers' (readme.md; OrderBook.hpp:157-168).
Responses == [price : Int, filled : Int, revenue : Int, error : {0, 1}]
Frames == [volume : Int, dummy : BOOLEAN, index : Int, n_iterations : Int,
           open_vol : Int, transaction_index : Int, order_revenue : Int]
ShiftFrames == [seen_base : UInts,
                shift_by : (-HalfRange)..(HalfRange - 1),
                possible : BOOLEAN,
                mem_shift : Int]

\* Every variable holds a value of the type it has in the code.
TypeOK ==
    /\ base_price \in UInts
    /\ mem_span \in [Cells -> Int]
    /\ stats \in Statistics
    /\ modify_lock \in BOOLEAN
    /\ version_counter \in 0..MaxVersion
    /\ pc \in [Threads -> Points]
    /\ order \in [Threads -> Orders \cup {Blank("add")}]
    /\ run \in [Threads -> Frames]
    /\ ret \in [Threads -> Responses]
    /\ shift \in [Threads -> ShiftFrames]

\* A read is valid when it sees an even version counter (OrderBook.hpp:210).
Readable == version_counter % 2 = 0

\* The lock and the version counter tell the truth: one thread at most is
\* inside the lock, the lock is taken exactly when one is, and the counter is
\* odd exactly while one changes the book (OrderBook.hpp:179-191, 243-275).
WriterExclusion ==
    /\ \A t, u \in Threads :
         pc[t] \in HeldPoints /\ pc[u] \in HeldPoints => t = u
    /\ modify_lock <=> \E t \in Threads : pc[t] \in HeldPoints
    /\ Readable <=> \A t \in Threads : pc[t] \notin FluxPoints

\* The prices with demand and with supply in the array
Demand == {p \in base_price..(base_price + BookLength - 1) :
             mem_span[p - base_price] < 0}
Supply == {p \in base_price..(base_price + BookLength - 1) :
             mem_span[p - base_price] > 0}

\* lo and hi are the least and the greatest price in S, None when S is empty.
Spans(lo, hi, S) ==
    \/ S = {} /\ lo = None /\ hi = None
    \/ lo \in S /\ hi \in S /\ \A p \in S : lo <= p /\ p <= hi

Uncrossed == \A bid \in Demand, offer \in Supply : bid < offer

\* Whenever a read is valid, the book is not crossed and the four statistics
\* are the exact ends of its demand and its supply ("keeps track of best bid,
\* lowest bid, best offer and highest offer at all times", readme.md; the
\* stepwise maintenance in FIXMsgClasses.hpp and OrderBookHelpers.hpp).
StatsExact ==
    Readable => /\ Spans(stats.lowest_bid, stats.best_bid, Demand)
                /\ Spans(stats.best_offer, stats.highest_offer, Supply)
                /\ Uncrossed

\* __invariants_check, the code's own check of the book, one conjunct for
\* each of its error messages (OrderBook.hpp:279-371).
StatLiquid(x) == x # None => mem_span[x - base_price] # 0
ChecksPass ==
    LET bb == stats.best_bid  lb == stats.lowest_bid
        bo == stats.best_offer  ho == stats.highest_offer
        at(i) == mem_span[i]
    IN  /\ bb # None /\ lb # None =>
             /\ \A i \in Buckets : i > bb - base_price => at(i) >= 0
             /\ \A i \in Buckets : i < lb - base_price => at(i) = 0
        /\ bo # None /\ ho # None =>
             /\ \A i \in Buckets : i > ho - base_price => at(i) = 0
             /\ \A i \in Buckets : i < bo - base_price => at(i) <= 0
        /\ bb # None /\ bo # None => bb < bo
        /\ (bb = None) = (lb = None)
        /\ (bo = None) = (ho = None)
        /\ ValueOr(bb, 0) >= ValueOr(lb, 0)
        /\ ValueOr(bo, 0) <= ValueOr(ho, 0)
        /\ StatLiquid(lb) /\ StatLiquid(bb) /\ StatLiquid(bo) /\ StatLiquid(ho)

InvariantsCheck == Readable => ChecksPass

\* The loop of run_through_book reads and writes buckets of the array only
\* (the index is bounded by the statistics, OrderBookHelpers.hpp:92-105).
RunInBounds ==
    \A t \in Threads :
        pc[t] \in {"add_run", "market_run"} /\ Running(run[t]) =>
            run[t].index \in Buckets

\* The word behind the array is never written ("set order volume to 0 and
\* price to base price to avoid out of bounds memory access",
\* FIXMsgClasses.hpp:141-143).
SlackUntouched ==
    [][mem_span'[BookLength] = mem_span[BookLength]]_vars

\* An order is refused exactly when its price lies outside the array: it gets
\* the error 1 and three zeros, although all three handlers answer it, and
\* every other order gets the error 0 ("0 if order price was within bounds, 1
\* if it wasn't (other three entries must be 0 in this case)", readme.md; the
\* price tests of FIXMsgClasses.hpp and the sum of the
\* responses of a real and two blank orders, OrderBook.hpp:157-168).
Outside(o) ==
    /\ o.type # "market" /\ o.volume # 0
    /\ o.price \notin base_price..(base_price + BookLength - 1)
RefusedResponse ==
    \A t \in Threads : pc[t] = "unlock" =>
        IF Outside(order[t]) THEN ret[t] = [NoResponse EXCEPT !.error = 1]
        ELSE ret[t].error = 0

\* Moving the buckets leaves the volume of every price what it was, once the
\* base price follows (shift_book: "shifts all volume within memory", "not
\* possible if shifting would ... result in non-zero volume buckets falling
\* out of bounds", readme.md; OrderBook.hpp:247-274).
VolumeAt(p, mem, base) == IF p - base \in Buckets THEN mem[p - base] ELSE 0
ShiftKeepsVolume ==
    [][\A t \in Threads : MoveBuckets(t) =>
         \A p \in UInts :
             VolumeAt(p, mem_span', base_price + shift[t].mem_shift)
               = VolumeAt(p, mem_span, base_price)]_vars

\* The base price moves by the distance asked for and never wraps around
\* ("Not possible if shifting would turn base price negative", readme.md;
\* OrderBook.hpp:239-240, 264, 274).
BaseNeverWraps ==
    [][base_price' # base_price =>
         \E t \in Threads : base_price' = base_price + shift[t].shift_by]_vars

\* A limit order trades at no worse a price than its own (unlike a market
\* order, which comes "without specifying a transaction price", readme.md;
\* FIXMsgClasses.hpp:161-166).  It does not hold (README, section 3).
LimitRespected ==
    [][\A t \in Threads :
         pc[t] = "add_run" /\ RunStep(t) /\ mem_span' # mem_span =>
             IF order[t].volume < 0
             THEN run[t].index + base_price <= order[t].price
             ELSE run[t].index + base_price >= order[t].price]_vars

\* A call that has the lock returns: the loop of run_through_book ends, and
\* every path releases the lock (OrderBook.hpp:171-194, 236-277).
CallReturns ==
    \A t \in Threads : pc[t] \in HeldPoints ~> pc[t] = "idle"
=============================================================================
