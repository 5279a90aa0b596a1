----------------------- MODULE BookRefinementProofs -----------------------
(***************************************************************************)
(* OrderBook implements MatchingBook: proved for every number of threads,  *)
(* every size of the book and every input, for callers that observe all of *)
(* Disciplines.                                                            *)
(*                                                                         *)
(* The invariant of OrderBookProofs says that the book fits its            *)
(* statistics.  What is added here says that an order is accounted for:    *)
(* the response so far is that of the handler of the order's own type, the *)
(* run has earned nothing before it fills something, and a shift in        *)
(* progress remembers how far it moved the buckets.                        *)
(***************************************************************************)
EXTENDS BookRefinement, OrderBookProofs

\* The points from the call of process_order to its last step in the book
OrderPoints == (FluxPoints \ ShiftPoints) \cup {"enter"}

\* The error an order is answered by, and where its own handler has answered
Refusal(o, base) == IF o.type = "market" THEN 0 ELSE OutOfRange(o, base)
Answered(t) == \/ pc[t] = "withdraw" /\ order[t].type = "add"
               \/ pc[t] \in {"market", "market_run", "leave", "unlock"}

\* The handlers that the order is not meant for add nothing to the response,
\* the response to a refused order holds the error and nothing else, and an
\* order is refused when its price is out of range.
ResponseFits(t) ==
    /\ pc[t] \notin {"withdraw", "market", "market_run", "leave", "unlock"} =>
         ret[t] = NoResponse
    /\ pc[t] = "withdraw" /\ order[t].type # "add" => ret[t] = NoResponse
    /\ pc[t] \in {"market", "market_run"} /\ order[t].type = "market" =>
         ret[t] = NoResponse
    /\ ret[t].error # 0 => ret[t] = [NoResponse EXCEPT !.error = 1]
    /\ Answered(t) => ret[t].error = Refusal(order[t], base_price)

\* Where a run begins: at the best price of the other side.
FirstPrice(f, s) == IF f.volume < 0 THEN s.best_offer ELSE s.best_bid

\* A run that has filled nothing is at its first bucket, which holds
\* volume; one that does nothing has earned nothing; and a market order does
\* nothing only when there is nothing for it.
RunPaid(t) ==
    /\ pc[t] \in RunPoints =>
         LET f == run[t]
         IN  /\ f.dummy => f.order_revenue = 0
             /\ ~f.dummy /\ f.volume < 0 => f.volume <= f.open_vol
             /\ ~f.dummy /\ f.volume > 0 => f.open_vol <= f.volume
             /\ ~f.dummy /\ f.open_vol = f.volume =>
                  /\ base_price + f.index = FirstPrice(f, stats)
                  /\ mem_span[f.index] # 0
    /\ pc[t] = "market_run" =>
         LET f == run[t]
         IN  /\ f.volume = OrderFor("market", order[t]).volume
             /\ f.dummy => \/ f.volume = 0
                           \/ f.volume < 0 /\ stats.best_offer = None
                           \/ f.volume > 0 /\ stats.best_bid = None

\* The locals of shift_book are in use during a shift only, and remember it
\* up to its end.
ShiftRemembered(t) ==
    /\ pc[t] \in OrderPoints \cup {"idle"} => shift[t] = NoShift
    /\ pc[t] \in {"shift_move", "shift_base", "shift_leave"} => shift[t] # NoShift
    /\ pc[t] = "shift_base" =>
         shift[t].mem_shift = IF shift[t].possible /\ ~NoVolume(stats)
                              THEN shift[t].shift_by ELSE 0

Accounted(t) == ResponseFits(t) /\ RunPaid(t) /\ ShiftRemembered(t)

AccountInv == IInv /\ \A t \in Threads : Accounted(t)
-----------------------------------------------------------------------------
(***************************************************************************)
(* Which threads a step concerns.                                          *)
(***************************************************************************)
\* A step of the thread inside the lock leaves the others outside, and what
\* is said of them stays true whatever becomes of the book.
LEMMA HolderAccounts ==
    ASSUME AccountInv, NEW t \in Threads, pc[t] \in HeldPoints,
           \A u \in Threads : u # t =>
             /\ pc'[u] = pc[u] /\ ret'[u] = ret[u] /\ shift'[u] = shift[u],
           Accounted(t)'
    PROVE  \A u \in Threads : Accounted(u)'
<1> SUFFICES ASSUME NEW u \in Threads, u # t PROVE Accounted(u)'
  OBVIOUS
<1>1. pc[u] \in {"idle", "shift_lock"}
  BY Alone DEF AccountInv
<1>2. Accounted(u)
  BY DEF AccountInv
<1>3. ret[u] = NoResponse
  BY <1>1, <1>2 DEF Accounted, ResponseFits, Answered
<1>4. ResponseFits(u)'
  BY <1>1, <1>3 DEF ResponseFits, Answered, NoResponse
<1>5. RunPaid(u)'
  BY <1>1 DEF RunPaid, RunPoints
<1>6. ShiftRemembered(u)'
  BY <1>1, <1>2 DEF Accounted, ShiftRemembered
<1> QED
  BY <1>4, <1>5, <1>6 DEF Accounted

\* The steps of a thread outside the lock leave the book alone.
LEMMA CallerAccounts ==
    ASSUME AccountInv, NEW t \in Threads, CallerStep(t)
    PROVE  \A u \in Threads : Accounted(u)'
<1>1. /\ pc[t] \in {"idle", "shift_lock"}
      /\ \E to \in {"enter", "shift_lock", "shift_enter"} :
           pc' = [pc EXCEPT ![t] = to] /\ (to = "enter" => pc[t] = "idle" /\ shift' = shift)
      /\ \A u \in Threads : u # t => order'[u] = order[u] /\ shift'[u] = shift[u]
      /\ UNCHANGED <<book, run, ret>>
  BY DEF CallerStep, LockOrder, CallShift, LockShift, Goto, book, AccountInv, IInv, Typed
<1>2. /\ pc'[t] \in {"enter", "shift_lock", "shift_enter"}
      /\ pc'[t] = "enter" => pc[t] = "idle" /\ shift' = shift
      /\ \A u \in Threads : u # t => pc'[u] = pc[u]
  BY <1>1 DEF AccountInv, IInv, Typed
<1>3. ASSUME NEW u \in Threads, u # t
      PROVE  Accounted(u)'
  <2>1. /\ Accounted(u) /\ pc'[u] = pc[u] /\ order'[u] = order[u]
        /\ shift'[u] = shift[u]
    BY <1>1, <1>2, <1>3 DEF AccountInv
  <2>2. /\ ret' = ret /\ run' = run /\ base_price' = base_price
        /\ mem_span' = mem_span /\ stats' = stats
    BY <1>1 DEF book
  <2> QED
    BY <2>1, <2>2 DEF Accounted, ResponseFits, Answered, RunPaid, ShiftRemembered
<1>4. Accounted(t)'
  <2>1. ret'[t] = NoResponse
    BY <1>1 DEF AccountInv, Accounted, ResponseFits, Answered
  <2>2. pc'[t] = "enter" => shift'[t] = NoShift
    BY <1>2 DEF AccountInv, Accounted, ShiftRemembered
  <2>3. ResponseFits(t)' /\ RunPaid(t)'
    BY <1>2, <2>1 DEF ResponseFits, Answered, RunPaid, RunPoints, NoResponse
  <2>4. ShiftRemembered(t)'
    BY <1>2, <2>2 DEF ShiftRemembered, OrderPoints, FluxPoints, ShiftPoints
  <2> QED
    BY <2>3, <2>4 DEF Accounted
<1> QED
  BY <1>3, <1>4
-----------------------------------------------------------------------------
(***************************************************************************)
(* A run through the book.                                                 *)
(***************************************************************************)
\* A run begins with nothing filled, at the best bucket of the other side.
LEMMA RunOpens ==
    ASSUME NEW mem \in [Cells -> Int], NEW base, BaseFits(base),
           NEW s \in Statistics, Sound(mem, base, s), NEW volume \in Int,
           NEW end_price, end_price = -1 \/ end_price = FarEnd(volume, s),
           NEW f, f = RunFrame(volume, end_price, s, base)
    PROVE  /\ f.order_revenue = 0
           /\ ~f.dummy => /\ f.volume = volume /\ f.open_vol = volume
                          /\ base + f.index = FirstPrice(f, s)
                          /\ mem[f.index] # 0
<1>1. f.order_revenue = 0 /\ f.volume = volume /\ (~f.dummy => f.open_vol = volume)
  BY DEF RunFrame
<1>2. ASSUME ~f.dummy
      PROVE  base + f.index = FirstPrice(f, s) /\ mem[f.index] # 0
  <2> DEFINE first == IF volume < 0 THEN s.best_offer ELSE s.best_bid
  <2>1. /\ volume # 0
        /\ volume < 0 => s.best_offer # None
        /\ volume > 0 => s.best_bid # None
    BY <1>2, RunBegins
  <2>2. first # None /\ (volume < 0 \/ volume > 0)
    BY <2>1
  <2>3. base \in Nat /\ Int32(base) = base
    BY LengthAssumption, WidthAssumption DEF BaseFits, Int32
  <2>4. first \in PricesOf(base) /\ mem[first - base] # 0
    <3>1. CASE volume < 0
      BY <2>2, <2>3, <3>1, SoundPrices DEF Sound, OffersSound
    <3>2. CASE ~(volume < 0)
      BY <2>2, <2>3, <3>2, SoundPrices DEF Sound, BidsSound
    <3> QED
      BY <3>1, <3>2
  <2>5. Int32(first) = first /\ first \in Int
    BY <2>3, <2>4, LengthAssumption, WidthAssumption DEF PricesOf, BaseFits, Int32
  <2>6. f.index = Int32(first) - Int32(base)
    BY DEF RunFrame
  <2>7. FirstPrice(f, s) = first
    BY <1>1 DEF FirstPrice
  <2> HIDE DEF first
  <2> QED
    BY <2>3, <2>4, <2>5, <2>6, <2>7
<1> QED
  BY <1>1, <1>2

LEMMA StartAccounts ==
    ASSUME AccountInv, NEW t \in Threads, StartAdd(t) \/ StartMarket(t)
    PROVE  \A u \in Threads : Accounted(u)'
<1> DEFINE o == OrderFor("add", order[t])
           volume == IF StartAdd(t) THEN UsedVolume(o, base_price)
                     ELSE OrderFor("market", order[t]).volume
           end_price == IF StartAdd(t) /\ ~Crossed(o, stats, base_price)
                        THEN -1 ELSE FarEnd(volume, stats)
           f == RunFrame(volume, end_price, stats, base_price)
<1>1. \/ StartAdd(t) /\ pc[t] = "add" /\ pc' = [pc EXCEPT ![t] = "add_run"]
      \/ ~StartAdd(t) /\ pc[t] = "market" /\ pc' = [pc EXCEPT ![t] = "market_run"]
  BY DEF StartAdd, StartMarket, Goto
<1>2. /\ run' = [run EXCEPT ![t] = f]
      /\ UNCHANGED <<book, order, ret, shift>>
  BY DEF StartAdd, StartMarket
<1>3. Sound(mem_span, base_price, stats)
  BY <1>1, Alone, PointClasses DEF AccountInv, Settling, RunPoints
<1>4. o.volume \in Int /\ OrderFor("market", order[t]).volume \in Int
  BY OrderTypes DEF AccountInv, IInv
<1>5. volume \in Int
  BY <1>4 DEF UsedVolume
<1>6. BaseFits(base_price) /\ mem_span \in [Cells -> Int] /\ stats \in Statistics
  BY DEF AccountInv, IInv, Typed
<1>7. end_price = -1 \/ end_price = FarEnd(volume, stats)
  OBVIOUS
<1>8. ~StartAdd(t) => volume = OrderFor("market", order[t]).volume
                      /\ end_price = FarEnd(volume, stats)
  OBVIOUS
<1> HIDE DEF o, volume, end_price
<1>9. /\ f.order_revenue = 0
      /\ ~f.dummy => /\ f.volume = volume /\ f.open_vol = volume
                     /\ base_price + f.index = FirstPrice(f, stats)
                     /\ mem_span[f.index] # 0
  BY <1>3, <1>5, <1>6, <1>7, RunOpens
<1>10. /\ f.volume = volume
       /\ f.dummy <=> \/ end_price = -1 \/ volume = 0
                      \/ volume < 0 /\ stats.best_offer = None
                      \/ volume > 0 /\ stats.best_bid = None
  BY <1>3, <1>5, <1>6, <1>7, RunBegins
<1>11. ~StartAdd(t) /\ f.dummy => \/ volume = 0
                                  \/ volume < 0 /\ stats.best_offer = None
                                  \/ volume > 0 /\ stats.best_bid = None
  <2> SUFFICES ASSUME ~StartAdd(t), f.dummy, end_price = -1,
                      volume < 0 \/ volume > 0
               PROVE  \/ volume < 0 /\ stats.best_offer = None
                      \/ volume > 0 /\ stats.best_bid = None
    BY <1>5, <1>10
  <2> QED
    BY <1>3, <1>5, <1>6, <1>8, FarEndReal
<1> HIDE DEF f
<1>12. /\ pc'[t] \in RunPoints /\ pc'[t] = (IF StartAdd(t) THEN "add_run" ELSE "market_run")
       /\ run'[t] = f /\ order' = order /\ ret' = ret /\ shift' = shift
       /\ base_price' = base_price /\ mem_span' = mem_span /\ stats' = stats
  BY <1>1, <1>2 DEF AccountInv, IInv, Typed, book, RunPoints
<1>13. RunPaid(t)'
  BY <1>5, <1>8, <1>9, <1>10, <1>11, <1>12 DEF RunPaid, FirstPrice
<1>14. ResponseFits(t)' /\ ShiftRemembered(t)'
  BY <1>1, <1>12 DEF AccountInv, Accounted, ResponseFits, Answered, ShiftRemembered,
     OrderPoints, FluxPoints, ShiftPoints
<1> QED
  BY <1>1, <1>12, <1>13, <1>14, HolderAccounts, PointClasses
     DEF Accounted, AccountInv, IInv, Typed

\* What an iteration of the loop fills, and from which bucket: there is
\* nothing for the order in the buckets that were passed.
LEMMA RunFills ==
    ASSUME IInv, NEW t \in Threads, RunStep(t),
           NEW f, f = run[t],
           NEW filled, filled = Consumed(mem_span[f.index], -f.open_vol)
    PROVE  /\ f \in Frames /\ f.index \in Buckets /\ mem_span[f.index] \in Int
           /\ filled \in Int /\ ~f.dummy /\ (f.volume < 0 \/ f.volume > 0)
           /\ f.volume < 0 =>
                /\ f.open_vol < 0 /\ mem_span[f.index] >= 0
                /\ 0 <= filled /\ filled <= -f.open_vol
                /\ \A i \in Buckets : mem_span[i] > 0 => f.index <= i
           /\ f.volume > 0 =>
                /\ f.open_vol > 0 /\ mem_span[f.index] <= 0
                /\ filled <= 0 /\ -f.open_vol <= filled
                /\ \A i \in Buckets : mem_span[i] < 0 => i <= f.index
           /\ filled = 0 => mem_span[f.index] = 0
           /\ mem_span' = [mem_span EXCEPT ![f.index] = @ - filled]
           /\ run'[t] = Advanced(f, filled, base_price)
<1> USE LengthAssumption DEF None
<1>1. pc[t] \in RunPoints /\ Running(f)
  BY DEF RunStep, RunPoints
<1>2. /\ mem_span' = [mem_span EXCEPT ![f.index] = @ - filled]
      /\ run'[t] = Advanced(f, filled, base_price)
  BY DEF RunStep, IInv, Typed
<1>3. RunSound(f, mem_span, base_price, stats) /\ f \in Frames
  BY <1>1 DEF IInv, Typed, ThreadSound, RunFits
<1>4. /\ base_price \in Nat /\ mem_span \in [Cells -> Int] /\ stats \in Statistics
      /\ f.index \in Int /\ f.open_vol \in Int /\ f.volume \in Int
  BY <1>3 DEF IInv, Typed, BaseFits, Frames
<1>5. ~f.dummy /\ f.open_vol # 0 /\ (f.volume < 0 \/ f.volume > 0)
  BY <1>1, <1>3, <1>4 DEF Running, RunSound
<1>6. f.index \in Buckets
  BY RunStepSound
<1>7. mem_span[f.index] \in Int
  BY <1>4, <1>6 DEF Buckets, Cells
<1>8. CASE f.volume < 0
  <2>1. BuyRun(f, mem_span, base_price, stats)
    BY <1>3, <1>5, <1>8 DEF RunSound
  <2>2. f.open_vol < 0 /\ \A i \in Buckets : mem_span[i] > 0 => f.index <= i
    BY <1>4, <1>5, <2>1 DEF BuyRun, Buckets
  <2>3. mem_span[f.index] >= 0
    <3>1. stats.best_offer <= base_price + f.index
      BY <2>1 DEF BuyRun
    <3>2. /\ stats.best_bid \in Int /\ stats.best_offer \in Int
          /\ stats.lowest_bid \in Int
      BY <1>4 DEF Statistics, OptPrices, UInts
    <3>3. stats.best_bid # None => stats.best_bid < stats.best_offer
      BY <2>1 DEF BuyRun, Apart
    <3>4. mem_span[f.index] < 0 =>
            stats.best_bid # None /\ base_price + f.index <= stats.best_bid
      BY <1>6, <2>1 DEF BuyRun, BidsSound
    <3> QED
      BY <1>4, <1>7, <3>1, <3>2, <3>3, <3>4
  <2>4. 0 <= filled /\ filled <= -f.open_vol /\ filled \in Int
        /\ (filled = 0 => mem_span[f.index] = 0)
    BY <1>4, <1>7, <2>2, <2>3 DEF Consumed
  <2> QED
    BY <1>2, <1>3, <1>4, <1>5, <1>6, <1>7, <1>8, <2>2, <2>3, <2>4
<1>9. CASE f.volume > 0
  <2>1. SellRun(f, mem_span, base_price, stats)
    BY <1>3, <1>5, <1>9 DEF RunSound
  <2>2. f.open_vol > 0 /\ \A i \in Buckets : mem_span[i] < 0 => i <= f.index
    BY <1>4, <1>5, <2>1 DEF SellRun, Buckets
  <2>3. mem_span[f.index] <= 0
    <3>1. base_price + f.index <= stats.best_bid /\ stats.best_bid # None
      BY <2>1 DEF SellRun
    <3>2. /\ stats.best_bid \in Int /\ stats.best_offer \in Int
          /\ stats.highest_offer \in Int
      BY <1>4 DEF Statistics, OptPrices, UInts
    <3>3. stats.best_offer # None => stats.best_bid < stats.best_offer
      BY <2>1, <3>1 DEF SellRun, Apart
    <3>4. mem_span[f.index] > 0 =>
            stats.best_offer # None /\ stats.best_offer <= base_price + f.index
      BY <1>6, <2>1 DEF SellRun, OffersSound
    <3> QED
      BY <1>4, <1>7, <3>1, <3>2, <3>3, <3>4
  <2>4. filled <= 0 /\ -f.open_vol <= filled /\ filled \in Int
        /\ (filled = 0 => mem_span[f.index] = 0)
    BY <1>4, <1>7, <2>2, <2>3 DEF Consumed
  <2> QED
    BY <1>2, <1>3, <1>4, <1>5, <1>6, <1>7, <1>9, <2>2, <2>3, <2>4
<1> QED
  BY <1>5, <1>8, <1>9

\* The locals after an iteration
LEMMA AdvancedFields ==
    ASSUME NEW f \in Frames, NEW filled \in Int, NEW base,
           NEW f2, f2 = Advanced(f, filled, base)
    PROVE  /\ f2.volume = f.volume /\ f2.dummy = f.dummy
           /\ f2.open_vol = f.open_vol + filled
           /\ f2.transaction_index = IF filled # 0 THEN f.index ELSE f.transaction_index
           /\ f2.order_revenue = f.order_revenue - filled * (f.index + base)
BY DEF Advanced, Frames

LEMMA RunStepAccounts ==
    ASSUME AccountInv, NEW t \in Threads, RunStep(t)
    PROVE  \A u \in Threads : Accounted(u)'
<1> DEFINE f == run[t]
           filled == Consumed(mem_span[f.index], -f.open_vol)
           f2 == run'[t]
<1>1. /\ pc[t] \in RunPoints
      /\ UNCHANGED <<base_price, stats, pc, order, ret, shift>>
  BY DEF RunStep, RunPoints
<1>2. /\ f \in Frames /\ filled \in Int /\ ~f.dummy /\ (f.volume < 0 \/ f.volume > 0)
      /\ f.volume < 0 => f.open_vol < 0 /\ 0 <= filled
      /\ f.volume > 0 => f.open_vol > 0 /\ filled <= 0
      /\ filled = 0 => mem_span[f.index] = 0
      /\ f2 = Advanced(f, filled, base_price)
  BY RunFills DEF AccountInv
<1>3. RunSound(f2, mem_span', base_price, stats)
  BY RunStepSound DEF AccountInv
<1>4. Accounted(t)
  BY DEF AccountInv
<1>5. /\ f.volume < 0 => f.volume <= f.open_vol
      /\ f.volume > 0 => f.open_vol <= f.volume
      /\ f.open_vol = f.volume => mem_span[f.index] # 0
      /\ pc[t] = "market_run" => f.volume = OrderFor("market", order[t]).volume
  BY <1>1, <1>2, <1>4 DEF Accounted, RunPaid
<1> HIDE DEF f, filled
<1>6. f2.volume = f.volume /\ f2.dummy = f.dummy /\ f2.open_vol = f.open_vol + filled
  BY <1>2, AdvancedFields
<1>7. f.volume \in Int /\ f.open_vol \in Int
  BY <1>2 DEF Frames
<1> HIDE DEF f2
<1>8. /\ f2.volume < 0 => f2.volume <= f2.open_vol
      /\ f2.volume > 0 => f2.open_vol <= f2.volume
      /\ f2.open_vol # f2.volume
  BY <1>2, <1>5, <1>6, <1>7
<1>9. RunPaid(t)'
  BY <1>1, <1>2, <1>5, <1>6, <1>8 DEF RunPaid, f2
<1>10. ResponseFits(t)' /\ ShiftRemembered(t)'
  BY <1>1, <1>4 DEF Accounted, ResponseFits, Answered, ShiftRemembered, RunPoints
<1> QED
  BY <1>1, <1>9, <1>10, HolderAccounts, PointClasses DEF Accounted, RunPoints
-----------------------------------------------------------------------------
(***************************************************************************)
(* The responses.                                                          *)
(***************************************************************************)
\* Nothing added to a response, and a response added to nothing
LEMMA AddNothing ==
    ASSUME NEW r \in WideResponses
    PROVE  AddResponse(r, NoResponse) = r /\ AddResponse(NoResponse, r) = r
<1>1. /\ r = [price |-> r.price, filled |-> r.filled, revenue |-> r.revenue,
              error |-> r.error]
      /\ r.price \in Int /\ r.filled \in Int /\ r.revenue \in Int /\ r.error \in Int
  BY DEF WideResponses
<1>2. /\ r.price + 0 = r.price /\ r.filled + 0 = r.filled
      /\ r.revenue + 0 = r.revenue /\ r.error + 0 = r.error
      /\ 0 + r.price = r.price /\ 0 + r.filled = r.filled
      /\ 0 + r.revenue = r.revenue /\ 0 + r.error = r.error
  BY <1>1
<1>3. /\ NoResponse.price = 0 /\ NoResponse.filled = 0
      /\ NoResponse.revenue = 0 /\ NoResponse.error = 0
  BY DEF NoResponse
<1> QED
  BY Zenon, <1>1, <1>2, <1>3 DEF AddResponse

\* An order is of one of the three types, and the handlers of the others get
\* a blank one, of volume 0 and so in range.
LEMMA BlankForOthers ==
    ASSUME Typed, NEW t \in Threads, NEW type
    PROVE  /\ order[t].type \in {"add", "withdraw", "market"}
           /\ order[t].type = type => OrderFor(type, order[t]) = order[t]
           /\ order[t].type # type =>
                \A base : /\ OrderFor(type, order[t]).volume = 0
                          /\ UsedVolume(OrderFor(type, order[t]), base) = 0
                          /\ OutOfRange(OrderFor(type, order[t]), base) = 0
<1>1. order[t] \in Orders \cup {Blank("add")}
  BY DEF Typed
<1>2. order[t].type \in {"add", "withdraw", "market"}
  BY <1>1 DEF Orders, Blank
<1>3. Blank(type).volume = 0
  BY DEF Blank
<1> QED
  BY <1>2, <1>3 DEF OrderFor, UsedVolume, OutOfRange, InRange

\* What AddLimitOrder::handle_order answers
LEMMA AddAnswers ==
    ASSUME AccountInv, NEW t \in Threads, FinishAdd(t),
           NEW o, o = OrderFor("add", order[t])
    PROVE  /\ ret'[t] = [RunResponse(run[t], base_price)
                           EXCEPT !.error = OutOfRange(o, base_price)]
           /\ run[t].volume = UsedVolume(o, base_price)
           /\ run[t].volume = 0 =>
                /\ run[t].dummy
                /\ ret'[t] = [NoResponse EXCEPT !.error = OutOfRange(o, base_price)]
<1> DEFINE f == run[t]
<1>1. pc[t] = "add_run"
  BY DEF FinishAdd, Goto
<1>2. ret'[t] = [RunResponse(f, base_price) EXCEPT !.error = OutOfRange(o, base_price)]
  BY DEF FinishAdd, AccountInv, IInv, Typed
<1>3. /\ RunSound(f, mem_span, base_price, stats)
      /\ f.volume = UsedVolume(o, base_price)
      /\ f.dummy => f.order_revenue = 0
  BY <1>1 DEF AccountInv, IInv, ThreadSound, RunFits, Accounted, RunPaid, RunPoints
<1>4. f.volume = 0 => f.dummy
  BY <1>3 DEF RunSound
<1>5. f.dummy => RunResponse(f, base_price) = NoResponse
  BY <1>3 DEF RunResponse, NoResponse
<1> QED
  BY <1>2, <1>3, <1>4, <1>5

LEMMA FinishAddAccounts ==
    ASSUME AccountInv, NEW t \in Threads, FinishAdd(t)
    PROVE  \A u \in Threads : Accounted(u)'
<1> DEFINE o == OrderFor("add", order[t])
<1>1. pc[t] = "add_run" /\ pc' = [pc EXCEPT ![t] = "withdraw"]
  BY DEF FinishAdd, Goto
<1>2. /\ UNCHANGED <<order, shift>>
      /\ \A u \in Threads : u # t => ret'[u] = ret[u] /\ pc'[u] = pc[u]
      /\ pc'[t] = "withdraw"
  BY <1>1 DEF FinishAdd, AccountInv, IInv, Typed
<1>3. /\ ret'[t] = [RunResponse(run[t], base_price)
                      EXCEPT !.error = OutOfRange(o, base_price)]
      /\ run[t].volume = UsedVolume(o, base_price)
      /\ run[t].volume = 0 =>
           ret'[t] = [NoResponse EXCEPT !.error = OutOfRange(o, base_price)]
  BY AddAnswers
<1>4. ret'[t].error = OutOfRange(o, base_price)
  BY <1>3 DEF RunResponse
<1>5. OutOfRange(o, base_price) # 0 =>
        OutOfRange(o, base_price) = 1 /\ UsedVolume(o, base_price) = 0
  BY DEF OutOfRange, UsedVolume
<1>6. order[t].type # "add" =>
        OutOfRange(o, base_price) = 0 /\ UsedVolume(o, base_price) = 0
  BY BlankForOthers DEF AccountInv, IInv
<1> HIDE DEF o
<1>7. ret'[t].error # 0 => ret'[t] = [NoResponse EXCEPT !.error = 1]
  BY <1>3, <1>4, <1>5
<1>8. order[t].type # "add" => ret'[t] = NoResponse
  BY <1>3, <1>6 DEF NoResponse
<1>9. order[t].type = "add" =>
        ret'[t].error = Refusal(order[t], base_price) /\ base_price' = base_price
  BY <1>4 DEF o, OrderFor, Refusal, FinishAdd
<1>10. ResponseFits(t)'
  BY <1>2, <1>7, <1>8, <1>9 DEF ResponseFits, Answered
<1>11. RunPaid(t)' /\ ShiftRemembered(t)'
  BY <1>1, <1>2 DEF AccountInv, Accounted, RunPaid, RunPoints, ShiftRemembered,
     OrderPoints, FluxPoints, ShiftPoints
<1> QED
  BY <1>1, <1>2, <1>10, <1>11, HolderAccounts, PointClasses DEF Accounted

\* What WithdrawLimitOrder::handle_order adds to the response
LEMMA WithdrawAnswers ==
    ASSUME AccountInv, NEW t \in Threads, Withdraw(t),
           NEW o, o = OrderFor("withdraw", order[t]),
           NEW r, r = [price |-> 0, filled |-> Withdrawn(o, mem_span, base_price),
                       revenue |-> 0, error |-> OutOfRange(o, base_price)]
    PROVE  /\ r \in WideResponses /\ ret'[t] = AddResponse(ret[t], r)
           /\ order[t].type # "withdraw" => ret'[t] = ret[t]
           /\ order[t].type = "withdraw" => ret'[t] = r
           /\ ~InRange(o, base_price) => r = [NoResponse EXCEPT !.error = 1]
<1>1. pc[t] = "withdraw"
  BY DEF Withdraw, Goto
<1>2. ret'[t] = AddResponse(ret[t], r)
  BY DEF Withdraw, AccountInv, IInv, Typed
<1>3. o.volume \in Int /\ o.price \in UInts /\ (o.volume # 0 => o = order[t])
  BY OrderTypes DEF AccountInv, IInv
<1>4. o.volume # 0 => o.price # UInt32(base_price + BookLength)
  BY <1>1, <1>3 DEF AccountInv, IInv, ThreadSound, OrderInner
<1>5. BaseFits(base_price) /\ mem_span \in [Cells -> Int] /\ ret[t] \in WideResponses
  BY DEF AccountInv, IInv, Typed
<1>6. o.volume # 0 =>
        /\ UsedVolume(o, base_price) \in Int
        /\ mem_span[UsedPrice(o, base_price) - base_price] \in Int
  <2> HAVE o.volume # 0
  <2>1. /\ UsedVolume(o, base_price) \in Int
        /\ UsedPrice(o, base_price) \in PricesOf(base_price)
    BY <1>3, <1>4, <1>5, UsedInner
  <2>2. UsedPrice(o, base_price) - base_price \in Cells
    BY <1>5, <2>1, LengthAssumption DEF PricesOf, Cells, BaseFits
  <2> QED
    BY <1>5, <2>1, <2>2
<1>7. Withdrawn(o, mem_span, base_price) \in Int
  BY <1>6 DEF Withdrawn, Consumed
<1>8. ~InRange(o, base_price) =>
        Withdrawn(o, mem_span, base_price) = 0 /\ OutOfRange(o, base_price) = 1
  <2> HAVE ~InRange(o, base_price)
  <2>1. o.volume # 0 /\ UsedVolume(o, base_price) = 0
    BY DEF InRange, UsedVolume
  <2> QED
    BY <1>6, <2>1 DEF Withdrawn, Consumed, OutOfRange
<1>9. OutOfRange(o, base_price) \in Nat
  BY DEF OutOfRange
<1>10. r \in WideResponses
  BY <1>7, <1>9 DEF WideResponses
<1>11. order[t].type # "withdraw" => r = NoResponse
  <2> HAVE order[t].type # "withdraw"
  <2>1. o.volume = 0 /\ OutOfRange(o, base_price) = 0
    BY BlankForOthers DEF AccountInv, IInv
  <2> QED
    BY <2>1 DEF Withdrawn, NoResponse
<1>12. order[t].type = "withdraw" => ret[t] = NoResponse
  BY <1>1 DEF AccountInv, Accounted, ResponseFits, Answered
<1>13. ~InRange(o, base_price) => r = [NoResponse EXCEPT !.error = 1]
  BY <1>8 DEF NoResponse
<1>14. /\ order[t].type # "withdraw" => ret'[t] = ret[t]
       /\ order[t].type = "withdraw" => ret'[t] = r
  BY <1>2, <1>5, <1>10, <1>11, <1>12, AddNothing
<1> QED
  BY <1>2, <1>10, <1>13, <1>14

LEMMA WithdrawAccounts ==
    ASSUME AccountInv, NEW t \in Threads, Withdraw(t)
    PROVE  \A u \in Threads : Accounted(u)'
<1> DEFINE o == OrderFor("withdraw", order[t])
           r == [price |-> 0, filled |-> Withdrawn(o, mem_span, base_price),
                 revenue |-> 0, error |-> OutOfRange(o, base_price)]
<1>1. pc[t] = "withdraw" /\ pc' = [pc EXCEPT ![t] = "market"]
  BY DEF Withdraw, Goto
<1>2. /\ UNCHANGED <<order, shift>>
      /\ \A u \in Threads : u # t => ret'[u] = ret[u] /\ pc'[u] = pc[u]
      /\ pc'[t] = "market"
  BY <1>1 DEF Withdraw, AccountInv, IInv, Typed
<1>3. /\ order[t].type # "withdraw" => ret'[t] = ret[t]
      /\ order[t].type = "withdraw" => ret'[t] = r
      /\ ~InRange(o, base_price) => r = [NoResponse EXCEPT !.error = 1]
  BY WithdrawAnswers
<1>4. r.error # 0 => ~InRange(o, base_price)
  BY DEF OutOfRange
<1>5. order[t].type = "withdraw" => r.error = Refusal(order[t], base_price)
  BY DEF OrderFor, Refusal
<1> HIDE DEF o, r
<1>6. ResponseFits(t)
  BY DEF AccountInv, Accounted
<1>7. base_price' = base_price
  BY DEF Withdraw
<1>8. order[t].type \in {"add", "withdraw", "market"}
  BY DEF AccountInv, IInv, Typed, Orders, Blank
<1>9. ret'[t].error = Refusal(order[t], base_price)
  <2>1. CASE order[t].type = "add"
    BY <1>1, <1>3, <1>6, <2>1 DEF ResponseFits, Answered
  <2>2. CASE order[t].type = "withdraw"
    BY <1>3, <1>5, <2>2
  <2>3. CASE order[t].type = "market"
    BY <1>1, <1>3, <1>6, <2>3 DEF ResponseFits, Refusal, NoResponse
  <2> QED
    BY <1>8, <2>1, <2>2, <2>3
<1>10. ResponseFits(t)'
  BY <1>1, <1>2, <1>3, <1>4, <1>6, <1>7, <1>9 DEF ResponseFits, Answered
<1>11. RunPaid(t)' /\ ShiftRemembered(t)'
  BY <1>1, <1>2 DEF AccountInv, Accounted, RunPaid, RunPoints, ShiftRemembered,
     OrderPoints, FluxPoints, ShiftPoints
<1> QED
  BY <1>1, <1>2, <1>10, <1>11, HolderAccounts, PointClasses DEF Accounted

\* What MarketOrder::handle_order adds to the response
LEMMA MarketAnswers ==
    ASSUME AccountInv, NEW t \in Threads, FinishMarket(t)
    PROVE  /\ order[t].type # "market" => ret'[t] = ret[t]
           /\ order[t].type = "market" => ret'[t] = RunResponse(run[t], base_price)
           /\ RunResponse(run[t], base_price).error = 0
<1> DEFINE f == run[t]
<1>1. pc[t] = "market_run"
  BY DEF FinishMarket, Goto
<1>2. ret'[t] = AddResponse(ret[t], RunResponse(f, base_price))
  BY DEF FinishMarket, AccountInv, IInv, Typed
<1>3. /\ RunResponse(f, base_price) \in WideResponses /\ RunResponse(f, base_price).error = 0
      /\ ret[t] \in WideResponses
  BY ResponseTypes DEF AccountInv, IInv, Typed, BaseFits
<1>4. /\ RunSound(f, mem_span, base_price, stats)
      /\ f.volume = OrderFor("market", order[t]).volume
      /\ f.dummy => f.order_revenue = 0
  BY <1>1 DEF AccountInv, IInv, ThreadSound, RunFits, Accounted, RunPaid, RunPoints
<1>5. order[t].type # "market" => RunResponse(f, base_price) = NoResponse
  <2> HAVE order[t].type # "market"
  <2>1. f.volume = 0
    BY <1>4, BlankForOthers DEF AccountInv, IInv
  <2>2. f.dummy
    BY <1>4, <2>1 DEF RunSound
  <2> QED
    BY <1>4, <2>2 DEF RunResponse, NoResponse
<1>6. order[t].type = "market" => ret[t] = NoResponse
  BY <1>1 DEF AccountInv, Accounted, ResponseFits, Answered
<1> QED
  BY <1>2, <1>3, <1>5, <1>6, AddNothing

LEMMA FinishMarketAccounts ==
    ASSUME AccountInv, NEW t \in Threads, FinishMarket(t)
    PROVE  \A u \in Threads : Accounted(u)'
<1>1. pc[t] = "market_run" /\ pc' = [pc EXCEPT ![t] = "leave"]
  BY DEF FinishMarket, Goto
<1>2. /\ UNCHANGED <<order, shift>>
      /\ \A u \in Threads : u # t => ret'[u] = ret[u] /\ pc'[u] = pc[u]
      /\ pc'[t] = "leave"
  BY <1>1 DEF FinishMarket, AccountInv, IInv, Typed
<1>3. /\ order[t].type # "market" => ret'[t] = ret[t]
      /\ order[t].type = "market" => ret'[t].error = 0
  BY MarketAnswers
<1>4. ResponseFits(t)
  BY DEF AccountInv, Accounted
<1>5. ret'[t].error = Refusal(order[t], base_price)
  BY <1>1, <1>3, <1>4 DEF ResponseFits, Answered, Refusal
<1>6. base_price' = base_price
  BY DEF FinishMarket
<1>7. ResponseFits(t)'
  BY <1>2, <1>3, <1>4, <1>5, <1>6 DEF ResponseFits, Answered
<1>8. RunPaid(t)' /\ ShiftRemembered(t)'
  BY <1>1, <1>2 DEF AccountInv, Accounted, RunPaid, RunPoints, ShiftRemembered,
     OrderPoints, FluxPoints, ShiftPoints
<1> QED
  BY <1>1, <1>2, <1>7, <1>8, HolderAccounts, PointClasses DEF Accounted

\* The steps that only move on: into the handlers, out of them, out of the
\* lock.
LEMMA PassageAccounts ==
    ASSUME AccountInv, NEW t \in Threads,
           EnterOrder(t) \/ LeaveOrder(t) \/ LeaveShift(t) \/ Unlock(t)
    PROVE  \A u \in Threads : Accounted(u)'
<1>1. Accounted(t)
  BY DEF AccountInv
<1>2. CASE EnterOrder(t) \/ LeaveOrder(t) \/ LeaveShift(t)
  <2>1. /\ \/ pc[t] = "enter" /\ pc' = [pc EXCEPT ![t] = "add"]
           \/ /\ pc[t] \in {"leave", "shift_leave"}
              /\ pc' = [pc EXCEPT ![t] = "unlock"]
        /\ UNCHANGED <<base_price, locals>>
    BY <1>2 DEF EnterOrder, LeaveOrder, LeaveShift, Goto, book
  <2>2. /\ pc[t] = "enter" => pc'[t] = "add"
        /\ pc[t] \in {"leave", "shift_leave"} => pc'[t] = "unlock"
        /\ pc[t] \in {"enter", "leave", "shift_leave"}
        /\ order' = order /\ ret' = ret /\ shift' = shift /\ base_price' = base_price
        /\ \A u \in Threads : u # t => pc'[u] = pc[u]
    BY <2>1 DEF locals, AccountInv, IInv, Typed
  <2>3. pc[t] = "shift_leave" => ret[t].error = Refusal(order[t], base_price)
    BY <1>1 DEF Accounted, ResponseFits, NoResponse, Refusal, OutOfRange, InRange,
       AccountInv, IInv, ThreadSound, OrderInner, ShiftPoints
  <2>4. ResponseFits(t)' /\ RunPaid(t)' /\ ShiftRemembered(t)'
    BY <1>1, <2>2, <2>3 DEF Accounted, ResponseFits, Answered, RunPaid, RunPoints,
       ShiftRemembered, OrderPoints, FluxPoints, ShiftPoints
  <2> QED
    BY <2>2, <2>4, HolderAccounts, PointClasses DEF Accounted
<1>3. CASE Unlock(t)
  <2>1. pc[t] = "unlock" /\ pc' = [pc EXCEPT ![t] = "idle"]
    BY <1>3 DEF Unlock, Goto
  <2>2. /\ ret' = [ret EXCEPT ![t] = NoResponse]
        /\ shift' = [shift EXCEPT ![t] = NoShift]
    BY <1>3 DEF Unlock
  <2>3. /\ pc'[t] = "idle" /\ ret'[t] = NoResponse /\ shift'[t] = NoShift
        /\ \A u \in Threads : u # t =>
             pc'[u] = pc[u] /\ ret'[u] = ret[u] /\ shift'[u] = shift[u]
    BY <2>1, <2>2 DEF AccountInv, IInv, Typed
  <2>4. ResponseFits(t)' /\ RunPaid(t)' /\ ShiftRemembered(t)'
    BY <2>3 DEF ResponseFits, Answered, NoResponse, RunPaid, RunPoints, ShiftRemembered
  <2> QED
    BY <2>1, <2>3, <2>4, HolderAccounts, PointClasses DEF Accounted
<1> QED
  BY <1>2, <1>3
-----------------------------------------------------------------------------
(***************************************************************************)
(* A shift.                                                                *)
(***************************************************************************)
\* A shift by nothing is always possible.
LEMMA StayingPossible ==
    ASSUME NEW mem, NEW base, BaseFits(base), NEW s \in Statistics,
           Sound(mem, base, s)
    PROVE  ShiftPossible(0, base, base, s)
<1> USE LengthAssumption, WidthAssumption DEF None
<1>1. base \in Nat /\ Int32(base) = base /\ base + BookLength < HalfRange
  BY DEF BaseFits, Int32
<1>2. /\ s.lowest_bid \in PricesOf(base) \cup {None}
      /\ s.best_offer \in PricesOf(base) \cup {None}
  BY <1>1, SoundPrices DEF Sound
<1> DEFINE top == UInt32(base + BookLength)
           bottom == ValueOr(s.lowest_bid, ValueOr(s.best_offer, top))
<1>3. top = base + BookLength
  BY <1>1 DEF UInt32
<1>4. bottom \in Int /\ base <= bottom /\ bottom < HalfRange
  BY <1>1, <1>2, <1>3 DEF ValueOr, PricesOf
<1> HIDE DEF bottom
<1>5. UInt32(bottom - base) = bottom - base
  BY <1>1, <1>4 DEF UInt32
<1>6. Int32(UInt32(bottom - base)) >= 0
  BY <1>1, <1>4, <1>5 DEF Int32
<1>7. 0 >= 0 /\ Int32(base) + 0 >= 0
  BY <1>1
<1> QED
  BY Zenon, <1>6, <1>7 DEF ShiftPossible, bottom

\* A shift is remembered: the locals of a shift in progress are never the
\* blank ones.
LEMMA EnterShiftAccounts ==
    ASSUME AccountInv, NEW t \in Threads, EnterShift(t)
    PROVE  \A u \in Threads : Accounted(u)'
<1> DEFINE k == shift[t].shift_by
           possible == ShiftPossible(k, shift[t].seen_base, base_price, stats)
<1>1. pc[t] = "shift_enter" /\ pc' = [pc EXCEPT ![t] = "shift_move"]
  BY DEF EnterShift, Goto
<1>2. PICK m : shift' = [shift EXCEPT ![t] = [@ EXCEPT !.possible = possible,
                                                      !.mem_shift = m]]
  BY DEF EnterShift
<1>3. shift[t] \in ShiftFrames /\ shift[t].seen_base = base_price
  BY <1>1 DEF AccountInv, IInv, Typed, ThreadSound, ShiftFits
<1>4. Sound(mem_span, base_price, stats)
  BY <1>1, Alone, PointClasses DEF AccountInv, Settling, RunPoints
<1>5. base_price = 0 /\ k = 0 => possible
  <2> HAVE base_price = 0 /\ k = 0
  <2>1. ShiftPossible(0, base_price, base_price, stats)
    BY <1>4, StayingPossible DEF AccountInv, IInv, Typed
  <2> QED
    BY <1>3, <2>1
<1>6. shift'[t].seen_base = base_price /\ shift'[t].shift_by = k
      /\ shift'[t].possible = possible
  BY <1>2, <1>3 DEF ShiftFrames, AccountInv, IInv, Typed
<1>7. possible \in BOOLEAN
  BY Zenon DEF ShiftPossible
<1> HIDE DEF k, possible
<1>8. shift'[t] # NoShift
  BY <1>5, <1>6, <1>7 DEF NoShift
<1>9. /\ pc'[t] = "shift_move" /\ ret' = ret
      /\ \A u \in Threads : u # t => pc'[u] = pc[u] /\ shift'[u] = shift[u]
  BY <1>1, <1>2 DEF EnterShift, AccountInv, IInv, Typed
<1>10. ResponseFits(t)' /\ RunPaid(t)' /\ ShiftRemembered(t)'
  BY <1>1, <1>8, <1>9 DEF AccountInv, Accounted, ResponseFits, Answered, RunPaid, RunPoints,
     ShiftRemembered, OrderPoints, FluxPoints, ShiftPoints
<1> QED
  BY <1>1, <1>9, <1>10, HolderAccounts, PointClasses DEF Accounted

LEMMA MoveAccounts ==
    ASSUME AccountInv, NEW t \in Threads, MoveBuckets(t) \/ MoveBase(t)
    PROVE  \A u \in Threads : Accounted(u)'
<1>1. \/ pc[t] = "shift_move" /\ pc' = [pc EXCEPT ![t] = "shift_base"]
      \/ pc[t] = "shift_base" /\ pc' = [pc EXCEPT ![t] = "shift_leave"]
  BY DEF MoveBuckets, MoveBase, Goto
<1>2. UNCHANGED <<stats, locals>>
  BY DEF MoveBuckets, MoveBase
<1>3. /\ pc[t] = "shift_move" => pc'[t] = "shift_base"
      /\ pc[t] = "shift_base" => pc'[t] = "shift_leave"
      /\ ret' = ret /\ shift' = shift /\ stats' = stats
      /\ \A u \in Threads : u # t => pc'[u] = pc[u]
  BY <1>1, <1>2 DEF locals, AccountInv, IInv, Typed
<1>4. Accounted(t) /\ ShiftFits(t)
  BY DEF AccountInv, IInv, ThreadSound
<1>5. ResponseFits(t)' /\ RunPaid(t)'
  BY <1>1, <1>3, <1>4 DEF Accounted, ResponseFits, Answered, RunPaid, RunPoints
<1>6. ShiftRemembered(t)'
  BY <1>1, <1>3, <1>4 DEF Accounted, ShiftRemembered, ShiftFits, OrderPoints,
     FluxPoints, ShiftPoints
<1> QED
  BY <1>1, <1>3, <1>5, <1>6, HolderAccounts, PointClasses DEF Accounted
-----------------------------------------------------------------------------
(***************************************************************************)
(* The account is kept.                                                    *)
(***************************************************************************)
\* Every order is accounted for: its response is that of the one handler it
\* is meant for, and what a run has earned it has filled.
THEOREM OrdersAccounted ==
    ASSUME Discipline = Disciplines
    PROVE  Spec => []AccountInv
<1>1. Init => AccountInv
  <2> SUFFICES ASSUME Init PROVE AccountInv
    OBVIOUS
  <2>1. /\ pc = [t \in Threads |-> "idle"]
        /\ ret = [t \in Threads |-> NoResponse]
        /\ shift = [t \in Threads |-> NoShift]
    BY DEF Init
  <2>2. ASSUME NEW t \in Threads
        PROVE  Accounted(t)
    <3>1. pc[t] = "idle" /\ ret[t] = NoResponse /\ shift[t] = NoShift
      BY <2>1
    <3> QED
      BY <3>1 DEF Accounted, ResponseFits, Answered, NoResponse, RunPaid, RunPoints,
         ShiftRemembered
  <2> QED
    BY <2>2, InvInit DEF AccountInv
<1>2. AccountInv /\ [Next]_vars => AccountInv'
  <2> SUFFICES ASSUME AccountInv, [Next]_vars PROVE AccountInv'
    OBVIOUS
  <2>1. IInv'
    BY InvStep DEF AccountInv
  <2>2. CASE UNCHANGED vars
    BY <2>1, <2>2 DEF vars, AccountInv, Accounted, ResponseFits, Answered, RunPaid,
       ShiftRemembered
  <2>3. ASSUME NEW t \in Threads, CallerStep(t) \/ HolderStep(t)
        PROVE  \A u \in Threads : Accounted(u)'
    BY <2>3, CallerAccounts, StartAccounts, RunStepAccounts, FinishAddAccounts,
       WithdrawAccounts, FinishMarketAccounts, PassageAccounts,
       EnterShiftAccounts, MoveAccounts DEF HolderStep, OrderStep, ShiftStep
  <2> QED
    BY <2>1, <2>2, <2>3 DEF Next, AccountInv
<1> QED
  BY <1>1, <1>2, PTL DEF Spec

\* The error of an order is 1 exactly when its price is outside the array: the
\* one price more that the range test lets through does not occur.
LEMMA RefusalOutside ==
    ASSUME IInv, NEW t \in Threads
    PROVE  Refusal(order[t], base_price) = IF Outside(order[t]) THEN 1 ELSE 0
<1> DEFINE o == order[t]
<1>1. /\ o.volume = 0 \/ o.price # UInt32(base_price + BookLength)
      /\ BaseFits(base_price)
  BY DEF IInv, ThreadSound, OrderInner
<1>2. UInt32(base_price + BookLength) = base_price + BookLength
  BY <1>1, LengthAssumption, WidthAssumption DEF BaseFits, UInt32
<1>3. o \in Orders \cup {Blank("add")}
  BY DEF IInv, Typed
<1> HIDE DEF o
<1>4. o.type # "market" => o.price \in Int
  <2>1. CASE o \in [type : {"add", "withdraw"}, volume : Volumes, price : Prices]
    <3>1. o.price \in Prices
      BY <2>1
    <3>2. \A p \in Prices : p \in Int
      BY InputAssumption, WidthAssumption
    <3> QED
      BY <3>1, <3>2
  <2>2. CASE o \in [type : {"market"}, volume : Volumes, price : {0}]
    BY <2>2
  <2>3. CASE o = Blank("add")
    BY <2>3 DEF Blank
  <2> QED
    BY <1>3, <2>1, <2>2, <2>3 DEF Orders
<1>5. o.type # "market" /\ o.volume # 0 =>
        (PriceInRange(o.price, base_price)
           <=> o.price \in base_price..(base_price + BookLength - 1))
  BY <1>1, <1>2, <1>4, LengthAssumption DEF PriceInRange, BaseFits
<1>6. o.type # "market" =>
        (InRange(o, base_price) <=> ~Outside(o))
  BY <1>5 DEF InRange, Outside
<1>7. o.type = "market" => ~Outside(o)
  BY DEF Outside
<1>8. Refusal(o, base_price) = IF Outside(o) THEN 1 ELSE 0
  BY <1>6, <1>7 DEF Refusal, OutOfRange
<1> QED
  BY <1>8 DEF o

\* An order is answered by the error 1 and three zeros when its price is
\* outside the array, and by the error 0 when it is not: each of the three
\* handlers answers, and only that of the order's type counts
\* (FIXMsgClasses.hpp:141-147, 168, 230-240, OrderBook.hpp:157-168).
THEOREM RefusalsAnswered ==
    ASSUME Discipline = Disciplines
    PROVE  Spec => []RefusedResponse
<1>1. AccountInv => RefusedResponse
  <2> SUFFICES ASSUME AccountInv, NEW t \in Threads, pc[t] = "unlock"
               PROVE  IF Outside(order[t])
                      THEN ret[t] = [NoResponse EXCEPT !.error = 1]
                      ELSE ret[t].error = 0
    BY DEF RefusedResponse
  <2>1. ret[t].error = IF Outside(order[t]) THEN 1 ELSE 0
    BY RefusalOutside DEF AccountInv, Accounted, ResponseFits, Answered
  <2> QED
    BY <2>1 DEF AccountInv, Accounted, ResponseFits, Answered
<1> QED
  BY <1>1, OrdersAccounted, PTL

\* Every variable holds a value of the type it has in the code.  That the
\* error of a response is no more than 1 rests on the account of the response:
\* it is the sum of what three handlers answer.
THEOREM BookTypes ==
    ASSUME Discipline = Disciplines
    PROVE  Spec => []TypeOK
<1>1. AccountInv => TypeOK
  <2> SUFFICES ASSUME AccountInv PROVE TypeOK
    OBVIOUS
  <2>1. Typed
    BY DEF AccountInv, IInv
  <2>2. ASSUME NEW t \in Threads PROVE ret[t] \in Responses
    <3>1. ret[t] \in WideResponses
      BY <2>1 DEF Typed
    <3>2. ret[t].error # 0 => ret[t] = [NoResponse EXCEPT !.error = 1]
      BY DEF AccountInv, Accounted, ResponseFits, Answered
    <3>3. ret[t].error \in {0, 1}
      BY <3>2 DEF NoResponse
    <3> QED
      BY <3>1, <3>3 DEF WideResponses, Responses
  <2>3. ret \in [Threads -> Responses]
    BY <2>1, <2>2 DEF Typed
  <2> QED
    BY <2>1, <2>3 DEF Typed, TypeOK
<1> QED
  BY <1>1, OrdersAccounted, PTL
-----------------------------------------------------------------------------
(***************************************************************************)
(* What MatchingBook sees of the book.                                     *)
(***************************************************************************)
\* The taker of an order in the loop of run_through_book, and of one whose
\* handler has returned
MatchingTaker(o, f) ==
    [order |-> o, open |-> f.open_vol, revenue |-> f.order_revenue,
     price |-> IF f.open_vol = f.volume THEN 0 ELSE base_price + f.transaction_index,
     error |-> 0, done |-> FALSE]
HandledTaker(o, r) ==
    [order |-> o, open |-> o.volume - r.filled, revenue |-> r.revenue,
     price |-> r.price, error |-> r.error, done |-> TRUE]

\* What the refinement mapping comes to: the one thread that processes an
\* order is the taker, and the window is that of the base price, or of the
\* one to come between the two moves of a shift.
View ==
    /\ \A t \in Threads : t \in Processing =>
         /\ Handled(t) => Taker = HandledTaker(order[t], ret[t])
         /\ ~Handled(t) /\ Matching(t) => Taker = MatchingTaker(order[t], run[t])
         /\ ~Handled(t) /\ ~Matching(t) => Taker = Abstract!Fresh(order[t])
    /\ Processing = {} => Taker = NoTaker
    /\ \A t \in Threads : pc[t] = "shift_base" =>
         LowPrice = base_price + shift[t].mem_shift
    /\ (\A t \in Threads : pc[t] # "shift_base") => LowPrice = base_price
    /\ \A t \in Threads : pc[t] \in HeldPoints =>
         /\ Processing \subseteq {t}
         /\ pc[t] # "shift_base" => LowPrice = base_price

LEMMA Views == IInv => View
<1> SUFFICES ASSUME IInv PROVE View
  OBVIOUS
<1>1. ASSUME NEW t \in Threads, t \in Processing
      PROVE  /\ Handled(t) => Taker = HandledTaker(order[t], ret[t])
             /\ ~Handled(t) /\ Matching(t) => Taker = MatchingTaker(order[t], run[t])
             /\ ~Handled(t) /\ ~Matching(t) => Taker = Abstract!Fresh(order[t])
  <2>1. \A u \in Processing : u \in Threads /\ pc[u] \in HeldPoints
    BY PointClasses DEF Processing
  <2>2. \A u \in Processing : u = t
    BY <1>1, <2>1 DEF IInv, WriterExclusion
  <2>3. (CHOOSE u \in Processing : TRUE) = t /\ Processing # {}
    BY <1>1, <2>2
  <2> DEFINE r == Progress(t)
  <2>4. Taker = [order |-> order[t], open |-> r.open, revenue |-> r.revenue,
                 price |-> r.price, error |-> r.error, done |-> r.done]
    BY <2>3 DEF Taker
  <2>5. Handled(t) => Taker = HandledTaker(order[t], ret[t])
    BY <2>4 DEF Progress, HandledTaker
  <2>6. ~Handled(t) /\ Matching(t) => Taker = MatchingTaker(order[t], run[t])
    BY <2>4 DEF Progress, MatchingTaker
  <2>7. ~Handled(t) /\ ~Matching(t) => Taker = Abstract!Fresh(order[t])
    BY <2>4 DEF Progress, Abstract!Fresh
  <2> QED
    BY <2>5, <2>6, <2>7
<1>2. Processing = {} => Taker = NoTaker
  BY DEF Taker
<1>3. base_price \in Int
  BY DEF IInv, BaseFits
<1>4. ASSUME NEW t \in Threads, pc[t] = "shift_base"
      PROVE  LowPrice = base_price + shift[t].mem_shift
  <2>1. \A u \in Threads : pc[u] = "shift_base" => u = t
    BY <1>4, PointClasses DEF IInv, WriterExclusion
  <2> DEFINE movers == {u \in Threads : pc[u] = "shift_base"}
  <2>2. (CHOOSE u \in movers : TRUE) = t /\ movers # {}
    BY <1>4, <2>1
  <2> QED
    BY <2>2 DEF LowPrice, PendingShift
<1>5. ASSUME \A t \in Threads : pc[t] # "shift_base"
      PROVE  LowPrice = base_price
  <2>1. {t \in Threads : pc[t] = "shift_base"} = {}
    BY <1>5
  <2>2. PendingShift = 0
    BY <2>1 DEF PendingShift
  <2> QED
    BY <1>3, <2>2 DEF LowPrice
<1>6. ASSUME NEW t \in Threads, pc[t] \in HeldPoints
      PROVE  /\ Processing \subseteq {t}
             /\ pc[t] # "shift_base" => LowPrice = base_price
  <2>1. \A u \in Threads : pc[u] \in HeldPoints => u = t
    BY <1>6 DEF IInv, WriterExclusion
  <2>2. Processing \subseteq {t}
    BY <2>1, PointClasses DEF Processing
  <2>3. pc[t] # "shift_base" => LowPrice = base_price
    BY <1>5, <2>1, PointClasses
  <2> QED
    BY <2>2, <2>3
<1> QED
  BY <1>1, <1>2, <1>4, <1>5, <1>6 DEF View

-----------------------------------------------------------------------------
(***************************************************************************)
(* Takers field by field.                                                  *)
(***************************************************************************)
IsTaker(r) ==
    r = [i \in {"order", "open", "revenue", "price", "error", "done"} |-> r[i]]

LEMMA SameTaker ==
    ASSUME NEW r, NEW s, IsTaker(r), IsTaker(s),
           r.order = s.order, r.open = s.open, r.revenue = s.revenue,
           r.price = s.price, r.error = s.error, r.done = s.done
    PROVE  r = s
BY DEF IsTaker

LEMMA LiteralTaker ==
    ASSUME NEW o, NEW open, NEW revenue, NEW price, NEW error, NEW done
    PROVE  IsTaker([order |-> o, open |-> open, revenue |-> revenue,
                    price |-> price, error |-> error, done |-> done])
BY DEF IsTaker

\* The ways in which the actions of MatchingBook change the taker
Traded(r, open, revenue, price) ==
    [r EXCEPT !.open = open, !.revenue = revenue, !.price = price]

LEMMA TradedTaker ==
    ASSUME NEW r, NEW s, IsTaker(r), IsTaker(s), NEW open, NEW revenue, NEW price,
           s.order = r.order, s.open = open, s.revenue = revenue,
           s.price = price, s.error = r.error, s.done = r.done
    PROVE  s = Traded(r, open, revenue, price)
<1> DEFINE c == [r EXCEPT !.open = open, !.revenue = revenue, !.price = price]
<1>1. IsTaker(c)
  BY DEF IsTaker
<1>2. /\ c.order = r.order /\ c.open = open /\ c.revenue = revenue
      /\ c.price = price /\ c.error = r.error /\ c.done = r.done
  BY DEF IsTaker
<1> HIDE DEF c
<1>3. s = c
  BY <1>1, <1>2, SameTaker
<1> QED
  BY <1>3 DEF c, Traded

LEMMA WithdrawnTaker ==
    ASSUME NEW r, NEW s, IsTaker(r), IsTaker(s), NEW open, NEW done,
           s.order = r.order, s.open = open, s.revenue = r.revenue,
           s.price = r.price, s.error = r.error, s.done = done
    PROVE  s = [r EXCEPT !.open = open, !.done = done]
<1> DEFINE c == [r EXCEPT !.open = open, !.done = done]
<1>1. IsTaker(c)
  BY DEF IsTaker
<1>2. /\ c.order = r.order /\ c.open = open /\ c.revenue = r.revenue
      /\ c.price = r.price /\ c.error = r.error /\ c.done = done
  BY DEF IsTaker
<1> HIDE DEF c
<1>3. s = c
  BY <1>1, <1>2, SameTaker
<1> QED
  BY <1>3 DEF c

LEMMA DoneTaker ==
    ASSUME NEW r, NEW s, IsTaker(r), IsTaker(s), NEW done,
           s.order = r.order, s.open = r.open, s.revenue = r.revenue,
           s.price = r.price, s.error = r.error, s.done = done
    PROVE  s = [r EXCEPT !.done = done]
<1> DEFINE c == [r EXCEPT !.done = done]
<1>1. IsTaker(c)
  BY DEF IsTaker
<1>2. /\ c.order = r.order /\ c.open = r.open /\ c.revenue = r.revenue
      /\ c.price = r.price /\ c.error = r.error /\ c.done = done
  BY DEF IsTaker
<1> HIDE DEF c
<1>3. s = c
  BY <1>1, <1>2, SameTaker
<1> QED
  BY <1>3 DEF c

LEMMA RefusedTaker ==
    ASSUME NEW r, NEW s, IsTaker(r), IsTaker(s), NEW error, NEW done,
           s.order = r.order, s.open = r.open, s.revenue = r.revenue,
           s.price = r.price, s.error = error, s.done = done
    PROVE  s = [r EXCEPT !.error = error, !.done = done]
<1> DEFINE c == [r EXCEPT !.error = error, !.done = done]
<1>1. IsTaker(c)
  BY DEF IsTaker
<1>2. /\ c.order = r.order /\ c.open = r.open /\ c.revenue = r.revenue
      /\ c.price = r.price /\ c.error = error /\ c.done = done
  BY DEF IsTaker
<1> HIDE DEF c
<1>3. s = c
  BY <1>1, <1>2, SameTaker
<1> QED
  BY <1>3 DEF c

\* A book of which nothing is seen to change takes no step.
NothingSeen == UNCHANGED <<PriceVolume, LowPrice, Taker>>

\* What moves in a bucket moves at its price.
LEMMA VolumeMoved ==
    ASSUME BaseFits(base_price), mem_span \in [Cells -> Int],
           LowPrice = base_price, LowPrice' = base_price,
           NEW i \in Buckets, NEW v \in Int,
           mem_span' = [mem_span EXCEPT ![i] = @ + v]
    PROVE  /\ base_price + i \in UInts /\ PriceVolume[base_price + i] = mem_span[i]
           /\ PriceVolume' = [PriceVolume EXCEPT ![base_price + i] = @ + v]
<1> USE LengthAssumption, WidthAssumption
<1> DEFINE p == base_price + i
<1>1. base_price \in Int /\ i \in Int /\ i \in Cells /\ p \in UInts /\ p - base_price = i
  BY DEF BaseFits, Buckets, Cells, UInts
<1>2. \A q \in UInts : q # p => q - base_price # i
  BY <1>1 DEF UInts
<1> HIDE DEF p
<1>3. /\ PriceVolume = [q \in UInts |-> VolumeAt(q, mem_span, base_price)]
      /\ PriceVolume' = [q \in UInts |-> VolumeAt(q, mem_span', base_price)]
  BY DEF PriceVolume
<1>4. mem_span'[i] = mem_span[i] + v /\ \A j \in Buckets : j # i => mem_span'[j] = mem_span[j]
  BY <1>1 DEF Buckets, Cells
<1>5. PriceVolume[p] = mem_span[i] /\ PriceVolume'[p] = mem_span[i] + v
  BY <1>1, <1>3, <1>4 DEF VolumeAt
<1>6. \A q \in UInts : q # p => PriceVolume'[q] = PriceVolume[q]
  BY <1>2, <1>3, <1>4 DEF VolumeAt
<1>7. PriceVolume' = [PriceVolume EXCEPT ![p] = @ + v]
  BY <1>1, <1>3, <1>5, <1>6
<1> QED
  BY <1>1, <1>5, <1>7 DEF p

\* What a price gives, in MatchingBook and in consume_liquidity
LEMMA GivenConsumed ==
    ASSUME NEW held \in Int, NEW fill \in Int
    PROVE  /\ fill # 0 => Abstract!Given(held, fill) = Consumed(held, fill)
           /\ (Abstract!Given(held, fill) # 0) <=>
                (held > 0 /\ fill > 0) \/ (held < 0 /\ fill < 0)
<1>1. /\ held <= fill => Abstract!Min({held, fill}) = held
      /\ fill <= held => Abstract!Min({held, fill}) = fill
  BY DEF Abstract!Min
<1>2. /\ held >= fill => Abstract!Max({held, fill}) = held
      /\ fill >= held => Abstract!Max({held, fill}) = fill
  BY DEF Abstract!Max
<1> QED
  BY <1>1, <1>2 DEF Abstract!Given, Consumed

\* The prices a taker can trade at are those of the buckets of the other side.
LEMMA SideSeen ==
    ASSUME IInv, LowPrice = base_price, Taker.open \in Int
    PROVE  Abstract!OtherSide =
             {p \in PricesOf(base_price) :
                \/ Taker.open < 0 /\ mem_span[p - base_price] > 0
                \/ Taker.open > 0 /\ mem_span[p - base_price] < 0}
<1> USE LengthAssumption, WidthAssumption
<1>1. /\ base_price \in Nat /\ base_price + BookLength < HalfRange
      /\ mem_span \in [Cells -> Int]
  BY DEF IInv, Typed, BaseFits
<1>2. PricesOf(base_price) \subseteq UInts
  BY <1>1 DEF PricesOf, UInts
<1>3. ASSUME NEW p \in UInts
      PROVE  /\ PriceVolume[p] \in Int
             /\ p \in PricesOf(base_price) => PriceVolume[p] = mem_span[p - base_price]
             /\ p \notin PricesOf(base_price) => PriceVolume[p] = 0
  <2>1. PriceVolume[p] = VolumeAt(p, mem_span, base_price)
    BY DEF PriceVolume
  <2>2. p - base_price \in Buckets <=> p \in PricesOf(base_price)
    BY <1>1 DEF Buckets, PricesOf, UInts
  <2>3. p - base_price \in Buckets => mem_span[p - base_price] \in Int
    BY <1>1 DEF Buckets, Cells
  <2> QED
    BY <2>1, <2>2, <2>3 DEF VolumeAt
<1> DEFINE asked == -Taker.open
<1>4. asked \in Int /\ (asked > 0 <=> Taker.open < 0) /\ (asked < 0 <=> Taker.open > 0)
  OBVIOUS
<1>5. Abstract!OtherSide = {p \in UInts : Abstract!Given(PriceVolume[p], asked) # 0}
  BY DEF Abstract!OtherSide
<1> HIDE DEF asked
<1>6. ASSUME NEW p \in UInts
      PROVE  Abstract!Given(PriceVolume[p], asked) # 0 <=>
               /\ p \in PricesOf(base_price)
               /\ \/ Taker.open < 0 /\ mem_span[p - base_price] > 0
                  \/ Taker.open > 0 /\ mem_span[p - base_price] < 0
  <2>1. Abstract!Given(PriceVolume[p], asked) # 0 <=>
          (PriceVolume[p] > 0 /\ asked > 0) \/ (PriceVolume[p] < 0 /\ asked < 0)
    BY <1>3, <1>4, GivenConsumed
  <2> QED
    BY <1>3, <1>4, <2>1
<1> QED
  BY <1>2, <1>5, <1>6
-----------------------------------------------------------------------------
(***************************************************************************)
(* The steps of which MatchingBook sees the beginning or the end of an     *)
(* order, or nothing.                                                      *)
(***************************************************************************)
\* A step that leaves the array and the window alone leaves all volumes.
LEMMA VolumesStay ==
    ASSUME mem_span' = mem_span, LowPrice' = LowPrice
    PROVE  PriceVolume' = PriceVolume
BY DEF PriceVolume

\* An order that gets the lock begins.
LEMMA LockOrderBegins ==
    ASSUME IInv, View, View', NEW t \in Threads, NEW o \in Orders, LockOrder(t, o)
    PROVE  Abstract!Begin(o)
<1>1. /\ pc[t] = "idle" /\ pc' = [pc EXCEPT ![t] = "enter"]
      /\ order' = [order EXCEPT ![t] = o]
      /\ ~modify_lock /\ UNCHANGED book
  BY DEF LockOrder, Goto
<1>2. \A u \in Threads : pc[u] \notin HeldPoints
  BY <1>1 DEF IInv, WriterExclusion
<1>3. Processing = {} /\ \A u \in Threads : pc[u] # "shift_base"
  BY <1>2, PointClasses DEF Processing
<1>4. /\ pc'[t] = "enter" /\ order'[t] = o
      /\ \A u \in Threads : u # t => pc'[u] = pc[u]
      /\ base_price' = base_price /\ mem_span' = mem_span
  BY <1>1 DEF IInv, Typed, book
<1>5. LowPrice = base_price /\ LowPrice' = base_price
  BY <1>3, <1>4 DEF View
<1>6. PriceVolume' = PriceVolume
  BY <1>4, <1>5, VolumesStay
<1>7. Taker = NoTaker
  BY <1>3 DEF View
<1>8. (t \in Processing)' /\ ~Handled(t)' /\ ~Matching(t)'
  BY <1>4 DEF Processing, Handled, Matching
<1>9. Taker' = Abstract!Fresh(o)
  BY <1>4, <1>8 DEF View
<1> QED
  BY <1>5, <1>6, <1>7, <1>9 DEF Abstract!Begin

\* A call of shift_book that waits, or gets the lock, is not seen.
LEMMA CallShiftUnseen ==
    ASSUME IInv, View, View', NEW t \in Threads,
           CallShift(t) \/ \E k \in Shifts : LockShift(t, k)
    PROVE  NothingSeen
<1>1. /\ pc[t] \in {"idle", "shift_lock"}
      /\ \/ pc' = [pc EXCEPT ![t] = "shift_lock"]
         \/ pc' = [pc EXCEPT ![t] = "shift_enter"]
      /\ \A u \in Threads : u # t => shift'[u] = shift[u]
      /\ UNCHANGED <<book, order, run, ret>>
  BY DEF CallShift, LockShift, Goto, IInv, Typed
<1>2. /\ pc'[t] \in {"shift_lock", "shift_enter"}
      /\ \A u \in Threads : u # t => pc'[u] = pc[u]
      /\ order' = order /\ run' = run /\ ret' = ret
      /\ base_price' = base_price /\ mem_span' = mem_span
  BY <1>1 DEF IInv, Typed, book
<1>3. ~ (t \in Processing) /\ ~ (t \in Processing)'
  BY <1>1, <1>2 DEF Processing, FluxPoints, ShiftPoints
<1>4. \A u \in Threads : u # t => ((u \in Processing)' <=> u \in Processing)
  BY <1>1, <1>2 DEF Processing
<1>5. LowPrice' = LowPrice
  <2>1. CASE \E u \in Threads : pc[u] = "shift_base"
    <3>1. PICK u \in Threads : pc[u] = "shift_base"
      BY <2>1
    <3>2. u # t /\ pc'[u] = "shift_base" /\ shift'[u] = shift[u]
      BY <1>1, <1>2, <3>1
    <3> QED
      BY <1>2, <3>1, <3>2 DEF View
  <2>2. CASE \A u \in Threads : pc[u] # "shift_base"
    <3>1. \A u \in Threads : pc'[u] # "shift_base"
      BY <1>2, <2>2
    <3> QED
      BY <1>2, <2>2, <3>1 DEF View
  <2> QED
    BY <2>1, <2>2
<1>6. Taker' = Taker
  <2>1. CASE Processing = {}
    <3>1. Processing' = {}
      BY <1>3, <1>4, <2>1 DEF Processing
    <3> QED
      BY <2>1, <3>1 DEF View, NoTaker
  <2>2. CASE Processing # {}
    <3>1. PICK u \in Threads : u \in Processing
      BY <2>2 DEF Processing
    <3>2. u # t /\ (u \in Processing)' /\ pc'[u] = pc[u]
      BY <1>2, <1>3, <1>4, <3>1
    <3>3. (Handled(u)' <=> Handled(u)) /\ (Matching(u)' <=> Matching(u))
      BY <1>2, <3>2 DEF Handled, Matching
    <3>4. /\ HandledTaker(order[u], ret[u])' = HandledTaker(order[u], ret[u])
          /\ MatchingTaker(order[u], run[u])' = MatchingTaker(order[u], run[u])
          /\ Abstract!Fresh(order[u])' = Abstract!Fresh(order[u])
      BY <1>2 DEF HandledTaker, MatchingTaker, Abstract!Fresh
    <3> QED
      BY <3>1, <3>2, <3>3, <3>4 DEF View
  <2> QED
    BY <2>1, <2>2
<1> QED
  BY <1>2, <1>5, <1>6, VolumesStay DEF NothingSeen

\* A thread that processes an order leaves the window alone.
LEMMA WindowStays ==
    ASSUME View, View', NEW t \in Threads,
           pc[t] \in HeldPoints, pc'[t] \in HeldPoints,
           pc[t] # "shift_base", pc'[t] # "shift_base", base_price' = base_price
    PROVE  LowPrice = base_price /\ LowPrice' = base_price
BY DEF View

\* The way into the handlers and out of them is not seen, nor is what a run
\* prepares.
LEMMA StartAddUnseen ==
    ASSUME IInv, IInv', View, View', NEW t \in Threads, StartAdd(t)
    PROVE  NothingSeen
<1> DEFINE o == OrderFor("add", order[t])
           f == run'[t]
<1>1. /\ pc[t] = "add" /\ pc'[t] = "add_run"
      /\ UNCHANGED <<book, order, ret>>
      /\ f.open_vol = (IF f.dummy THEN 0 ELSE f.volume) /\ f.order_revenue = 0
  BY DEF StartAdd, Goto, RunFrame, IInv, Typed
<1>2. /\ base_price' = base_price /\ mem_span' = mem_span /\ order' = order
      /\ stats' = stats
  BY <1>1 DEF book
<1>3. PriceVolume' = PriceVolume /\ LowPrice' = LowPrice
  BY <1>1, <1>2, WindowStays, VolumesStay, PointClasses
<1>4. /\ t \in Processing /\ ~Handled(t) /\ ~Matching(t)
      /\ (t \in Processing)' /\ ~Handled(t)'
  BY <1>1 DEF Processing, FluxPoints, ShiftPoints, Handled, Matching
<1>5. Taker = Abstract!Fresh(order[t])
  BY <1>4 DEF View
<1>6. ~f.dummy /\ order[t].type = "add" => f.volume = order[t].volume
  <2> HAVE ~f.dummy /\ order[t].type = "add"
  <2>1. o = order[t]
    BY DEF OrderFor
  <2>2. f.volume = UsedVolume(o, base_price) /\ Crossed(o, stats, base_price)
    BY <1>1, <1>2 DEF IInv, ThreadSound, RunFits
  <2>3. UsedVolume(o, base_price) # 0
    BY <2>2 DEF Crossed
  <2> QED
    BY <2>1, <2>2, <2>3 DEF UsedVolume
<1>7. Matching(t)' => MatchingTaker(order[t], run[t])' = Abstract!Fresh(order[t])
  <2> HAVE Matching(t)'
  <2>1. ~f.dummy /\ order[t].type = "add"
    BY <1>1, <1>2 DEF Matching
  <2>2. f.open_vol = order[t].volume /\ f.open_vol = f.volume
    BY <1>1, <1>6, <2>1
  <2> QED
    BY <1>1, <1>2, <2>2 DEF MatchingTaker, Abstract!Fresh
<1>8. Abstract!Fresh(order[t])' = Abstract!Fresh(order[t])
  BY <1>2 DEF Abstract!Fresh
<1>9. Taker' = Taker
  BY <1>4, <1>5, <1>7, <1>8 DEF View
<1> QED
  BY <1>3, <1>9 DEF NothingSeen

LEMMA StartMarketUnseen ==
    ASSUME IInv, View, View', NEW t \in Threads, StartMarket(t)
    PROVE  NothingSeen
<1> DEFINE f == run'[t]
<1>1. /\ pc[t] = "market" /\ pc'[t] = "market_run"
      /\ UNCHANGED <<book, order, ret>>
      /\ f.open_vol = (IF f.dummy THEN 0 ELSE f.volume) /\ f.order_revenue = 0
      /\ f.volume = OrderFor("market", order[t]).volume
  BY DEF StartMarket, Goto, RunFrame, IInv, Typed
<1>2. base_price' = base_price /\ mem_span' = mem_span /\ order' = order /\ ret' = ret
  BY <1>1 DEF book
<1>3. PriceVolume' = PriceVolume /\ LowPrice' = LowPrice
  BY <1>1, <1>2, WindowStays, VolumesStay, PointClasses
<1>4. /\ t \in Processing /\ ~Matching(t) /\ (t \in Processing)'
      /\ Handled(t)' <=> Handled(t)
  BY <1>1, <1>2 DEF Processing, FluxPoints, ShiftPoints, Handled, Matching
<1>5. Matching(t)' => MatchingTaker(order[t], run[t])' = Abstract!Fresh(order[t])
  <2> HAVE Matching(t)'
  <2>1. ~f.dummy /\ order[t].type = "market"
    BY <1>1, <1>2 DEF Matching
  <2>2. f.open_vol = order[t].volume /\ f.open_vol = f.volume
    BY <1>1, <2>1 DEF OrderFor
  <2> QED
    BY <1>1, <1>2, <2>2 DEF MatchingTaker, Abstract!Fresh
<1>6. /\ Abstract!Fresh(order[t])' = Abstract!Fresh(order[t])
      /\ HandledTaker(order[t], ret[t])' = HandledTaker(order[t], ret[t])
  BY <1>2 DEF Abstract!Fresh, HandledTaker
<1>7. Taker' = Taker
  BY <1>4, <1>5, <1>6 DEF View
<1> QED
  BY <1>3, <1>7 DEF NothingSeen

LEMMA PassageUnseen ==
    ASSUME AccountInv, View, View', NEW t \in Threads, EnterOrder(t) \/ LeaveOrder(t)
    PROVE  NothingSeen
<1>1. /\ \/ pc[t] = "enter" /\ pc'[t] = "add"
         \/ pc[t] = "leave" /\ pc'[t] = "unlock"
      /\ UNCHANGED <<book, locals>>
  BY DEF EnterOrder, LeaveOrder, Goto, AccountInv, IInv, Typed
<1>2. /\ base_price' = base_price /\ mem_span' = mem_span /\ order' = order
      /\ ret' = ret /\ shift' = shift
  BY <1>1 DEF book, locals
<1>3. PriceVolume' = PriceVolume /\ LowPrice' = LowPrice
  BY <1>1, <1>2, WindowStays, VolumesStay, PointClasses
<1>4. pc[t] = "leave" => shift[t] = NoShift
  BY DEF AccountInv, Accounted, ShiftRemembered, OrderPoints, FluxPoints, ShiftPoints
<1>5. /\ t \in Processing /\ ~Matching(t) /\ (t \in Processing)' /\ ~Matching(t)'
      /\ Handled(t)' <=> Handled(t)
  BY <1>1, <1>2, <1>4 DEF Processing, FluxPoints, ShiftPoints, Handled, Matching
<1>6. /\ Abstract!Fresh(order[t])' = Abstract!Fresh(order[t])
      /\ HandledTaker(order[t], ret[t])' = HandledTaker(order[t], ret[t])
  BY <1>2 DEF Abstract!Fresh, HandledTaker
<1>7. Taker' = Taker
  BY <1>5, <1>6 DEF View
<1> QED
  BY <1>3, <1>7 DEF NothingSeen

\* A thread that unlocks ends its order, if it has one.
LEMMA UnlockEnds ==
    ASSUME AccountInv, View, View', NEW t \in Threads, Unlock(t)
    PROVE  Abstract!End \/ NothingSeen
<1>1. /\ pc[t] = "unlock" /\ pc'[t] = "idle" /\ UNCHANGED book
      /\ \A u \in Threads : u # t => pc'[u] = pc[u]
  BY DEF Unlock, Goto, AccountInv, IInv, Typed
<1>2. base_price' = base_price /\ mem_span' = mem_span
  BY <1>1 DEF book
<1>3. \A u \in Threads : u # t => pc[u] \in {"idle", "shift_lock"}
  BY <1>1, Alone, PointClasses DEF AccountInv
<1>4. (\A u \in Threads : ~ (u \in Processing)') /\ Processing' = {}
  BY <1>1, <1>3 DEF Processing, FluxPoints
<1>5. \A u \in Threads : pc'[u] # "shift_base"
  BY <1>1, <1>3
<1>6. LowPrice = base_price /\ LowPrice' = base_price
  BY <1>1, <1>2, <1>5, PointClasses DEF View
<1>7. PriceVolume' = PriceVolume /\ Taker' = NoTaker
  BY <1>2, <1>4, <1>6, VolumesStay DEF View, NoTaker
<1>8. CASE t \in Processing
  <2>1. Handled(t)
    BY <1>1 DEF Handled
  <2>2. Taker = HandledTaker(order[t], ret[t])
    BY <1>8, <2>1 DEF View
  <2>3. Taker.done /\ Taker # NoTaker
    <3>1. Taker.done /\ "done" \in DOMAIN Taker
      BY <2>2 DEF HandledTaker
    <3>2. "done" \notin DOMAIN NoTaker
      BY DEF NoTaker
    <3> QED
      BY <3>1, <3>2
  <2> QED
    BY <1>6, <1>7, <2>3 DEF Abstract!End
<1>9. CASE t \notin Processing
  <2>1. Processing = {}
    BY <1>1, <1>9, PointClasses DEF View
  <2> QED
    BY <1>6, <1>7, <2>1 DEF View, NothingSeen
<1> QED
  BY <1>8, <1>9
-----------------------------------------------------------------------------
(***************************************************************************)
(* A shift moves the window.                                               *)
(***************************************************************************)
\* While a thread shifts the book there is no taker.
LEMMA NoTakerInShift ==
    ASSUME AccountInv, View, View', NEW t \in Threads, ShiftStep(t)
    PROVE  Taker = NoTaker /\ Taker' = NoTaker
<1>1. /\ pc[t] \in {"shift_enter", "shift_move", "shift_base", "shift_leave"}
      /\ \/ pc'[t] \in {"shift_move", "shift_base", "shift_leave"}
         \/ pc[t] = "shift_leave" /\ pc'[t] = "unlock" /\ shift'[t] = shift[t]
      /\ \A u \in Threads : u # t => pc'[u] = pc[u]
  BY DEF ShiftStep, EnterShift, MoveBuckets, MoveBase, LeaveShift, Goto, locals,
     AccountInv, IInv, Typed
<1>2. \A u \in Threads : u # t => pc[u] \in {"idle", "shift_lock"}
  BY <1>1, Alone DEF AccountInv, HeldPoints, FluxPoints
<1>3. pc[t] = "shift_leave" => shift[t] # NoShift
  BY DEF AccountInv, Accounted, ShiftRemembered
<1>4. Processing = {}
  BY <1>1, <1>2 DEF Processing, FluxPoints, ShiftPoints
<1>5. Processing' = {}
  BY <1>1, <1>2, <1>3 DEF Processing, FluxPoints, ShiftPoints
<1> QED
  BY <1>4, <1>5 DEF View, NoTaker

LEMMA ShiftPassageUnseen ==
    ASSUME AccountInv, View, View', NEW t \in Threads, EnterShift(t) \/ LeaveShift(t)
    PROVE  NothingSeen
<1>1. /\ pc[t] \in {"shift_enter", "shift_leave"}
      /\ pc'[t] \in {"shift_move", "unlock"} /\ UNCHANGED book
  BY DEF EnterShift, LeaveShift, Goto, AccountInv, IInv, Typed
<1>2. base_price' = base_price /\ mem_span' = mem_span
  BY <1>1 DEF book
<1>3. PriceVolume' = PriceVolume /\ LowPrice' = LowPrice
  BY <1>1, <1>2, WindowStays, VolumesStay, PointClasses
<1>4. Taker = NoTaker /\ Taker' = NoTaker
  BY NoTakerInShift DEF ShiftStep
<1> QED
  BY <1>3, <1>4 DEF NothingSeen

\* What is seen of the volumes is inside the window.
LEMMA VolumeInWindow ==
    ASSUME NEW low \in Int, NEW p \in UInts, NEW mem,
           VolumeAt(p, mem, low) # 0
    PROVE  low <= p /\ p < low + BookLength
<1>1. p - low \in Buckets /\ p \in Int
  BY DEF VolumeAt, UInts
<1> QED
  BY <1>1, LengthAssumption DEF Buckets

\* The buckets move, and the window with them: no price has another volume.
LEMMA MoveBucketsShifts ==
    ASSUME Discipline = Disciplines, AccountInv, View, View',
           NEW t \in Threads, MoveBuckets(t)
    PROVE  Abstract!Shift
<1> DEFINE m == shift[t].mem_shift
<1>1. /\ pc[t] = "shift_move" /\ pc'[t] = "shift_base"
      /\ base_price' = base_price /\ shift' = shift
  BY DEF MoveBuckets, Goto, locals, AccountInv, IInv, Typed
<1>2. LowPrice = base_price /\ LowPrice' = base_price + m
  BY <1>1, PointClasses DEF View
<1>3. \A p \in UInts : VolumeAt(p, mem_span', base_price + m)
                         = VolumeAt(p, mem_span, base_price)
  BY BucketsMoved DEF AccountInv
<1>4. PriceVolume' = PriceVolume
  BY <1>2, <1>3 DEF PriceVolume
<1>5. BaseFits(NextBase(t)) /\ BaseFits(base_price)
  BY BucketsMoved DEF AccountInv, IInv
<1>6. m = IF shift[t].possible /\ ~NoVolume(stats) THEN shift[t].shift_by ELSE 0
  BY <1>1 DEF AccountInv, IInv, ThreadSound, ShiftFits
<1>7. base_price + m = NextBase(t) \/ base_price + m = base_price
  BY <1>5, <1>6 DEF NextBase, BaseFits
<1>8. LowPrice' \in UInts /\ LowPrice' \in Int
  BY <1>2, <1>5, <1>7, LengthAssumption, WidthAssumption DEF BaseFits, UInts
<1>9. ASSUME NEW p \in UInts, PriceVolume[p] # 0
      PROVE  LowPrice' <= p /\ p < LowPrice' + BookLength
  <2>1. VolumeAt(p, mem_span', LowPrice') # 0
    BY <1>4, <1>9 DEF PriceVolume
  <2> QED
    BY <1>8, <2>1, VolumeInWindow
<1>10. Taker = NoTaker /\ Taker' = NoTaker
  BY NoTakerInShift DEF ShiftStep
<1> QED
  BY <1>4, <1>8, <1>9, <1>10 DEF Abstract!Shift, Abstract!InWindow

\* The base price follows; only of a book without volume does it move on its
\* own.
LEMMA MoveBaseShifts ==
    ASSUME AccountInv, View, View', NEW t \in Threads, MoveBase(t)
    PROVE  Abstract!Shift \/ NothingSeen
<1> DEFINE m == shift[t].mem_shift
<1>1. /\ pc[t] = "shift_base" /\ pc'[t] = "shift_leave"
      /\ mem_span' = mem_span
  BY DEF MoveBase, Goto, AccountInv, IInv, Typed
<1>2. BaseFits(NextBase(t)) /\ Sound(mem_span, NextBase(t), stats)
  BY <1>1 DEF AccountInv, IInv, ThreadSound, ShiftFits
<1>3. base_price' = NextBase(t) /\ base_price \in Int
  BY BaseMoved DEF AccountInv, IInv, BaseFits
<1>4. LowPrice = base_price + m /\ LowPrice' = NextBase(t)
  BY <1>1, <1>3, PointClasses DEF View
<1>5. m = IF shift[t].possible /\ ~NoVolume(stats) THEN shift[t].shift_by ELSE 0
  BY <1>1 DEF AccountInv, Accounted, ShiftRemembered
<1>6. Taker = NoTaker /\ Taker' = NoTaker
  BY NoTakerInShift DEF ShiftStep
<1>7. CASE NoVolume(stats)
  <2>1. \A i \in Buckets : mem_span[i] = 0
    BY <1>2, <1>7, NoVolumeEmpty DEF AccountInv, IInv, Typed
  <2>2. \A p, base : VolumeAt(p, mem_span, base) = 0
    BY <2>1 DEF VolumeAt
  <2>3. PriceVolume = [p \in UInts |-> 0] /\ PriceVolume' = [p \in UInts |-> 0]
    BY <1>1, <2>2 DEF PriceVolume
  <2>4. LowPrice' \in UInts
    BY <1>2, <1>4, LengthAssumption, WidthAssumption DEF BaseFits, UInts
  <2> QED
    BY <1>6, <2>3, <2>4 DEF Abstract!Shift
<1>8. CASE ~NoVolume(stats)
  <2>1. LowPrice' = LowPrice
    BY <1>3, <1>4, <1>5, <1>8 DEF NextBase
  <2> QED
    BY <1>1, <1>6, <2>1, VolumesStay DEF NothingSeen
<1> QED
  BY <1>7, <1>8
-----------------------------------------------------------------------------
(***************************************************************************)
(* A run through the book takes from the best price of the other side.     *)
(***************************************************************************)
LEMMA LeastIsMin ==
    ASSUME NEW S, S \subseteq Int, NEW x \in S
    PROVE  /\ (\A y \in S : x <= y) => Abstract!Min(S) = x
           /\ (\A y \in S : y <= x) => Abstract!Max(S) = x
<1>1. ASSUME \A y \in S : x <= y
      PROVE  Abstract!Min(S) = x
  <2>1. \A z \in S : (\A y \in S : z <= y) => z = x
    BY <1>1
  <2> QED
    BY <1>1, <2>1 DEF Abstract!Min
<1>2. ASSUME \A y \in S : y <= x
      PROVE  Abstract!Max(S) = x
  <2>1. \A z \in S : (\A y \in S : z >= y) => z = x
    BY <1>2
  <2> QED
    BY <1>2, <2>1 DEF Abstract!Max
<1> QED
  BY <1>1, <1>2

\* The order of a run is the one the handler is meant for, and is accepted.
LEMMA RunOrder ==
    ASSUME AccountInv, NEW t \in Threads,
           \/ pc[t] = "add_run" /\ order[t].type = "add"
                                /\ UsedVolume(order[t], base_price) # 0
           \/ pc[t] = "market_run" /\ order[t].type = "market"
    PROVE  /\ run[t].volume = order[t].volume
           /\ pc[t] = "add_run" =>
                /\ order[t].volume # 0
                /\ order[t].price \in PricesOf(base_price)
                /\ UsedPrice(order[t], base_price) = order[t].price
<1>1. CASE pc[t] = "add_run"
  <2>1. OrderFor("add", order[t]) = order[t]
    BY <1>1 DEF OrderFor
  <2>2. run[t].volume = UsedVolume(order[t], base_price)
    BY <1>1, <2>1 DEF AccountInv, IInv, ThreadSound, RunFits
  <2>3. InRange(order[t], base_price) /\ UsedVolume(order[t], base_price) # 0
    BY <1>1 DEF UsedVolume
  <2>4. /\ UsedVolume(order[t], base_price) = order[t].volume
        /\ UsedPrice(order[t], base_price) = order[t].price
    BY <2>3 DEF UsedVolume, UsedPrice
  <2>5. order[t].volume \in Int /\ order[t].price \in UInts
    BY <2>1, OrderTypes DEF AccountInv, IInv
  <2>6. order[t].volume # 0 => order[t].price # UInt32(base_price + BookLength)
    BY DEF AccountInv, IInv, ThreadSound, OrderInner
  <2>7. UsedPrice(order[t], base_price) \in PricesOf(base_price)
    BY <2>3, <2>4, <2>5, <2>6, UsedInner DEF AccountInv, IInv
  <2> QED
    BY <2>2, <2>3, <2>4, <2>7
<1>2. CASE pc[t] = "market_run"
  <2>1. OrderFor("market", order[t]) = order[t]
    BY <1>2 DEF OrderFor
  <2> QED
    BY <1>2, <2>1 DEF AccountInv, Accounted, RunPaid
<1> QED
  BY <1>1, <1>2

\* A run that steps on is that of the order being processed.
LEMMA RunStepOrder ==
    ASSUME AccountInv, View, NEW t \in Threads, RunStep(t)
    PROVE  /\ \/ pc[t] = "add_run" /\ order[t].type = "add"
                                   /\ UsedVolume(order[t], base_price) # 0
              \/ pc[t] = "market_run" /\ order[t].type = "market"
           /\ t \in Processing /\ ~Handled(t) /\ Matching(t)
           /\ Taker = MatchingTaker(order[t], run[t])
<1>1. pc[t] \in {"add_run", "market_run"}
  BY DEF RunStep
<1>2. ~run[t].dummy /\ run[t].volume # 0
  BY RunFills DEF AccountInv
<1>3. pc[t] = "add_run" =>
        order[t].type = "add" /\ UsedVolume(order[t], base_price) # 0
  <2> HAVE pc[t] = "add_run"
  <2>1. run[t].volume = UsedVolume(OrderFor("add", order[t]), base_price)
    BY DEF AccountInv, IInv, ThreadSound, RunFits
  <2> QED
    BY <1>2, <2>1, BlankForOthers DEF AccountInv, IInv
<1>4. pc[t] = "market_run" => order[t].type = "market"
  <2> HAVE pc[t] = "market_run"
  <2>1. run[t].volume = OrderFor("market", order[t]).volume
    BY DEF AccountInv, Accounted, RunPaid
  <2> QED
    BY <1>2, <2>1, BlankForOthers DEF AccountInv, IInv
<1>5. t \in Processing /\ ~Handled(t) /\ Matching(t)
  BY <1>1, <1>2, <1>3, <1>4 DEF Processing, FluxPoints, ShiftPoints, Handled, Matching
<1> QED
  BY <1>1, <1>3, <1>4, <1>5 DEF View

\* The bucket a run fills from is that of the best price.
LEMMA RunAtBest ==
    ASSUME IInv, LowPrice = base_price, NEW t \in Threads, RunStep(t),
           NEW f, f = run[t], Taker.open = f.open_vol,
           mem_span[f.index] # 0
    PROVE  Abstract!OtherSide # {} /\ Abstract!BestPrice = base_price + f.index
<1> USE LengthAssumption
<1>1. /\ f.open_vol \in Int /\ f.index \in Buckets
      /\ f.volume < 0 \/ f.volume > 0
      /\ f.volume < 0 =>
           /\ f.open_vol < 0 /\ mem_span[f.index] >= 0
           /\ \A i \in Buckets : mem_span[i] > 0 => f.index <= i
      /\ f.volume > 0 =>
           /\ f.open_vol > 0 /\ mem_span[f.index] <= 0
           /\ \A i \in Buckets : mem_span[i] < 0 => i <= f.index
      /\ mem_span[f.index] \in Int
  BY RunFills DEF Frames
<1>2. base_price \in Nat
  BY DEF IInv, BaseFits
<1> DEFINE S == Abstract!OtherSide
           x == base_price + f.index
<1>3. S = {p \in PricesOf(base_price) :
             \/ f.open_vol < 0 /\ mem_span[p - base_price] > 0
             \/ f.open_vol > 0 /\ mem_span[p - base_price] < 0}
  BY <1>1, SideSeen
<1>4. x \in PricesOf(base_price) /\ x - base_price = f.index
  BY <1>1, <1>2 DEF Buckets, PricesOf
<1>5. \A p \in PricesOf(base_price) :
        /\ p \in Int /\ p - base_price \in Buckets /\ p = base_price + (p - base_price)
  BY <1>2 DEF Buckets, PricesOf
<1>6. S \subseteq Int
  BY <1>3, <1>5
<1>7. x \in S
  BY <1>1, <1>3, <1>4
<1>8. CASE f.volume < 0
  <2>1. \A p \in S : f.index <= p - base_price
    BY <1>1, <1>3, <1>5, <1>8
  <2>2. \A p \in S : x <= p
    BY <1>1, <1>2, <1>6, <2>1 DEF Buckets
  <2> HIDE DEF S, x
  <2>3. Abstract!Min(S) = x
    BY <1>6, <1>7, <2>2, LeastIsMin
  <2> QED
    BY <1>1, <1>7, <1>8, <2>3 DEF Abstract!BestPrice, S, x
<1>9. CASE f.volume > 0
  <2>1. \A p \in S : p - base_price <= f.index
    BY <1>1, <1>3, <1>5, <1>9
  <2>2. \A p \in S : p <= x
    BY <1>1, <1>2, <1>6, <2>1 DEF Buckets
  <2> HIDE DEF S, x
  <2>3. Abstract!Max(S) = x
    BY <1>6, <1>7, <2>2, LeastIsMin
  <2> QED
    BY <1>1, <1>7, <1>9, <2>3 DEF Abstract!BestPrice, S, x
<1> QED
  BY <1>1, <1>8, <1>9

\* An order trades as long as its run goes on: at first because it crosses
\* the best price of the other side, then because it has begun to.
LEMMA RunTrades ==
    ASSUME AccountInv, View, NEW t \in Threads, RunStep(t),
           mem_span[run[t].index] # 0, LowPrice = base_price
    PROVE  Abstract!Trades
<1> DEFINE f == run[t]
           o == order[t]
<1>1. /\ Taker = MatchingTaker(o, f)
      /\ \/ pc[t] = "add_run" /\ o.type = "add" /\ UsedVolume(o, base_price) # 0
         \/ pc[t] = "market_run" /\ o.type = "market"
  BY RunStepOrder
<1>2. Taker.order = o /\ Taker.open = f.open_vol
  BY <1>1 DEF MatchingTaker
<1>3. Abstract!OtherSide # {} /\ Abstract!BestPrice = base_price + f.index
  BY <1>2, RunAtBest DEF AccountInv
<1>4. ASSUME pc[t] = "add_run", o.type = "add", f.open_vol = o.volume
      PROVE  \/ f.open_vol < 0 /\ base_price + f.index <= o.price
             \/ f.open_vol > 0 /\ base_price + f.index >= o.price
  <2>1. /\ f.volume = o.volume /\ UsedPrice(o, base_price) = o.price
        /\ OrderFor("add", o) = o
    BY <1>1, <1>4, RunOrder DEF OrderFor
  <2>2. f.volume = UsedVolume(o, base_price) /\ (f.dummy <=> ~Crossed(o, stats, base_price))
    BY <1>4, <2>1 DEF AccountInv, IInv, ThreadSound, RunFits
  <2>3. ~f.dummy /\ (f.volume < 0 \/ f.volume > 0)
    BY RunFills DEF AccountInv
  <2>4. base_price + f.index = FirstPrice(f, stats)
    BY <1>4, <2>1, <2>3 DEF AccountInv, Accounted, RunPaid, RunPoints
  <2>5. \/ f.volume < 0 /\ o.price >= stats.best_offer
        \/ f.volume > 0 /\ o.price <= stats.best_bid
    BY <2>1, <2>2, <2>3 DEF Crossed
  <2>6. /\ o.price \in Int /\ base_price + f.index \in Int /\ f.volume \in Int
    <3>1. f.index \in Int /\ f.volume \in Int
      BY RunFills DEF AccountInv, Frames
    <3>2. o.price \in UInts
      BY <2>1, OrderTypes DEF AccountInv, IInv
    <3> QED
      BY <3>1, <3>2 DEF UInts, AccountInv, IInv, BaseFits
  <2> QED
    BY <1>4, <2>1, <2>4, <2>5, <2>6 DEF FirstPrice
<1> HIDE DEF f, o
<1> QED
  BY <1>1, <1>2, <1>3, <1>4 DEF Abstract!Trades

\* An iteration of run_through_book is a match at the best price, or nothing
\* when the bucket is empty.
LEMMA RunStepMatches ==
    ASSUME AccountInv, View, View', NEW t \in Threads, RunStep(t)
    PROVE  Abstract!Match \/ NothingSeen
<1> DEFINE f == run[t]
           i == f.index
           o == order[t]
           filled == Consumed(mem_span[f.index], -f.open_vol)
           f2 == run'[t]
           p == base_price + i
<1>1. /\ pc[t] \in {"add_run", "market_run"} /\ pc' = pc /\ order' = order
      /\ base_price' = base_price
  BY DEF RunStep
<1>2. /\ f \in Frames /\ filled \in Int /\ ~f.dummy /\ (f.volume < 0 \/ f.volume > 0)
      /\ f.volume < 0 => f.open_vol < 0 /\ 0 <= filled
      /\ f.volume > 0 => f.open_vol > 0 /\ filled <= 0
      /\ f2 = Advanced(f, filled, base_price)
  BY RunFills DEF AccountInv
<1>12. /\ i \in Buckets /\ mem_span[i] \in Int
       /\ mem_span' = [mem_span EXCEPT ![i] = @ - filled]
  BY RunFills DEF AccountInv, RunStep
<1>3. /\ \/ pc[t] = "add_run" /\ o.type = "add" /\ UsedVolume(o, base_price) # 0
         \/ pc[t] = "market_run" /\ o.type = "market"
      /\ t \in Processing /\ ~Handled(t) /\ Matching(t)
      /\ Taker = MatchingTaker(o, f)
  BY RunStepOrder
<1>4. f2.volume = f.volume /\ f2.dummy = f.dummy /\ f2.open_vol = f.open_vol + filled
      /\ f2.transaction_index = (IF filled # 0 THEN i ELSE f.transaction_index)
      /\ f2.order_revenue = f.order_revenue - filled * (i + base_price)
  BY <1>2, AdvancedFields
<1>5. LowPrice = base_price /\ LowPrice' = base_price
  BY <1>1, WindowStays, PointClasses
<1>6. /\ f.volume \in Int /\ f.open_vol \in Int /\ f.order_revenue \in Int
      /\ f.transaction_index \in Int /\ i \in Int
      /\ mem_span \in [Cells -> Int] /\ BaseFits(base_price) /\ base_price \in Int
  BY <1>2, <1>12, LengthAssumption DEF Frames, Buckets, AccountInv, IInv, Typed, BaseFits
<1>7. /\ f.volume < 0 => f.volume <= f.open_vol
      /\ f.volume > 0 => f.open_vol <= f.volume
  BY <1>1, <1>2 DEF AccountInv, Accounted, RunPaid, RunPoints
<1>8. Taker' = MatchingTaker(order[t], run[t])'
  <2>1. (t \in Processing)' /\ ~Handled(t)' /\ Matching(t)'
    BY <1>1, <1>3, <1>4 DEF Processing, FluxPoints, ShiftPoints, Handled, Matching
  <2> QED
    BY <1>1, <2>1 DEF View
<1> HIDE DEF f, f2, o, i, filled
<1>9. /\ Taker = [order |-> o, open |-> f.open_vol, revenue |-> f.order_revenue,
                  price |-> IF f.open_vol = f.volume THEN 0
                            ELSE base_price + f.transaction_index,
                  error |-> 0, done |-> FALSE]
      /\ Taker' = [order |-> o, open |-> f2.open_vol, revenue |-> f2.order_revenue,
                   price |-> IF f2.open_vol = f2.volume THEN 0
                             ELSE base_price + f2.transaction_index,
                   error |-> 0, done |-> FALSE]
  BY <1>1, <1>3, <1>8 DEF MatchingTaker, o, f, f2
<1>10. CASE filled = 0
  <2>1. /\ f2.open_vol = f.open_vol /\ f2.order_revenue = f.order_revenue
        /\ f2.transaction_index = f.transaction_index
    BY <1>4, <1>6, <1>10
  <2>2. mem_span' = mem_span
    <3>1. mem_span[i] - filled = mem_span[i]
      BY <1>10, <1>12
    <3> QED
      BY <1>6, <1>12, <3>1
  <2>3. Taker' = Taker
    BY <1>4, <1>9, <2>1
  <2> QED
    BY <1>5, <2>2, <2>3, VolumesStay DEF NothingSeen
<1>11. CASE filled # 0
  <2>1. mem_span[i] # 0 /\ -f.open_vol # 0
    BY <1>2, <1>6, <1>11, <1>12 DEF filled, i, Consumed
  <2>2. Taker.open = f.open_vol /\ Taker.order = o /\ ~Taker.done
    BY <1>9
  <2>3. Abstract!Trades /\ Abstract!BestPrice = p
    BY <1>5, <2>1, <2>2, RunTrades, RunAtBest DEF AccountInv, f, i
  <2>4. /\ p \in UInts /\ PriceVolume[p] = mem_span[i]
        /\ PriceVolume' = [PriceVolume EXCEPT ![p] = @ + (-filled)]
    <3> DEFINE v == -filled
    <3>1. v \in Int /\ mem_span[i] - filled = mem_span[i] + v
      BY <1>2, <1>12
    <3> HIDE DEF v
    <3>2. mem_span' = [mem_span EXCEPT ![i] = @ + v]
      BY <1>12, <3>1
    <3>3. /\ p \in UInts /\ PriceVolume[p] = mem_span[i]
          /\ PriceVolume' = [PriceVolume EXCEPT ![p] = @ + v]
      BY <1>5, <1>6, <1>12, <3>1, <3>2, VolumeMoved
    <3> QED
      BY <3>3 DEF v
  <2>5. Abstract!Given(PriceVolume[p], -Taker.open) = filled
    BY <1>6, <1>12, <2>1, <2>2, <2>4, GivenConsumed DEF filled, i
  <2>6. f2.open_vol # f2.volume
    BY <1>2, <1>4, <1>6, <1>7, <1>11
  <2> DEFINE paid == filled * p
  <2>7. filled * (i + base_price) = paid
    BY <1>6
  <2> HIDE DEF paid, p
  <2>8. f2.transaction_index = i /\ f2.order_revenue = f.order_revenue - paid
        /\ base_price + i = p
    BY <1>4, <1>11, <2>7 DEF p
  <2>10. Taker' = [Taker EXCEPT !.open = @ + filled, !.revenue = @ - filled * p,
                                !.price = p]
    <3>1. Taker' = [order |-> o, open |-> f.open_vol + filled,
                    revenue |-> f.order_revenue - paid, price |-> p,
                    error |-> 0, done |-> FALSE]
      BY <1>4, <1>9, <2>6, <2>8
    <3> DEFINE open2 == f.open_vol + filled
               revenue2 == f.order_revenue - paid
    <3>2. /\ IsTaker(Taker) /\ Taker.order = o /\ Taker.open = f.open_vol
          /\ Taker.revenue = f.order_revenue /\ Taker.error = 0 /\ Taker.done = FALSE
      BY <1>9, LiteralTaker
    <3>3. /\ IsTaker(Taker') /\ Taker'.order = o /\ Taker'.open = open2
          /\ Taker'.revenue = revenue2 /\ Taker'.price = p
          /\ Taker'.error = 0 /\ Taker'.done = FALSE
      BY <3>1, LiteralTaker
    <3> HIDE DEF open2, revenue2
    <3>4. /\ IsTaker(Taker) /\ IsTaker(Taker') /\ Taker'.order = Taker.order
          /\ Taker'.open = open2 /\ Taker'.revenue = revenue2 /\ Taker'.price = p
          /\ Taker'.error = Taker.error /\ Taker'.done = Taker.done
      BY <3>2, <3>3
    <3>5. Taker' = Traded(Taker, open2, revenue2, p)
      BY <3>4, TradedTaker
    <3>6. Taker' = [Taker EXCEPT !.open = open2, !.revenue = revenue2, !.price = p]
      BY <3>5, Zenon DEF Traded
    <3> QED
      BY <3>2, <3>6 DEF paid, open2, revenue2
  <2>9. Abstract!Working("market")
          \/ (Abstract!Working("add") /\ Abstract!Accepted(Taker.order))
    <3>1. "done" \in DOMAIN Taker /\ "done" \notin DOMAIN NoTaker
      BY <1>9 DEF NoTaker
    <3>2. pc[t] = "add_run" => Abstract!InWindow(o.price)
      <4> HAVE pc[t] = "add_run"
      <4>1. o.price \in PricesOf(base_price)
        BY <1>3, RunOrder DEF o
      <4> QED
        BY <1>5, <1>6, <4>1, LengthAssumption DEF PricesOf, Abstract!InWindow
    <3> QED
      BY <1>3, <2>2, <3>1, <3>2 DEF Abstract!Working, Abstract!Accepted
  <2> QED
    BY <1>5, <2>3, <2>4, <2>5, <2>9, <2>10 DEF Abstract!Match, Abstract!Moved
<1> QED
  BY <1>10, <1>11
-----------------------------------------------------------------------------
(***************************************************************************)
(* The end of a run, and what a handler answers.                           *)
(***************************************************************************)
\* A run that is over has used up the other side of the book or filled its
\* order; and one that filled nothing at all was over before it began.
LEMMA RunOver ==
    ASSUME AccountInv, NEW t \in Threads, pc[t] \in RunPoints,
           NEW f, f = run[t], ~f.dummy, ~Running(f)
    PROVE  /\ f.open_vol \in Int /\ f.open_vol # f.volume
           /\ f.open_vol < 0 => \A i \in Buckets : ~ (mem_span[i] > 0)
           /\ f.open_vol > 0 => \A i \in Buckets : ~ (mem_span[i] < 0)
<1> USE LengthAssumption
<1>1. /\ RunSound(f, mem_span, base_price, stats) /\ f \in Frames
      /\ base_price \in Nat /\ stats \in Statistics
  BY DEF RunPoints, AccountInv, IInv, Typed, ThreadSound, RunFits, BaseFits
<1>2. /\ f.open_vol \in Int /\ f.index \in Int /\ f.n_iterations \in Int
      /\ f.volume \in Int /\ f.volume # 0
      /\ stats.best_offer \in Int /\ stats.highest_offer \in Int
      /\ stats.best_bid \in Int /\ stats.lowest_bid \in Int
  BY <1>1 DEF Frames, RunSound, Statistics, OptPrices, UInts, None
<1>3. f.open_vol = f.volume => base_price + f.index = FirstPrice(f, stats)
  BY DEF AccountInv, Accounted, RunPaid
<1>4. f.open_vol # 0 => f.n_iterations < 0 \/ f.index < 0
  BY <1>2 DEF Running
<1>5. \A i \in Buckets : i \in Int /\ 0 <= i
  BY DEF Buckets
<1>6. CASE f.volume < 0
  <2>1. BuyRun(f, mem_span, base_price, stats)
    BY <1>1, <1>6 DEF RunSound
  <2>2. /\ f.open_vol <= 0 /\ 0 <= stats.best_offer - base_price
        /\ stats.best_offer <= stats.highest_offer
        /\ stats.best_offer <= base_price + f.index
        /\ f.n_iterations = stats.highest_offer - (base_price + f.index)
        /\ \A i \in Buckets : mem_span[i] > 0 =>
             /\ base_price + i <= stats.highest_offer
             /\ f.open_vol # 0 => i >= f.index
    BY <2>1 DEF BuyRun, Buckets
  <2>3. f.open_vol # 0 => stats.highest_offer < base_price + f.index
    BY <1>1, <1>2, <1>4, <2>2
  <2>4. f.open_vol # f.volume
    BY <1>1, <1>2, <1>3, <1>6, <2>2, <2>3 DEF FirstPrice
  <2>5. f.open_vol < 0 => \A i \in Buckets : ~ (mem_span[i] > 0)
    BY <1>1, <1>2, <1>5, <2>2, <2>3
  <2> QED
    BY <1>2, <2>2, <2>4, <2>5
<1>7. CASE f.volume > 0
  <2>1. SellRun(f, mem_span, base_price, stats)
    BY <1>1, <1>7 DEF RunSound
  <2>2. /\ f.open_vol >= 0 /\ 0 <= stats.lowest_bid - base_price
        /\ stats.lowest_bid <= stats.best_bid
        /\ base_price + f.index <= stats.best_bid
        /\ f.n_iterations = (base_price + f.index) - stats.lowest_bid
        /\ \A i \in Buckets : mem_span[i] < 0 =>
             /\ stats.lowest_bid <= base_price + i
             /\ f.open_vol # 0 => i <= f.index
    BY <2>1 DEF SellRun, Buckets
  <2>3. f.open_vol # 0 => base_price + f.index < stats.lowest_bid
    BY <1>1, <1>2, <1>4, <2>2
  <2>4. f.open_vol # f.volume
    BY <1>1, <1>2, <1>3, <1>7, <2>2, <2>3 DEF FirstPrice
  <2>5. f.open_vol > 0 => \A i \in Buckets : ~ (mem_span[i] < 0)
    BY <1>1, <1>2, <1>5, <2>2, <2>3
  <2> QED
    BY <1>2, <2>2, <2>4, <2>5
<1> QED
  BY <1>2, <1>6, <1>7

\* An order whose run is over: the taker has traded what the response tells.
LEMMA RunTold ==
    ASSUME AccountInv, View, NEW t \in Threads, pc[t] \in RunPoints,
           NEW f, f = run[t], ~Running(f), f.volume = order[t].volume,
           t \in Processing, ~Handled(t), Matching(t) <=> ~f.dummy,
           NEW r, r = RunResponse(f, base_price)
    PROVE  /\ IsTaker(Taker) /\ Taker.order = order[t]
           /\ Taker.open = order[t].volume - r.filled
           /\ Taker.open = IF f.dummy THEN f.volume ELSE f.open_vol
           /\ Taker.revenue = r.revenue /\ Taker.price = r.price
           /\ Taker.error = 0 /\ ~Taker.done
<1>1. f \in Frames /\ f.volume \in Int /\ f.open_vol \in Int
  BY DEF AccountInv, IInv, Typed, Frames
<1>2. CASE f.dummy
  <2>1. Taker = Abstract!Fresh(order[t])
    BY <1>2 DEF View
  <2>2. r.filled = 0 /\ r.price = 0 /\ r.revenue = f.order_revenue
    BY <1>2 DEF RunResponse
  <2>3. f.order_revenue = 0
    BY <1>2 DEF AccountInv, Accounted, RunPaid
  <2> QED
    BY <1>1, <1>2, <2>1, <2>2, <2>3, LiteralTaker DEF Abstract!Fresh
<1>3. CASE ~f.dummy
  <2>1. Taker = MatchingTaker(order[t], f)
    BY <1>3 DEF View
  <2>2. /\ r.filled = f.volume - f.open_vol /\ r.revenue = f.order_revenue
        /\ r.price = base_price + f.transaction_index
    BY <1>3 DEF RunResponse
  <2>3. f.open_vol # f.volume
    BY <1>3, RunOver
  <2> QED
    BY <1>1, <1>3, <2>1, <2>2, <2>3, LiteralTaker DEF MatchingTaker
<1> QED
  BY <1>2, <1>3

\* An order with nothing left to trade with does not trade.
LEMMA NothingToTrade ==
    ASSUME IInv, LowPrice = base_price, Taker.open \in Int,
           Taker.open < 0 => \A i \in Buckets : ~ (mem_span[i] > 0),
           Taker.open > 0 => \A i \in Buckets : ~ (mem_span[i] < 0)
    PROVE  ~Abstract!Trades
<1>1. base_price \in Int
  BY DEF IInv, BaseFits
<1>2. \A p \in PricesOf(base_price) : p - base_price \in Buckets
  BY <1>1, LengthAssumption DEF PricesOf, Buckets
<1>3. Abstract!OtherSide = {}
  BY <1>2, SideSeen
<1> QED
  BY <1>3 DEF Abstract!Trades

\* Nor does an order that does not cross the best price of the other side.
LEMMA NotCrossing ==
    ASSUME IInv, LowPrice = base_price, Sound(mem_span, base_price, stats),
           NEW o, o.volume \in Int, o.price \in Int, o.type = "add",
           Taker.order = o, Taker.open = o.volume,
           UsedVolume(o, base_price) = o.volume, UsedPrice(o, base_price) = o.price,
           ~Crossed(o, stats, base_price)
    PROVE  ~Abstract!Trades
<1> USE LengthAssumption
<1> DEFINE S == Abstract!OtherSide
<1>1. /\ base_price \in Nat /\ stats \in Statistics /\ mem_span \in [Cells -> Int]
      /\ stats.best_offer \in Int /\ stats.best_bid \in Int
  BY DEF IInv, Typed, BaseFits, Statistics, OptPrices, UInts, None
<1>2. S = {p \in PricesOf(base_price) :
             \/ o.volume < 0 /\ mem_span[p - base_price] > 0
             \/ o.volume > 0 /\ mem_span[p - base_price] < 0}
  BY SideSeen
<1>3. \A p \in PricesOf(base_price) :
        /\ p \in Int /\ p - base_price \in Buckets /\ p = base_price + (p - base_price)
  BY <1>1 DEF Buckets, PricesOf
<1>4. S \subseteq Int
  BY <1>2, <1>3
<1> HIDE DEF S
<1>5. ASSUME S # {}, o.volume < 0
      PROVE  Abstract!BestPrice \in Int /\ Abstract!BestPrice > o.price
  <2>1. PICK q \in S : TRUE
    BY <1>5
  <2>2. q \in PricesOf(base_price) /\ mem_span[q - base_price] > 0
    BY <1>2, <1>5, <2>1
  <2>3. stats.best_offer # None
    BY <1>3, <2>2 DEF Sound, OffersSound
  <2>4. stats.best_offer \in PricesOf(base_price) /\ mem_span[stats.best_offer - base_price] > 0
    BY <1>1, <2>3, SoundPrices DEF Sound, OffersSound
  <2>5. stats.best_offer \in S
    BY <1>2, <1>5, <2>4
  <2>6. \A p \in S : stats.best_offer <= p
    <3> SUFFICES ASSUME NEW p \in S PROVE stats.best_offer <= p
      OBVIOUS
    <3>1. p \in PricesOf(base_price) /\ mem_span[p - base_price] > 0
      BY <1>2, <1>5
    <3>2. stats.best_offer <= base_price + (p - base_price)
      BY <1>3, <3>1 DEF Sound, OffersSound
    <3> QED
      BY <1>3, <3>1, <3>2
  <2>7. Abstract!Min(S) = stats.best_offer
    BY <1>4, <2>5, <2>6, LeastIsMin
  <2>8. Abstract!BestPrice = stats.best_offer
    BY <1>5, <2>7 DEF Abstract!BestPrice, S
  <2>9. ~ (o.price >= stats.best_offer)
    BY <1>5, <2>3 DEF Crossed
  <2> QED
    BY <1>1, <2>8, <2>9
<1>6. ASSUME S # {}, o.volume > 0
      PROVE  Abstract!BestPrice \in Int /\ Abstract!BestPrice < o.price
  <2>1. PICK q \in S : TRUE
    BY <1>6
  <2>2. q \in PricesOf(base_price) /\ mem_span[q - base_price] < 0
    BY <1>2, <1>6, <2>1
  <2>3. stats.best_bid # None
    BY <1>3, <2>2 DEF Sound, BidsSound
  <2>4. stats.best_bid \in PricesOf(base_price) /\ mem_span[stats.best_bid - base_price] < 0
    BY <1>1, <2>3, SoundPrices DEF Sound, BidsSound
  <2>5. stats.best_bid \in S
    BY <1>2, <1>6, <2>4
  <2>6. \A p \in S : p <= stats.best_bid
    <3> SUFFICES ASSUME NEW p \in S PROVE p <= stats.best_bid
      OBVIOUS
    <3>1. p \in PricesOf(base_price) /\ mem_span[p - base_price] < 0
      BY <1>2, <1>6
    <3>2. base_price + (p - base_price) <= stats.best_bid
      BY <1>3, <3>1 DEF Sound, BidsSound
    <3> QED
      BY <1>3, <3>1, <3>2
  <2>7. Abstract!Max(S) = stats.best_bid
    BY <1>4, <2>5, <2>6, LeastIsMin
  <2>8. Abstract!BestPrice = stats.best_bid
    BY <1>6, <2>7 DEF Abstract!BestPrice, S
  <2>9. ~ (o.price <= stats.best_bid)
    BY <1>6, <2>3 DEF Crossed
  <2> QED
    BY <1>1, <2>8, <2>9
<1>7. S # {} => o.volume < 0 \/ o.volume > 0
  BY <1>2
<1>8. Taker.order.type # "market" /\ Taker.open = Taker.order.volume
  OBVIOUS
<1> QED
  BY <1>5, <1>6, <1>7, <1>8 DEF Abstract!Trades, S

\* AddLimitOrder::handle_order of an order that is not for it changes nothing
\* that is seen.
LEMMA FinishAddOfOthers ==
    ASSUME AccountInv, View, View', NEW t \in Threads, FinishAdd(t),
           order[t].type # "add"
    PROVE  NothingSeen
<1>1. /\ pc[t] = "add_run" /\ pc'[t] = "withdraw"
      /\ base_price' = base_price /\ order' = order
  BY DEF FinishAdd, Goto, AccountInv, IInv, Typed
<1>2. LowPrice = base_price /\ LowPrice' = base_price
  BY <1>1, WindowStays, PointClasses
<1>3. run[t].volume = 0
  <2>1. run[t].volume = UsedVolume(OrderFor("add", order[t]), base_price)
    BY AddAnswers
  <2> QED
    BY <2>1, BlankForOthers DEF AccountInv, IInv
<1>4. mem_span' = mem_span
  BY <1>3 DEF FinishAdd
<1>5. /\ t \in Processing /\ ~Handled(t) /\ ~Matching(t)
      /\ (t \in Processing)' /\ ~Handled(t)' /\ ~Matching(t)'
  BY <1>1 DEF Processing, FluxPoints, ShiftPoints, Handled, Matching
<1>6. Abstract!Fresh(order[t])' = Abstract!Fresh(order[t])
  BY <1>1 DEF Abstract!Fresh
<1>7. Taker' = Taker
  BY <1>5, <1>6 DEF View
<1> QED
  BY <1>2, <1>4, <1>7, VolumesStay DEF NothingSeen

\* An order that names a price outside the window is one that is out of range.
LEMMA AcceptedInRange ==
    ASSUME IInv, LowPrice = base_price, NEW t \in Threads
    PROVE  /\ Abstract!Accepted(order[t]) <=> InRange(order[t], base_price)
           /\ InRange(order[t], base_price) =>
                /\ UsedPrice(order[t], base_price) = order[t].price
                /\ UsedVolume(order[t], base_price) = order[t].volume
           /\ order[t].volume \in Int /\ order[t].price \in UInts
           /\ InRange(order[t], base_price) /\ order[t].volume # 0 =>
                order[t].price \in PricesOf(base_price)
<1> USE LengthAssumption, WidthAssumption
<1> DEFINE o == order[t]
<1>1. o.volume \in Int /\ o.price \in UInts
  <2>1. OrderFor(o.type, o) = o
    BY DEF OrderFor
  <2>2. o.type \in {"add", "withdraw", "market"}
    BY BlankForOthers DEF IInv
  <2> QED
    BY <2>1, <2>2, OrderTypes DEF IInv
<1>2. o.volume # 0 => o.price # UInt32(base_price + BookLength)
  BY DEF IInv, ThreadSound, OrderInner
<1>3. base_price \in Nat /\ UInt32(base_price + BookLength) = base_price + BookLength
  BY DEF IInv, BaseFits, UInt32
<1> HIDE DEF o
<1>4. o.volume # 0 => (PriceInRange(o.price, base_price) <=> o.price \in PricesOf(base_price))
  BY <1>1, <1>2, <1>3 DEF PriceInRange, PricesOf, UInts
<1>5. Abstract!InWindow(o.price) <=> o.price \in PricesOf(base_price)
  BY <1>1, <1>3 DEF Abstract!InWindow, PricesOf, UInts
<1>6. /\ Abstract!Accepted(o) <=> o.volume = 0 \/ o.price \in PricesOf(base_price)
      /\ InRange(o, base_price) <=> o.volume = 0 \/ o.price \in PricesOf(base_price)
  BY <1>4, <1>5 DEF Abstract!Accepted, InRange
<1> QED
  BY <1>1, <1>6 DEF UsedPrice, UsedVolume, o

\* Volume that is added to a price, or none
LEMMA VolumeAdded ==
    ASSUME IInv, LowPrice = base_price, LowPrice' = base_price,
           NEW p \in UInts, NEW v \in Int,
           \/ v = 0 /\ mem_span' = mem_span
           \/ /\ p \in PricesOf(base_price)
              /\ mem_span' = [mem_span EXCEPT ![p - base_price] = @ + v]
    PROVE  PriceVolume' = [PriceVolume EXCEPT ![p] = @ + v]
<1>1. BaseFits(base_price) /\ mem_span \in [Cells -> Int]
  BY DEF IInv, Typed
<1>2. CASE v = 0 /\ mem_span' = mem_span
  <2>1. PriceVolume' = PriceVolume
    BY <1>2, VolumesStay
  <2>2. PriceVolume[p] \in Int
    <3>1. \A i \in Buckets : mem_span[i] \in Int
      BY <1>1, LengthAssumption DEF Buckets, Cells
    <3> QED
      BY <3>1 DEF PriceVolume, VolumeAt
  <2>3. PriceVolume = [q \in UInts |-> PriceVolume[q]]
    BY DEF PriceVolume
  <2> QED
    BY <1>2, <2>1, <2>2, <2>3
<1>3. CASE /\ p \in PricesOf(base_price)
           /\ mem_span' = [mem_span EXCEPT ![p - base_price] = @ + v]
  <2> DEFINE i == p - base_price
  <2>1. i \in Buckets /\ base_price + i = p
    BY <1>1, <1>3, LengthAssumption DEF PricesOf, Buckets, BaseFits
  <2>2. mem_span' = [mem_span EXCEPT ![i] = @ + v]
    BY <1>3
  <2> HIDE DEF i
  <2> QED
    BY <1>1, <2>1, <2>2, VolumeMoved
<1> QED
  BY <1>2, <1>3

\* What AddLimitOrder::handle_order does to the book with what is left of an
\* order: the order is refused, or it no longer trades and the rest of it
\* rests at its price.
LEMMA FinishAddRests ==
    ASSUME AccountInv, View, View', NEW t \in Threads, FinishAdd(t),
           order[t].type = "add"
    PROVE  Abstract!Refuse \/ Abstract!Rest
<1> DEFINE o == order[t]
           f == run[t]
           r == RunResponse(f, base_price)
           unfilled == f.volume - r.filled
<1>1. /\ pc[t] = "add_run" /\ pc'[t] = "withdraw"
      /\ base_price' = base_price /\ order' = order
      /\ ~Running(f) /\ OrderFor("add", o) = o
  BY DEF FinishAdd, Goto, AccountInv, IInv, Typed, OrderFor
<1>2. /\ ret'[t] = [r EXCEPT !.error = OutOfRange(o, base_price)]
      /\ f.volume = UsedVolume(o, base_price)
      /\ f.volume = 0 => f.dummy
  BY <1>1, AddAnswers
<1>3. mem_span' = IF f.volume = 0 THEN mem_span
                  ELSE [mem_span EXCEPT ![UsedPrice(o, base_price) - base_price] =
                                          @ + unfilled]
  BY <1>1 DEF FinishAdd
<1>4. /\ t \in Processing /\ ~Handled(t) /\ (Matching(t) <=> ~f.dummy)
      /\ (t \in Processing)' /\ Handled(t)'
  BY <1>1 DEF Processing, FluxPoints, ShiftPoints, Handled, Matching
<1>5. LowPrice = base_price /\ LowPrice' = base_price
  BY <1>1, WindowStays, PointClasses
<1>6. /\ Abstract!Accepted(o) <=> InRange(o, base_price)
      /\ InRange(o, base_price) =>
           UsedPrice(o, base_price) = o.price /\ UsedVolume(o, base_price) = o.volume
      /\ o.volume \in Int /\ o.price \in UInts
      /\ InRange(o, base_price) /\ o.volume # 0 => o.price \in PricesOf(base_price)
  BY <1>5, AcceptedInRange DEF AccountInv
<1>7. /\ Taker' = HandledTaker(o, ret'[t])
      /\ ret'[t].price = r.price /\ ret'[t].filled = r.filled
      /\ ret'[t].revenue = r.revenue /\ ret'[t].error = OutOfRange(o, base_price)
  <2>1. Taker' = HandledTaker(o, ret[t])'
    BY <1>1, <1>4 DEF View
  <2> QED
    BY <1>1, <1>2, <2>1 DEF HandledTaker, RunResponse
<1> HIDE DEF o, f, r
<1>8. /\ IsTaker(Taker') /\ Taker'.order = o /\ Taker'.open = o.volume - r.filled
      /\ Taker'.revenue = r.revenue /\ Taker'.price = r.price
      /\ Taker'.error = OutOfRange(o, base_price) /\ Taker'.done = TRUE
  BY <1>7, LiteralTaker DEF HandledTaker
<1>9. CASE ~InRange(o, base_price)
  <2>1. f.volume = 0 /\ f.dummy /\ mem_span' = mem_span
    BY <1>2, <1>3, <1>9 DEF UsedVolume
  <2>2. Taker = Abstract!Fresh(o)
    BY <1>4, <2>1 DEF View, o
  <2>3. /\ IsTaker(Taker) /\ Taker.order = o /\ Taker.open = o.volume
        /\ Taker.revenue = 0 /\ Taker.price = 0 /\ Taker.done = FALSE
    BY <2>2, LiteralTaker DEF Abstract!Fresh
  <2>4. r.filled = 0 /\ r.price = 0 /\ r.revenue = 0
    <3>1. f.dummy => f.order_revenue = 0
      BY <1>1 DEF AccountInv, Accounted, RunPaid, RunPoints, f
    <3> QED
      BY <2>1, <3>1 DEF RunResponse, r
  <2>5. Taker' = [Taker EXCEPT !.error = 1, !.done = TRUE]
    <3>1. /\ IsTaker(Taker) /\ IsTaker(Taker') /\ Taker'.order = Taker.order
          /\ Taker'.open = Taker.open /\ Taker'.revenue = Taker.revenue
          /\ Taker'.price = Taker.price /\ Taker'.error = 1 /\ Taker'.done = TRUE
      BY <1>6, <1>8, <1>9, <2>3, <2>4 DEF OutOfRange
    <3> QED
      BY <3>1, RefusedTaker
  <2>6. PriceVolume' = PriceVolume
    BY <1>5, <2>1, VolumesStay
  <2>7. Taker # NoTaker
    BY <2>3, "done" \notin DOMAIN NoTaker DEF IsTaker, NoTaker
  <2> QED
    BY <1>5, <1>6, <1>9, <2>3, <2>5, <2>6, <2>7, <1>1
       DEF Abstract!Refuse, Abstract!Working, o
<1>10. CASE InRange(o, base_price)
  <2>1. /\ f.volume = o.volume /\ UsedPrice(o, base_price) = o.price
        /\ OutOfRange(o, base_price) = 0
    BY <1>2, <1>6, <1>10 DEF OutOfRange
  <2>2. /\ IsTaker(Taker) /\ Taker.order = o /\ Taker.open = o.volume - r.filled
        /\ Taker.open = (IF f.dummy THEN f.volume ELSE f.open_vol)
        /\ Taker.revenue = r.revenue /\ Taker.price = r.price
        /\ Taker.error = 0 /\ Taker.done = FALSE
    BY <1>1, <1>4, <2>1, RunTold DEF RunPoints, f, o, r
  <2>3. Taker' = [Taker EXCEPT !.done = TRUE]
    <3>1. Taker'.open = Taker.open /\ Taker'.error = Taker.error
      BY <1>8, <2>1, <2>2
    <3> QED
      BY <1>8, <2>2, <3>1, DoneTaker
  <2>4. Taker.open \in Int /\ ~Abstract!Trades
    <3>1. CASE f.dummy
      <4>1. Sound(mem_span, base_price, stats) /\ ~Crossed(o, stats, base_price)
        BY <1>1, <3>1 DEF AccountInv, IInv, ThreadSound, RunFits, RunSound, RunPoints, f, o
      <4>2. Taker.open = o.volume /\ o.price \in Int
        BY <1>6, <2>1, <2>2, <3>1 DEF UInts
      <4> QED
        BY <1>1, <1>5, <1>6, <1>10, <2>2, <4>1, <4>2, NotCrossing DEF AccountInv, o
    <3>2. CASE ~f.dummy
      <4>1. Taker.open = f.open_vol
        BY <2>2, <3>2
      <4>2. /\ f.open_vol \in Int
            /\ f.open_vol < 0 => \A i \in Buckets : ~ (mem_span[i] > 0)
            /\ f.open_vol > 0 => \A i \in Buckets : ~ (mem_span[i] < 0)
        BY <1>1, <3>2, RunOver DEF RunPoints, f
      <4> QED
        BY <1>5, <4>1, <4>2, NothingToTrade DEF AccountInv
    <3> QED
      BY <3>1, <3>2
  <2>5. PriceVolume' = [PriceVolume EXCEPT ![o.price] = @ + Taker.open]
    <3>1. unfilled = Taker.open
      BY <2>1, <2>2
    <3>2. o.volume = 0 => Taker.open = 0 /\ mem_span' = mem_span
      BY <1>2, <1>3, <2>1, <2>2
    <3>3. o.volume # 0 =>
            /\ o.price \in PricesOf(base_price)
            /\ mem_span' = [mem_span EXCEPT ![o.price - base_price] = @ + Taker.open]
      BY <1>3, <1>6, <1>10, <2>1, <3>1
    <3> QED
      BY <1>5, <1>6, <2>4, <3>2, <3>3, VolumeAdded DEF AccountInv
  <2>6. Taker # NoTaker
    BY <2>2, "done" \notin DOMAIN NoTaker DEF IsTaker, NoTaker
  <2> QED
    BY <1>5, <1>6, <1>10, <2>2, <2>3, <2>4, <2>5, <2>6, <1>1
       DEF Abstract!Rest, Abstract!Working, Abstract!Moved, o
<1> QED
  BY <1>9, <1>10

\* MarketOrder::handle_order ends: what is left of a market order is dropped.
LEMMA FinishMarketDrops ==
    ASSUME AccountInv, View, View', NEW t \in Threads, FinishMarket(t)
    PROVE  Abstract!Drop \/ NothingSeen
<1> DEFINE o == order[t]
           f == run[t]
           r == RunResponse(f, base_price)
<1>1. /\ pc[t] = "market_run" /\ pc'[t] = "leave"
      /\ base_price' = base_price /\ mem_span' = mem_span /\ order' = order
      /\ shift' = shift /\ ~Running(f)
  BY DEF FinishMarket, Goto, AccountInv, IInv, Typed
<1>2. LowPrice = base_price /\ LowPrice' = base_price
  BY <1>1, WindowStays, PointClasses
<1>3. PriceVolume' = PriceVolume
  BY <1>1, <1>2, VolumesStay
<1>4. t \in Processing /\ (t \in Processing)' /\ Handled(t)'
  BY <1>1 DEF Processing, FluxPoints, ShiftPoints, Handled
<1>5. Taker' = HandledTaker(o, ret'[t])
  <2>1. Taker' = HandledTaker(o, ret[t])'
    BY <1>1, <1>4 DEF View
  <2> QED
    BY <1>1, <2>1 DEF HandledTaker
<1>6. /\ o.type # "market" => ret'[t] = ret[t]
      /\ o.type = "market" => ret'[t] = r
      /\ r.error = 0 /\ o.type \in {"add", "withdraw", "market"}
  BY MarketAnswers, BlankForOthers DEF AccountInv, IInv
<1>7. CASE o.type # "market"
  <2>1. Handled(t)
    BY <1>1, <1>6, <1>7 DEF Handled
  <2>2. Taker = HandledTaker(o, ret[t])
    BY <1>4, <2>1 DEF View
  <2> QED
    BY <1>2, <1>3, <1>5, <1>6, <1>7, <2>2 DEF NothingSeen
<1>8. CASE o.type = "market"
  <2>1. ~Handled(t) /\ (Matching(t) <=> ~f.dummy)
    BY <1>1, <1>8 DEF Handled, Matching
  <2>2. f.volume = o.volume
    BY <1>1, <1>8, RunOrder
  <2>3. /\ IsTaker(Taker) /\ Taker.order = o /\ Taker.open = o.volume - r.filled
        /\ Taker.open = (IF f.dummy THEN f.volume ELSE f.open_vol)
        /\ Taker.revenue = r.revenue /\ Taker.price = r.price
        /\ Taker.error = 0 /\ Taker.done = FALSE
    BY <1>1, <1>4, <2>1, <2>2, RunTold DEF RunPoints
  <2> HIDE DEF o, f, r
  <2>4. /\ IsTaker(Taker') /\ Taker'.order = o /\ Taker'.open = o.volume - r.filled
        /\ Taker'.revenue = r.revenue /\ Taker'.price = r.price
        /\ Taker'.error = 0 /\ Taker'.done = TRUE
    BY <1>5, <1>6, <1>8, LiteralTaker DEF HandledTaker
  <2>5. Taker' = [Taker EXCEPT !.done = TRUE]
    <3>1. /\ IsTaker(Taker) /\ IsTaker(Taker') /\ Taker'.order = Taker.order
          /\ Taker'.open = Taker.open /\ Taker'.revenue = Taker.revenue
          /\ Taker'.price = Taker.price /\ Taker'.error = Taker.error
          /\ Taker'.done = TRUE
      BY <2>3, <2>4
    <3> QED
      BY <3>1, DoneTaker
  <2>6. ~Abstract!Trades
    <3>1. CASE f.dummy
      <4>1. /\ Sound(mem_span, base_price, stats) /\ f.volume \in Int
            /\ \/ f.volume = 0
               \/ f.volume < 0 /\ stats.best_offer = None
               \/ f.volume > 0 /\ stats.best_bid = None
        BY <1>1, <3>1 DEF AccountInv, IInv, Typed, ThreadSound, RunFits, RunSound,
           RunPoints, Accounted, RunPaid, Frames, f
      <4>2. /\ f.volume < 0 => \A i \in Buckets : ~ (mem_span[i] > 0)
            /\ f.volume > 0 => \A i \in Buckets : ~ (mem_span[i] < 0)
        BY <4>1 DEF Sound, BidsSound, OffersSound
      <4> QED
        BY <1>2, <2>3, <3>1, <4>1, <4>2, NothingToTrade DEF AccountInv
    <3>2. CASE ~f.dummy
      <4>1. Taker.open = f.open_vol
        BY <2>3, <3>2
      <4>2. /\ f.open_vol \in Int
            /\ f.open_vol < 0 => \A i \in Buckets : ~ (mem_span[i] > 0)
            /\ f.open_vol > 0 => \A i \in Buckets : ~ (mem_span[i] < 0)
        BY <1>1, <3>2, RunOver DEF RunPoints, f
      <4> QED
        BY <1>2, <4>1, <4>2, NothingToTrade DEF AccountInv
    <3> QED
      BY <3>1, <3>2
  <2>7. Taker # NoTaker
    BY <2>3, "done" \notin DOMAIN NoTaker DEF IsTaker, NoTaker
  <2> QED
    BY <1>2, <1>3, <1>8, <2>3, <2>5, <2>6, <2>7 DEF Abstract!Drop, Abstract!Working
<1> QED
  BY <1>7, <1>8

\* WithdrawLimitOrder::handle_order: a withdrawal is refused, or takes out no
\* more than there is.
LEMMA WithdrawTakesOut ==
    ASSUME AccountInv, View, View', NEW t \in Threads, Withdraw(t)
    PROVE  Abstract!Refuse \/ Abstract!TakeOut \/ NothingSeen
<1> DEFINE o == order[t]
           w == OrderFor("withdraw", o)
           taken == Withdrawn(w, mem_span, base_price)
           r == [price |-> 0, filled |-> taken, revenue |-> 0,
                 error |-> OutOfRange(w, base_price)]
<1>1. /\ pc[t] = "withdraw" /\ pc'[t] = "market"
      /\ base_price' = base_price /\ order' = order
      /\ mem_span' = WithdrawnMem(w, mem_span, base_price)
  BY DEF Withdraw, Goto, AccountInv, IInv, Typed
<1>2. LowPrice = base_price /\ LowPrice' = base_price
  BY <1>1, WindowStays, PointClasses
<1>3. /\ t \in Processing /\ ~Matching(t) /\ (t \in Processing)' /\ ~Matching(t)'
      /\ Handled(t) <=> o.type = "add"
      /\ Handled(t)' <=> o.type \in {"add", "withdraw"}
  BY <1>1 DEF Processing, FluxPoints, ShiftPoints, Handled, Matching
<1>4. /\ r \in WideResponses
      /\ o.type # "withdraw" => ret'[t] = ret[t]
      /\ o.type = "withdraw" => ret'[t] = r
      /\ ~InRange(w, base_price) => r = [NoResponse EXCEPT !.error = 1]
  BY WithdrawAnswers
<1>5. CASE o.type # "withdraw"
  <2>1. w.volume = 0
    BY <1>5, BlankForOthers DEF AccountInv, IInv
  <2>2. mem_span' = mem_span
    BY <1>1, <2>1 DEF WithdrawnMem
  <2>3. /\ Abstract!Fresh(order[t])' = Abstract!Fresh(order[t])
        /\ HandledTaker(order[t], ret[t])' = HandledTaker(order[t], ret[t])
    BY <1>1, <1>4, <1>5 DEF Abstract!Fresh, HandledTaker
  <2>4. Handled(t)' <=> Handled(t)
    BY <1>3, <1>5
  <2>5. Taker' = Taker
    BY <1>3, <2>3, <2>4 DEF View
  <2> QED
    BY <1>2, <2>2, <2>5, VolumesStay DEF NothingSeen
<1>6. CASE o.type = "withdraw"
  <2>1. w = o
    BY <1>6 DEF OrderFor
  <2>2. /\ Abstract!Accepted(o) <=> InRange(o, base_price)
        /\ InRange(o, base_price) =>
             UsedPrice(o, base_price) = o.price /\ UsedVolume(o, base_price) = o.volume
        /\ o.volume \in Int /\ o.price \in UInts
        /\ InRange(o, base_price) /\ o.volume # 0 => o.price \in PricesOf(base_price)
    BY <1>2, AcceptedInRange DEF AccountInv
  <2>3. Taker = Abstract!Fresh(o)
    BY <1>3, <1>6 DEF View
  <2>4. Taker' = HandledTaker(o, r)
    <3>1. Taker' = HandledTaker(o, ret[t])'
      BY <1>1, <1>3, <1>6 DEF View
    <3> QED
      BY <1>1, <1>4, <1>6, <3>1 DEF HandledTaker
  <2>5. taken \in Int
    BY <1>4 DEF WideResponses
  <2> HIDE DEF o, w, taken
  <2>6. /\ IsTaker(Taker) /\ Taker.order = o /\ Taker.open = o.volume
        /\ Taker.revenue = 0 /\ Taker.price = 0 /\ Taker.error = 0
        /\ Taker.done = FALSE
    BY <2>3, LiteralTaker DEF Abstract!Fresh
  <2>7. /\ IsTaker(Taker') /\ Taker'.order = o /\ Taker'.open = o.volume - taken
        /\ Taker'.revenue = 0 /\ Taker'.price = 0
        /\ Taker'.error = OutOfRange(w, base_price) /\ Taker'.done = TRUE
    BY <2>4, LiteralTaker DEF HandledTaker
  <2>8. Taker # NoTaker
    BY <2>6, "done" \notin DOMAIN NoTaker DEF IsTaker, NoTaker
  <2>9. CASE ~InRange(o, base_price)
    <3>1. taken = 0 /\ OutOfRange(w, base_price) = 1
      BY <1>4, <2>1, <2>9 DEF NoResponse
    <3>2. mem_span' = mem_span
      <4>1. o.volume # 0 /\ UsedPrice(o, base_price) = base_price
        BY <2>9 DEF InRange, UsedPrice
      <4>2. base_price - base_price = 0 /\ 0 \in Cells /\ mem_span[0] - 0 = mem_span[0]
        BY LengthAssumption DEF Cells, AccountInv, IInv, Typed, BaseFits
      <4>3. mem_span' = [mem_span EXCEPT ![0] = @ - 0]
        BY <1>1, <2>1, <3>1, <4>1, <4>2 DEF WithdrawnMem, taken
      <4> QED
        BY <4>2, <4>3 DEF AccountInv, IInv, Typed
    <3>3. /\ IsTaker(Taker) /\ IsTaker(Taker') /\ Taker'.order = Taker.order
          /\ Taker'.open = Taker.open /\ Taker'.revenue = Taker.revenue
          /\ Taker'.price = Taker.price /\ Taker'.error = 1 /\ Taker'.done = TRUE
      BY <2>2, <2>6, <2>7, <3>1
    <3>4. Taker' = [Taker EXCEPT !.error = 1, !.done = TRUE]
      BY <3>3, RefusedTaker
    <3>5. PriceVolume' = PriceVolume
      BY <1>2, <3>2, VolumesStay
    <3> QED
      BY <1>2, <1>6, <2>2, <2>6, <2>8, <2>9, <3>4, <3>5
         DEF Abstract!Refuse, Abstract!Working
  <2>10. CASE InRange(o, base_price)
    <3> DEFINE given == IF Taker.open = 0 THEN 0
                        ELSE Abstract!Given(PriceVolume[o.price], Taker.open)
               v == -taken
    <3>1. OutOfRange(w, base_price) = 0
      BY <2>1, <2>10 DEF OutOfRange
    <3>2. v \in Int /\ Taker.open - taken = o.volume - taken
      BY <2>5, <2>6
    <3>3. /\ given = taken
          /\ \/ v = 0 /\ mem_span' = mem_span
             \/ /\ o.price \in PricesOf(base_price)
                /\ mem_span' = [mem_span EXCEPT ![o.price - base_price] = @ + v]
      <4>1. CASE o.volume = 0
        <5>1. taken = 0 /\ mem_span' = mem_span
          BY <1>1, <2>1, <4>1 DEF Withdrawn, WithdrawnMem, taken
        <5>2. given = 0
          BY <2>6, <4>1, Zenon
        <5>3. v = 0
          <6>1. taken \in Int /\ taken + taken = taken
            BY <2>5, <5>1
          <6>2. -taken = taken
            BY <6>1
          <6> HIDE DEF v
          <6>3. v = taken
            BY <6>2 DEF v
          <6> QED
            BY <5>1, <6>3
        <5> HIDE DEF given, v
        <5> QED
          BY <5>1, <5>2, <5>3
      <4>2. CASE o.volume # 0
        <5> DEFINE i == o.price - base_price
        <5>1. o.price \in PricesOf(base_price) /\ i \in Buckets /\ i \in Cells
          BY <2>2, <2>10, <4>2, LengthAssumption
             DEF PricesOf, Buckets, Cells, AccountInv, IInv, BaseFits
        <5>2. mem_span[i] \in Int
          BY <5>1 DEF AccountInv, IInv, Typed
        <5> HIDE DEF i, v
        <5>3. /\ taken = Consumed(mem_span[i], o.volume)
              /\ mem_span' = [mem_span EXCEPT ![i] = @ - taken]
          BY <1>1, <2>1, <2>2, <2>10, <4>2 DEF Withdrawn, WithdrawnMem, taken, i
        <5>4. PriceVolume[o.price] = mem_span[i]
          BY <1>2, <2>2, <5>1 DEF PriceVolume, VolumeAt, i
        <5>5. given = taken
          BY <2>2, <2>6, <4>2, <5>2, <5>3, <5>4, GivenConsumed
        <5>6. mem_span[i] - taken = mem_span[i] + v
          BY <2>5, <5>2 DEF v
        <5>7. mem_span' = [mem_span EXCEPT ![i] = @ + v]
          BY <5>3, <5>6
        <5> QED
          BY <5>1, <5>5, <5>7 DEF i
      <4> QED
        BY <4>1, <4>2
    <3> HIDE DEF v
    <3>4. PriceVolume' = [PriceVolume EXCEPT ![o.price] = @ + v]
      BY <1>2, <2>2, <3>2, <3>3, VolumeAdded DEF AccountInv
    <3> DEFINE open2 == Taker.open - taken
    <3>5. Taker'.open = open2
      BY <2>7, <3>2
    <3> HIDE DEF open2
    <3>6. /\ IsTaker(Taker) /\ IsTaker(Taker') /\ Taker'.order = Taker.order
          /\ Taker'.open = open2 /\ Taker'.revenue = Taker.revenue
          /\ Taker'.price = Taker.price /\ Taker'.error = Taker.error
          /\ Taker'.done = TRUE
      BY <2>6, <2>7, <3>1, <3>5
    <3>7. Taker' = [Taker EXCEPT !.open = open2, !.done = TRUE]
      BY <3>6, WithdrawnTaker
    <3> HIDE DEF given
    <3>8. Taker' = [Taker EXCEPT !.open = @ - given, !.done = TRUE]
      BY <3>3, <3>7 DEF open2
    <3>9. PriceVolume' = [PriceVolume EXCEPT ![o.price] = @ + (-given)]
      BY <3>3, <3>4 DEF v
    <3> QED
      BY <1>2, <1>6, <2>2, <2>6, <2>8, <2>10, <3>8, <3>9
         DEF Abstract!TakeOut, Abstract!Working, Abstract!Moved, given
  <2> QED
    BY <2>9, <2>10
<1> QED
  BY <1>5, <1>6
-----------------------------------------------------------------------------
(***************************************************************************)
(* The book implements the abstract one.                                   *)
(***************************************************************************)
\* A step of a thread that holds the lock is a step of the abstract book or
\* is not seen there.
LEMMA HolderStepMatches ==
    ASSUME Discipline = Disciplines, AccountInv, AccountInv', View, View',
           NEW t \in Threads, HolderStep(t)
    PROVE  Abstract!Next \/ NothingSeen
<1>1. CASE \/ EnterOrder(t) \/ LeaveOrder(t) \/ StartAdd(t) \/ StartMarket(t)
           \/ EnterShift(t) \/ LeaveShift(t)
  <2>1. IInv /\ IInv'
    BY DEF AccountInv
  <2> QED
    BY <1>1, <2>1, PassageUnseen, StartAddUnseen, StartMarketUnseen,
       ShiftPassageUnseen
<1>2. CASE RunStep(t)
  BY <1>2, RunStepMatches DEF Abstract!Next
<1>3. CASE FinishAdd(t)
  BY <1>3, FinishAddOfOthers, FinishAddRests DEF Abstract!Next
<1>4. CASE Withdraw(t)
  BY <1>4, WithdrawTakesOut DEF Abstract!Next
<1>5. CASE FinishMarket(t)
  BY <1>5, FinishMarketDrops DEF Abstract!Next
<1>6. CASE MoveBuckets(t)
  BY <1>6, MoveBucketsShifts DEF Abstract!Next
<1>7. CASE MoveBase(t)
  BY <1>7, MoveBaseShifts DEF Abstract!Next
<1>8. CASE Unlock(t)
  BY <1>8, UnlockEnds DEF Abstract!Next
<1> QED
  BY <1>1, <1>2, <1>3, <1>4, <1>5, <1>6, <1>7, <1>8
     DEF HolderStep, OrderStep, ShiftStep

\* Every step of the threads is a step of the abstract book or none.
LEMMA BookStepMatches ==
    ASSUME Discipline = Disciplines
    PROVE  AccountInv /\ AccountInv' /\ View /\ View' /\ [Next]_vars =>
               [Abstract!Next]_<<PriceVolume, LowPrice, Taker>>
<1> SUFFICES ASSUME AccountInv, AccountInv', View, View', [Next]_vars
             PROVE  Abstract!Next \/ NothingSeen
  BY DEF NothingSeen
<1>1. CASE UNCHANGED vars
  <2>1. /\ base_price' = base_price /\ mem_span' = mem_span /\ pc' = pc
        /\ order' = order /\ run' = run /\ ret' = ret /\ shift' = shift
    BY <1>1 DEF vars
  <2>2. LowPrice' = LowPrice
    BY <2>1 DEF LowPrice, PendingShift
  <2>3. PriceVolume' = PriceVolume
    BY <2>1, <2>2, VolumesStay
  <2>4. Taker' = Taker
    BY <2>1 DEF Taker, Processing, Progress, Handled, Matching
  <2> QED
    BY <2>2, <2>3, <2>4 DEF NothingSeen
<1>2. ASSUME NEW t \in Threads, CallerStep(t)
      PROVE  Abstract!Next \/ NothingSeen
  <2>1. IInv
    BY DEF AccountInv
  <2> QED
    BY <1>2, <2>1, LockOrderBegins, CallShiftUnseen
       DEF CallerStep, Abstract!Next
<1> QED
  BY <1>1, <1>2, HolderStepMatches DEF Next

\* The empty book is the empty abstract book.
LEMMA BookBeginsEmpty ==
    ASSUME Discipline = Disciplines
    PROVE  Init => Abstract!Init
<1> SUFFICES ASSUME Init PROVE Abstract!Init
  OBVIOUS
<1>1. /\ \A t \in Threads : pc[t] = "idle"
      /\ \A i \in Buckets : mem_span[i] = 0
      /\ base_price \in UInts
  <2>1. IInv
    BY InvInit
  <2>2. \A t \in Threads : pc[t] = "idle"
    BY DEF Init
  <2>3. PICK w \in SlackValues :
          mem_span = [i \in Cells |-> IF i = BookLength THEN w ELSE 0]
    BY DEF Init
  <2>4. \A i \in Buckets : i \in Cells /\ i # BookLength
    BY LengthAssumption DEF Buckets, Cells
  <2>5. \A i \in Buckets : mem_span[i] = 0
    BY <2>3, <2>4
  <2> QED
    BY <2>1, <2>2, <2>5 DEF IInv, Typed
<1>2. View
  BY InvInit, Views
<1>3. Taker = NoTaker
  BY <1>1, <1>2 DEF View, Processing, FluxPoints, ShiftPoints
<1>4. LowPrice = base_price
  BY <1>1, <1>2 DEF View
<1>5. \A p \in UInts : VolumeAt(p, mem_span, LowPrice) = 0
  BY <1>1, <1>4 DEF VolumeAt, PricesOf, UInts, Buckets
<1> QED
  BY <1>1, <1>3, <1>4, <1>5 DEF Abstract!Init, PriceVolume

\* Whatever the threads do, the book matches one order after the other, the
\* best price first, and each response tells what was traded: the book with
\* its buckets, statistics, runs and shifts implements MatchingBook
\* (OrderBookHelpers.hpp:83-138, FIXMsgClasses.hpp:129-302).
THEOREM BookMatches ==
    ASSUME Discipline = Disciplines
    PROVE  Spec => MatchesBook
<1>1. AccountInv => View
  BY Views DEF AccountInv
<1> QED
  BY <1>1, BookBeginsEmpty, BookStepMatches, OrdersAccounted, PTL
     DEF MatchesBook, Abstract!Spec, Abstract!bookvars, Spec
=============================================================================
