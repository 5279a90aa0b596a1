------------------------- MODULE BookReadersProofs -------------------------
(***************************************************************************)
(* Proofs about BookReaders, for every number of writers and readers, every *)
(* size of the book and every input.                                       *)
(*                                                                         *)
(* A query that loads the same even version twice has read one state of    *)
(* the book.  The argument: the version never runs backwards (it does not  *)
(* wrap within the calls that are made), the book changes at odd versions  *)
(* only, and so what was read at a version that is even and still that of  *)
(* the book is what the book holds.                                        *)
(***************************************************************************)
EXTENDS BookReaders, OrderBookProofs

\* The version counter has room for the two ticks of a call in progress.
CallsFit ==
    \A t \in Threads :
        /\ pc[t] \in {"enter", "shift_enter"} => CallsLeft
        /\ pc[t] \in FluxPoints => version_counter < MaxVersion

\* The variables are functions of the readers; what is read may be anything.
QueryTypes ==
    /\ rpc \in [Readers -> {"idle"} \cup BidAskPoints \cup VolumePoints]
    /\ price \in [Readers -> UInts]
    /\ init_version \in [Readers -> 0..MaxVersion]
    /\ index = [r \in Readers |-> index[r]]
    /\ answer = [r \in Readers |-> answer[r]]

\* The version a query loaded first is even and still that of the book.
Current(r) == Readable /\ init_version[r] = version_counter

\* access_at_index for a price, and what the bucket of an index answers
IndexOf(p) == IF PriceInRange(p, base_price)
              THEN Min({UInt32(p - base_price), BookLength}) ELSE None
BucketAt(i) == IF i = None THEN 0 ELSE mem_span[i]

\* What a query has read is what the book holds, while its version is current.
QuerySound(r) ==
    /\ init_version[r] <= version_counter
    /\ rpc[r] \notin {"bucket", "check_volume"} => index[r] = None
    /\ Current(r) =>
         /\ rpc[r] = "best_offer" => answer[r] = <<stats.best_bid, None>>
         /\ rpc[r] = "check_bid_ask" =>
              answer[r] = <<stats.best_bid, stats.best_offer>>
         /\ rpc[r] = "top" => price[r] >= base_price
         /\ rpc[r] = "index" => PriceInRange(price[r], base_price)
         /\ rpc[r] \in {"bucket", "check_volume"} => index[r] = IndexOf(price[r])
         /\ rpc[r] = "check_volume" => answer[r] = <<BucketAt(index[r]), None>>

QueryInv ==
    /\ LockInv
    /\ CallsFit
    /\ QueryTypes
    /\ \A r \in Readers : QuerySound(r)
-----------------------------------------------------------------------------
(***************************************************************************)
(* The writers.                                                            *)
(***************************************************************************)
\* What the readers do leaves the book to its writers: every behaviour with
\* readers is one of OrderBook, and what is proved of Spec holds of it.
THEOREM ReadersLeaveBook == SpecReaders => Spec
<1>1. InitReaders => Init
  BY DEF InitReaders
<1>2. [NextReaders]_allvars => [Next]_vars
  <2> SUFFICES ASSUME [NextReaders]_allvars PROVE [Next]_vars
    OBVIOUS
  <2>1. CASE UNCHANGED allvars
    BY <2>1 DEF allvars
  <2>2. ASSUME NEW t \in Threads, WriterStep(t)
        PROVE  Next
    BY <2>2 DEF WriterStep, Next
  <2>3. ASSUME NEW r \in Readers,
               AskBidAsk(r) \/ (\E p \in Asked : AskVolume(r, p)) \/ ReaderStep(r)
        PROVE  UNCHANGED vars
    BY <2>3 DEF AskBidAsk, AskVolume, ReaderStep, BidAskStep, VolumeStep,
       LoadForBidAsk, ReadBestBid, ReadBestOffer, RetryBidAsk, ReturnBidAsk,
       LoadForVolume, TestBase, TestTop, ReadIndex, ReadBucket, RetryVolume,
       ReturnVolume
  <2> QED
    BY <2>1, <2>2, <2>3 DEF NextReaders
<1> QED
  BY <1>1, <1>2, PTL DEF SpecReaders, Spec

\* A step of a writer never turns the version back, and leaves the book alone
\* when it leaves an even version alone.
LEMMA WriterMoves ==
    ASSUME LockInv, CallsFit, NEW t \in Threads, WriterStep(t)
    PROVE  /\ CallsFit'
           /\ version_counter <= version_counter'
           /\ version_counter' = version_counter /\ Readable => UNCHANGED book
<1>1. /\ version_counter \in Int /\ MaxVersion \in Int
      /\ pc \in [Threads -> Points]
  BY BoundAssumption DEF LockInv, LockType
<1>2. pc[t] \in HeldPoints =>
        \A u \in Threads : u # t => pc[u] \notin HeldPoints
  BY DEF LockInv, WriterExclusion
<1>3. pc[t] \in FluxPoints => ~Readable
  BY DEF LockInv, WriterExclusion
<1>4. CASE CallerStep(t) /\ CallsLeft
  <2>1. UNCHANGED <<book, version_counter>>
    BY <1>4 DEF CallerStep, LockOrder, CallShift, LockShift, book
  <2> QED
    BY <1>1, <1>4, <2>1 DEF CallsFit, CallsLeft
<1>5. CASE EnterOrder(t) \/ EnterShift(t)
  <2>1. /\ pc[t] \in {"enter", "shift_enter"}
        /\ \E to \in FluxPoints : pc' = [pc EXCEPT ![t] = to]
        /\ version_counter' = Tick(version_counter)
    BY <1>5, PointClasses DEF EnterOrder, EnterShift, Goto
  <2>2. CallsLeft
    BY <2>1 DEF CallsFit
  <2>3. version_counter' = version_counter + 1 /\ version_counter' < MaxVersion
    BY <1>1, <2>1, <2>2 DEF CallsLeft, Tick
  <2>4. \A u \in Threads : pc'[u] \notin {"enter", "shift_enter"}
    BY <1>1, <1>2, <2>1, PointClasses
  <2> QED
    BY <1>1, <2>3, <2>4 DEF CallsFit
<1>6. CASE LeaveOrder(t) \/ LeaveShift(t)
  <2>1. /\ pc[t] \in FluxPoints
        /\ pc' = [pc EXCEPT ![t] = "unlock"]
        /\ version_counter' = Tick(version_counter)
    BY <1>6, PointClasses DEF LeaveOrder, LeaveShift, Goto
  <2>2. version_counter < MaxVersion
    BY <2>1 DEF CallsFit
  <2>3. version_counter' = version_counter + 1
    BY <1>1, <2>1, <2>2 DEF Tick
  <2>4. \A u \in Threads : pc'[u] \notin {"enter", "shift_enter"} \cup FluxPoints
    BY <1>1, <1>2, <2>1, PointClasses
  <2> QED
    BY <1>1, <2>3, <2>4 DEF CallsFit
<1>7. CASE \/ StartAdd(t) \/ RunStep(t) \/ FinishAdd(t) \/ Withdraw(t)
           \/ StartMarket(t) \/ FinishMarket(t) \/ MoveBuckets(t) \/ MoveBase(t)
  <2>1. /\ pc[t] \in FluxPoints
        /\ \E to \in FluxPoints : pc' = [pc EXCEPT ![t] = to]
        /\ version_counter' = version_counter
    <3>1. CASE RunStep(t)
      BY <1>1, <3>1, PointClasses DEF RunStep
    <3>2. CASE ~RunStep(t)
      BY <1>7, <3>2, PointClasses DEF StartAdd, FinishAdd, Withdraw,
         StartMarket, FinishMarket, MoveBuckets, MoveBase, Goto
    <3> QED
      BY <3>1, <3>2
  <2>2. version_counter < MaxVersion
    BY <2>1 DEF CallsFit
  <2>3. \A u \in Threads : pc'[u] \notin {"enter", "shift_enter"}
    BY <1>1, <1>2, <2>1, PointClasses
  <2> QED
    BY <1>1, <1>3, <2>1, <2>2, <2>3 DEF CallsFit
<1>8. CASE Unlock(t)
  <2>1. /\ pc' = [pc EXCEPT ![t] = "idle"] /\ pc[t] = "unlock"
        /\ UNCHANGED <<book, version_counter>>
    BY <1>8 DEF Unlock, Goto
  <2>2. \A u \in Threads : pc'[u] \notin {"enter", "shift_enter"} \cup FluxPoints
    BY <1>1, <1>2, <2>1, PointClasses
  <2> QED
    BY <1>1, <2>1, <2>2 DEF CallsFit
<1> QED
  BY <1>4, <1>5, <1>6, <1>7, <1>8
     DEF WriterStep, HolderStep, OrderStep, ShiftStep
-----------------------------------------------------------------------------
(***************************************************************************)
(* The invariant.                                                          *)
(***************************************************************************)
LEMMA QueryInit == InitReaders => QueryInv
<1> SUFFICES ASSUME InitReaders PROVE QueryInv
  OBVIOUS
<1>1. LockInv /\ (\A t \in Threads : pc[t] = "idle") /\ version_counter = 0
  BY LockInit DEF InitReaders, Init
<1>2. CallsFit
  BY <1>1, PointClasses DEF CallsFit
<1>3. 0 \in UInts /\ 0 \in 0..MaxVersion
  BY WidthAssumption, LengthAssumption, BoundAssumption DEF UInts
<1>4. QueryTypes
  BY <1>3 DEF InitReaders, QueryTypes
<1>5. \A r \in Readers :
        rpc[r] = "idle" /\ init_version[r] = 0 /\ index[r] = None
  BY DEF InitReaders
<1>6. \A r \in Readers : QuerySound(r)
  BY <1>1, <1>5 DEF QuerySound
<1> QED
  BY <1>1, <1>2, <1>4, <1>6 DEF QueryInv

\* What the writers do, a query may have to read again; what it has read at a
\* version that stays current stays true.
LEMMA QueryUnderWriter ==
    ASSUME QueryInv, NEW t \in Threads, WriterStep(t)
    PROVE  QueryInv'
<1>1. UNCHANGED queries
  BY DEF WriterStep
<1>2. LockInv'
  <2>1. Next
    BY DEF WriterStep, Next
  <2> QED
    BY <2>1, LockStep DEF QueryInv
<1>3. /\ CallsFit'
      /\ version_counter <= version_counter'
      /\ version_counter' = version_counter /\ Readable => UNCHANGED book
  BY WriterMoves DEF QueryInv
<1>4. QueryTypes'
  BY <1>1 DEF QueryInv, QueryTypes, queries
<1>5. version_counter \in Int /\ version_counter' \in Int
  BY <1>2 DEF QueryInv, LockInv, LockType
<1>6. ASSUME NEW r \in Readers
      PROVE  QuerySound(r)'
  <2>1. /\ QuerySound(r) /\ init_version[r] \in Int
        /\ init_version'[r] = init_version[r]
    BY <1>1 DEF QueryInv, QueryTypes, queries
  <2>2. (init_version[r] <= version_counter)'
    BY <1>3, <1>5, <2>1 DEF QuerySound
  <2>3. Current(r)' => Current(r) /\ UNCHANGED book
    BY <1>3, <1>5, <2>1 DEF QuerySound, Current, Readable
  <2> QED
    BY <1>1, <2>1, <2>2, <2>3
       DEF QuerySound, queries, book, IndexOf, BucketAt, PriceInRange
<1> QED
  BY <1>2, <1>3, <1>4, <1>6 DEF QueryInv

\* A step of one reader leaves the others and the book as they are.
LEMMA QueryStep ==
    ASSUME QueryInv, NEW r \in Readers, UNCHANGED vars, QueryTypes',
           \A q \in Readers : q # r =>
             /\ rpc'[q] = rpc[q] /\ price'[q] = price[q]
             /\ init_version'[q] = init_version[q]
             /\ index'[q] = index[q] /\ answer'[q] = answer[q],
           QuerySound(r)'
    PROVE  QueryInv'
<1>1. LockInv' /\ CallsFit'
  BY DEF QueryInv, LockInv, LockType, WriterExclusion, Readable, CallsFit,
     CallsLeft, vars
<1>2. ASSUME NEW q \in Readers, q # r
      PROVE  QuerySound(q)'
  <2>1. QuerySound(q)
    BY DEF QueryInv
  <2>2. /\ rpc'[q] = rpc[q] /\ price'[q] = price[q]
        /\ init_version'[q] = init_version[q]
        /\ index'[q] = index[q] /\ answer'[q] = answer[q]
    BY <1>2
  <2>3. /\ Current(q)' <=> Current(q)
        /\ base_price' = base_price /\ mem_span' = mem_span /\ stats' = stats
    BY <2>2 DEF Current, Readable, vars
  <2>4. version_counter' = version_counter
    BY DEF vars
  <2>5. /\ IndexOf(price[q])' = IndexOf(price[q])
        /\ BucketAt(index[q])' = BucketAt(index[q])
        /\ PriceInRange(price[q], base_price)' <=>
             PriceInRange(price[q], base_price)
    BY <2>2, <2>3 DEF IndexOf, BucketAt, PriceInRange
  <2> QED
    BY <2>1, <2>2, <2>3, <2>4, <2>5, Zenon DEF QuerySound
<1> QED
  BY <1>1, <1>2 DEF QueryInv

LEMMA BidAskKeeps ==
    ASSUME QueryInv, NEW r \in Readers, AskBidAsk(r) \/ BidAskStep(r)
    PROVE  QueryInv'
<1>1. /\ QueryTypes /\ QuerySound(r)
      /\ version_counter \in 0..MaxVersion /\ 0 \in 0..MaxVersion
  BY BoundAssumption DEF QueryInv, LockInv, LockType
<1>2. CASE AskBidAsk(r)
  <2>1. QueryTypes'
    BY <1>1, <1>2 DEF AskBidAsk, Ask, QueryTypes, BidAskPoints
  <2>2. QuerySound(r)'
    BY <1>1, <1>2 DEF AskBidAsk, Ask, QueryTypes, QuerySound, vars
  <2> QED
    BY <1>1, <1>2, <2>1, <2>2, QueryStep DEF AskBidAsk, Ask, QueryTypes
<1>3. CASE LoadForBidAsk(r)
  <2>1. QueryTypes'
    BY <1>1, <1>3 DEF LoadForBidAsk, Ask, QueryTypes, BidAskPoints
  <2>2. QuerySound(r)'
    BY <1>1, <1>3 DEF LoadForBidAsk, Ask, QueryTypes, QuerySound, vars
  <2> QED
    BY <1>1, <1>3, <2>1, <2>2, QueryStep DEF LoadForBidAsk, Ask, QueryTypes
<1>4. CASE ReadBestBid(r)
  <2>1. QueryTypes'
    BY <1>1, <1>4 DEF ReadBestBid, Ask, QueryTypes, BidAskPoints
  <2>2. QuerySound(r)'
    BY <1>1, <1>4 DEF ReadBestBid, Racing, Ask, QueryTypes, QuerySound, Current,
       Readable, vars
  <2> QED
    BY <1>1, <1>4, <2>1, <2>2, QueryStep DEF ReadBestBid, Ask, QueryTypes
<1>5. CASE ReadBestOffer(r)
  <2>1. QueryTypes'
    BY <1>1, <1>5 DEF ReadBestOffer, Ask, QueryTypes, BidAskPoints
  <2>2. QuerySound(r)'
    BY <1>1, <1>5 DEF ReadBestOffer, Racing, Ask, QueryTypes, QuerySound, Current,
       Readable, vars
  <2> QED
    BY <1>1, <1>5, <2>1, <2>2, QueryStep DEF ReadBestOffer, Ask, QueryTypes
<1>6. CASE RetryBidAsk(r) \/ ReturnBidAsk(r)
  <2>1. QueryTypes'
    BY <1>1, <1>6 DEF RetryBidAsk, ReturnBidAsk, Ask, QueryTypes, BidAskPoints
  <2>2. QuerySound(r)'
    BY <1>1, <1>6 DEF RetryBidAsk, ReturnBidAsk, Ask, QueryTypes, QuerySound, vars
  <2> QED
    BY <1>1, <1>6, <2>1, <2>2, QueryStep
       DEF RetryBidAsk, ReturnBidAsk, Ask, QueryTypes
<1> QED
  BY <1>2, <1>3, <1>4, <1>5, <1>6 DEF BidAskStep

LEMMA VolumeKeeps ==
    ASSUME QueryInv, NEW r \in Readers,
           (\E p \in Asked : AskVolume(r, p)) \/ VolumeStep(r)
    PROVE  QueryInv'
<1>1. /\ QueryTypes /\ QuerySound(r)
      /\ version_counter \in 0..MaxVersion /\ 0 \in 0..MaxVersion /\ 0 \in UInts
  BY BoundAssumption, WidthAssumption, LengthAssumption
     DEF QueryInv, LockInv, LockType, UInts
<1>2. ASSUME NEW p \in Asked, AskVolume(r, p)
      PROVE  QueryInv'
  <2>0. p \in UInts
    BY ReaderAssumption DEF UInts
  <2>1. QueryTypes'
    BY <1>1, <1>2, <2>0 DEF AskVolume, Ask, QueryTypes, VolumePoints
  <2>2. QuerySound(r)'
    BY <1>1, <1>2 DEF AskVolume, Ask, QueryTypes, QuerySound, vars
  <2> QED
    BY <1>1, <1>2, <2>1, <2>2, QueryStep DEF AskVolume, Ask, QueryTypes
<1>3. CASE LoadForVolume(r)
  <2>1. QueryTypes'
    BY <1>1, <1>3 DEF LoadForVolume, Ask, QueryTypes, VolumePoints
  <2>2. QuerySound(r)'
    BY <1>1, <1>3 DEF LoadForVolume, Ask, QueryTypes, QuerySound, vars
  <2> QED
    BY <1>1, <1>3, <2>1, <2>2, QueryStep DEF LoadForVolume, Ask, QueryTypes
<1>4. CASE TestBase(r) \/ TestTop(r) \/ ReadIndex(r)
  <2>1. QueryTypes'
    BY <1>1, <1>4 DEF TestBase, TestTop, ReadIndex, Ask, QueryTypes, VolumePoints
  <2>2. QuerySound(r)'
    <3>1. /\ Current(r)' <=> Current(r)
          /\ IndexOf(price[r])' = IndexOf(price[r])
          /\ version_counter' = version_counter /\ base_price' = base_price
          /\ init_version' = init_version /\ price' = price
      BY <1>4 DEF TestBase, TestTop, ReadIndex, IndexOf, PriceInRange, Current,
         Readable, vars
    <3>2. CASE TestBase(r)
      BY <1>1, <3>1, <3>2 DEF TestBase, Ask, QueryTypes, QuerySound, IndexOf,
         PriceInRange
    <3>3. CASE TestTop(r)
      BY <1>1, <3>1, <3>3 DEF TestTop, Ask, QueryTypes, QuerySound, IndexOf,
         PriceInRange
    <3>4. CASE ReadIndex(r)
      BY <1>1, <3>1, <3>4 DEF ReadIndex, Ask, QueryTypes, QuerySound, IndexOf,
         PriceInRange
    <3> QED
      BY <1>4, <3>2, <3>3, <3>4
  <2> QED
    BY <1>1, <1>4, <2>1, <2>2, QueryStep
       DEF TestBase, TestTop, ReadIndex, Ask, QueryTypes
<1>5. CASE ReadBucket(r)
  <2>1. QueryTypes'
    BY <1>1, <1>5 DEF ReadBucket, Ask, QueryTypes, VolumePoints
  <2>2. QuerySound(r)'
    BY <1>1, <1>5 DEF ReadBucket, Ask, QueryTypes, QuerySound, Current, Readable,
       IndexOf, BucketAt, vars
  <2> QED
    BY <1>1, <1>5, <2>1, <2>2, QueryStep DEF ReadBucket, Ask, QueryTypes
<1>6. CASE RetryVolume(r) \/ ReturnVolume(r)
  <2>1. QueryTypes'
    BY <1>1, <1>6 DEF RetryVolume, ReturnVolume, Ask, QueryTypes, VolumePoints
  <2>2. QuerySound(r)'
    BY <1>1, <1>6 DEF RetryVolume, ReturnVolume, Ask, QueryTypes, QuerySound, vars
  <2> QED
    BY <1>1, <1>6, <2>1, <2>2, QueryStep
       DEF RetryVolume, ReturnVolume, Ask, QueryTypes
<1> QED
  BY <1>2, <1>3, <1>4, <1>5, <1>6 DEF VolumeStep

\* What a query has read is what the book holds, as long as the version it
\* loaded is even and still that of the book: whatever the callers do.
THEOREM QueriesSound == SpecReaders => []QueryInv
<1>1. QueryInv /\ [NextReaders]_allvars => QueryInv'
  <2> SUFFICES ASSUME QueryInv, [NextReaders]_allvars PROVE QueryInv'
    OBVIOUS
  <2>1. CASE UNCHANGED allvars
    <3>1. LockInv' /\ CallsFit'
      BY <2>1 DEF QueryInv, LockInv, LockType, WriterExclusion, Readable,
         CallsFit, CallsLeft, vars, allvars
    <3>2. QueryTypes' /\ \A r \in Readers : QuerySound(r)'
      BY <2>1 DEF QueryInv, QueryTypes, QuerySound, Current, Readable, IndexOf,
         BucketAt, PriceInRange, vars, allvars, queries
    <3> QED
      BY <3>1, <3>2 DEF QueryInv
  <2>2. CASE NextReaders
    BY <2>2, QueryUnderWriter, BidAskKeeps, VolumeKeeps DEF NextReaders, ReaderStep
  <2> QED
    BY <2>1, <2>2
<1> QED
  BY <1>1, QueryInit, PTL DEF SpecReaders
-----------------------------------------------------------------------------
(***************************************************************************)
(* What the invariant means.                                               *)
(***************************************************************************)
\* A query that returns takes its own step.
LEMMA QueryReturns ==
    ASSUME QueryInv, NextReaders, NEW r \in Readers, rpc'[r] = "idle"
    PROVE  /\ rpc[r] = "check_bid_ask" => ReturnBidAsk(r)
           /\ rpc[r] = "check_volume" => ReturnVolume(r)
<1>1. rpc \in [Readers -> {"idle"} \cup BidAskPoints \cup VolumePoints]
  BY DEF QueryInv, QueryTypes
<1>2. ASSUME NEW t \in Threads, WriterStep(t)
      PROVE  rpc'[r] = rpc[r]
  BY <1>2 DEF WriterStep, queries
<1>3. ASSUME NEW q \in Readers, q # r,
             AskBidAsk(q) \/ (\E p \in Asked : AskVolume(q, p)) \/ ReaderStep(q)
      PROVE  rpc'[r] = rpc[r]
  BY <1>1, <1>3 DEF Ask, AskBidAsk, AskVolume, ReaderStep, BidAskStep, VolumeStep,
     LoadForBidAsk, ReadBestBid, ReadBestOffer, RetryBidAsk, ReturnBidAsk,
     LoadForVolume, TestBase, TestTop, ReadIndex, ReadBucket, RetryVolume,
       ReturnVolume
<1>4. CASE AskBidAsk(r) \/ (\E p \in Asked : AskVolume(r, p)) \/ ReaderStep(r)
  BY <1>1, <1>4 DEF Ask, AskBidAsk, AskVolume, ReaderStep, BidAskStep, VolumeStep,
     LoadForBidAsk, ReadBestBid, ReadBestOffer, RetryBidAsk, LoadForVolume,
     TestBase, TestTop, ReadIndex, ReadBucket, RetryVolume, ReturnBidAsk,
     ReturnVolume
<1> QED
  BY <1>2, <1>3, <1>4 DEF NextReaders

\* best_bid_ask returns the best bid and the best offer of one moment at which
\* no thread changes the book (OrderBook.hpp:203-211).
THEOREM BidAskTellsTruth == SpecReaders => BidAskTrue
<1> DEFINE A == \A r \in Readers :
                  rpc[r] = "check_bid_ask" /\ rpc'[r] = "idle" =>
                    /\ Readable
                    /\ answer[r] = <<stats.best_bid, stats.best_offer>>
<1>1. QueryInv /\ [NextReaders]_allvars => [A]_allvars
  <2> SUFFICES ASSUME QueryInv, NextReaders, NEW r \in Readers,
                      rpc[r] = "check_bid_ask", rpc'[r] = "idle"
               PROVE  /\ Readable
                      /\ answer[r] = <<stats.best_bid, stats.best_offer>>
    OBVIOUS
  <2>1. ReturnBidAsk(r)
    BY QueryReturns
  <2>2. Current(r)
    BY <2>1 DEF ReturnBidAsk, BidAskRejects, Current, Readable
  <2> QED
    BY <2>2 DEF QueryInv, QuerySound, Current
<1>2. BidAskTrue <=> [][A]_allvars
  BY PTL DEF BidAskTrue
<1> HIDE DEF A
<1> QED
  BY <1>1, <1>2, QueriesSound, PTL DEF SpecReaders

\* The index a query computes for a price that is not one past the last bucket
LEMMA IndexFits ==
    ASSUME BaseFits(base_price), NEW p \in UInts
    PROVE  p # UInt32(base_price + BookLength) =>
             IndexOf(p) = IF p - base_price \in Buckets
                          THEN p - base_price ELSE None
<1>1. /\ base_price \in Int /\ BookLength \in Int /\ HalfRange \in Int /\ p \in Int
      /\ 0 <= base_price /\ 0 < BookLength
      /\ UInt32(base_price + BookLength) = base_price + BookLength
  BY LengthAssumption, WidthAssumption DEF BaseFits, UInts, UInt32
<1> DEFINE i == p - base_price
<1>2. /\ i \in Int
      /\ 0 <= i /\ i <= BookLength => UInt32(i) = i
      /\ i <= BookLength => Min({i, BookLength}) = i
  BY <1>1, WidthAssumption, LengthAssumption DEF Min, UInt32
<1>3. PriceInRange(p, base_price) <=> 0 <= i /\ i <= BookLength
  BY <1>1 DEF PriceInRange
<1>4. p # base_price + BookLength <=> i # BookLength
  BY <1>1
<1> HIDE DEF i
<1>5. CASE 0 <= i /\ i <= BookLength
  <2>1. IndexOf(p) = i
    BY <1>2, <1>3, <1>5 DEF IndexOf, i
  <2>2. i # BookLength => i \in Buckets
    BY <1>1, <1>2, <1>5 DEF Buckets
  <2>3. p # UInt32(base_price + BookLength) => i # BookLength
    BY <1>1, <1>4
  <2> QED
    BY <2>1, <2>2, <2>3 DEF i
<1>6. CASE ~(0 <= i /\ i <= BookLength)
  <2>1. IndexOf(p) = None /\ i \notin Buckets
    BY <1>1, <1>2, <1>3, <1>6 DEF IndexOf, Buckets
  <2> QED
    BY <2>1 DEF i
<1> QED
  BY <1>5, <1>6

\* volume_at_price tells the truth of a price of the array when it returns
\* while no thread changes the book (OrderBook.hpp:222-233).
THEOREM QuietVolumesTrue ==
    ASSUME Discipline = Disciplines
    PROVE  SpecReaders => QuietVolumeTrue
<1> DEFINE A == \A r \in Readers :
                  /\ rpc[r] = "check_volume" /\ rpc'[r] = "idle"
                  /\ Readable
                  /\ price[r] # UInt32(base_price + BookLength)
                  => AnswerTrue(r)
<1>1. QueryInv /\ IInv /\ [NextReaders]_allvars => [A]_allvars
  <2> SUFFICES ASSUME QueryInv, IInv, NextReaders, NEW r \in Readers,
                      rpc[r] = "check_volume", rpc'[r] = "idle", Readable,
                      price[r] # UInt32(base_price + BookLength)
               PROVE  AnswerTrue(r)
    OBVIOUS
  <2>1. ReturnVolume(r)
    BY QueryReturns
  <2>2. Current(r)
    BY <2>1 DEF ReturnVolume, VolumeRejects, Current
  <2>3. answer[r][1] = BucketAt(IndexOf(price[r]))
    BY <2>2 DEF QueryInv, QuerySound
  <2>4. IndexOf(price[r]) = IF price[r] - base_price \in Buckets
                            THEN price[r] - base_price ELSE None
    BY IndexFits DEF QueryInv, QueryTypes, IInv
  <2>5. None \notin Buckets
    BY LengthAssumption DEF None, Buckets
  <2> QED
    BY <2>3, <2>4, <2>5 DEF AnswerTrue, VolumeAt, BucketAt
<1>2. QuietVolumeTrue <=> [][A]_allvars
  BY PTL DEF QuietVolumeTrue
<1> HIDE DEF A
<1> QED
  BY <1>1, <1>2, QueriesSound, ReadersLeaveBook, BookInvariant, PTL DEF SpecReaders
-----------------------------------------------------------------------------
(***************************************************************************)
(* The types of the readers, which rest on those of the book.              *)
(***************************************************************************)
LEMMA ReadTypes ==
    ASSUME IInv
    PROVE  /\ None \in Int /\ Torn \in Int /\ NoAnswer \in Int \X Int
           /\ stats.best_bid \in Int /\ stats.best_offer \in Int
           /\ mem_span \in [Cells -> Int]
           /\ BaseFits(base_price)
<1>1. /\ None \in Int /\ Torn \in Int /\ UInts \subseteq Int
      /\ stats \in Statistics /\ mem_span \in [Cells -> Int]
  BY WidthAssumption DEF None, Torn, UInts, IInv, Typed
<1>2. stats.best_bid \in OptPrices /\ stats.best_offer \in OptPrices
  BY <1>1 DEF Statistics
<1> QED
  BY <1>1, <1>2 DEF OptPrices, NoAnswer, IInv

\* The clamp of the index, whatever base price the difference is taken from
LEMMA ClampFits ==
    ASSUME NEW p \in UInts, NEW base \in UInts
    PROVE  Min({UInt32(p - base), BookLength}) \in Cells
<1> DEFINE i == UInt32(p - base)
<1>1. i \in Nat /\ BookLength \in Nat
  BY WidthAssumption, LengthAssumption DEF UInts, UInt32
<1> HIDE DEF i
<1>2. Min({i, BookLength}) \in 0..BookLength
  BY <1>1 DEF Min
<1> QED
  BY <1>2 DEF Cells, i

LEMMA TypesInit == InitReaders => ReadersTypeOK
<1> SUFFICES ASSUME InitReaders PROVE ReadersTypeOK
  OBVIOUS
<1>1. QueryTypes
  BY QueryInit DEF QueryInv
<1>2. None \in Int
  BY DEF None
<1> QED
  BY <1>1, <1>2 DEF InitReaders, QueryTypes, ReadersTypeOK, NoAnswer

LEMMA TypesStep ==
    IInv /\ ReadersTypeOK /\ QueryTypes' /\ [NextReaders]_allvars => ReadersTypeOK'
<1> SUFFICES ASSUME IInv, ReadersTypeOK, QueryTypes', [NextReaders]_allvars
             PROVE  ReadersTypeOK'
  OBVIOUS
<1> SUFFICES index' \in [Readers -> Cells \cup {None}] /\ answer' \in [Readers -> Int \X Int]
  BY DEF ReadersTypeOK, QueryTypes
<1>1. /\ index \in [Readers -> Cells \cup {None}]
      /\ answer \in [Readers -> Int \X Int] /\ price \in [Readers -> UInts]
  BY DEF ReadersTypeOK
<1>2. CASE UNCHANGED <<index, answer>>
  BY <1>1, <1>2
<1>3. ASSUME NEW r \in Readers, ReadBestBid(r) \/ ReadBestOffer(r)
      PROVE  /\ index' \in [Readers -> Cells \cup {None}]
             /\ answer' \in [Readers -> Int \X Int]
  <2>1. PICK a \in Int \X Int : answer' = [answer EXCEPT ![r] = a]
    <3>1. answer[r] \in Int \X Int
      BY <1>1
    <3>2. \A x \in Racing(stats.best_bid) : <<x, None>> \in Int \X Int
      BY ReadTypes DEF Racing
    <3>3. \A x \in Racing(stats.best_offer) : <<answer[r][1], x>> \in Int \X Int
      BY <3>1, ReadTypes DEF Racing
    <3> QED
      BY <1>3, <3>2, <3>3 DEF ReadBestBid, ReadBestOffer
  <2> QED
    BY <1>1, <1>3, <2>1 DEF ReadBestBid, ReadBestOffer
<1>4. ASSUME NEW r \in Readers, ReadIndex(r)
      PROVE  /\ index' \in [Readers -> Cells \cup {None}]
             /\ answer' \in [Readers -> Int \X Int]
  <2>1. price[r] \in UInts /\ base_price \in UInts
    BY <1>1, ReadTypes, WidthAssumption, LengthAssumption DEF BaseFits, UInts
  <2>2. Min({UInt32(price[r] - base_price), BookLength}) \in Cells
    BY <2>1, ClampFits
  <2> QED
    BY <1>1, <1>4, <2>2 DEF ReadIndex
<1>5. ASSUME NEW r \in Readers, ReadBucket(r)
      PROVE  /\ index' \in [Readers -> Cells \cup {None}]
             /\ answer' \in [Readers -> Int \X Int]
  <2>1. index[r] \in Cells \cup {None}
    BY <1>1
  <2>2. BucketAt(index[r]) \in Int
    BY <2>1, ReadTypes DEF BucketAt
  <2>3. <<BucketAt(index[r]), None>> \in Int \X Int
    BY <2>2, ReadTypes
  <2> QED
    BY <1>1, <1>5, <2>3 DEF ReadBucket, BucketAt
<1>6. ASSUME NEW r \in Readers,
             RetryBidAsk(r) \/ ReturnBidAsk(r) \/ RetryVolume(r) \/ ReturnVolume(r)
      PROVE  /\ index' \in [Readers -> Cells \cup {None}]
             /\ answer' \in [Readers -> Int \X Int]
  <2>1. answer' = [answer EXCEPT ![r] = NoAnswer]
    BY <1>6 DEF RetryBidAsk, ReturnBidAsk, RetryVolume, ReturnVolume
  <2>2. index' \in {index, [index EXCEPT ![r] = None]}
    BY <1>6 DEF RetryBidAsk, ReturnBidAsk, RetryVolume, ReturnVolume
  <2> QED
    BY <1>1, <2>1, <2>2, ReadTypes
<1>7. CASE UNCHANGED allvars \/ \E t \in Threads : WriterStep(t)
  BY <1>2, <1>7 DEF allvars, queries, WriterStep
<1>8. ASSUME NEW r \in Readers,
             \/ AskBidAsk(r) \/ (\E p \in Asked : AskVolume(r, p))
             \/ LoadForBidAsk(r) \/ LoadForVolume(r) \/ TestBase(r) \/ TestTop(r)
      PROVE  UNCHANGED <<index, answer>>
  BY <1>8 DEF AskBidAsk, AskVolume, LoadForBidAsk, LoadForVolume, TestBase, TestTop
<1> QED
  BY <1>2, <1>3, <1>4, <1>5, <1>6, <1>7, <1>8
     DEF NextReaders, ReaderStep, BidAskStep, VolumeStep

\* Every variable of a reader holds a value of the type it has in the code:
\* whatever shifts come between the three reads of base_price, the index is
\* one of the array or of the word behind it, so volume_at_price reads no
\* further than that (OrderBook.hpp:222-233).
THEOREM ReadersTyped ==
    ASSUME Discipline = Disciplines
    PROVE  SpecReaders => []ReadersTypeOK
<1>1. QueryInv => QueryTypes
  BY DEF QueryInv
<1> QED
  BY <1>1, TypesInit, TypesStep, QueriesSound, ReadersLeaveBook, BookInvariant, PTL
     DEF SpecReaders
=============================================================================
