---------------------------- MODULE BookReaders ----------------------------
(***************************************************************************)
(* The lock-free queries of the order book, best_bid_ask and               *)
(* volume_at_price of src/production/OrderBook.hpp, among the writers of   *)
(* module OrderBook.                                                       *)
(*                                                                         *)
(* A query takes no lock.  It loads version_counter, reads the book, loads *)
(* version_counter again and starts over when the two loads tell it to.    *)
(* Each load is a step of its own.  The project is built for x86-64, where *)
(* the loads of a thread are not reordered.                                *)
(***************************************************************************)
EXTENDS OrderBook

CONSTANTS
    Readers,      \* the threads that query the book
    Asked         \* the prices they ask volume_at_price for

ASSUME ReaderAssumption ==
    /\ Readers \cap Threads = {}
    /\ Asked \subseteq 0..(2 * HalfRange - 1)

VARIABLES
    rpc,           \* where each reader is in its query
    price,         \* the argument of volume_at_price
    init_version,  \* the version loaded first
    index,         \* access_at_index, None when the price is not in range
    answer         \* the two prices, or the volume, read so far

queries == <<rpc, price, init_version, index, answer>>
allvars == <<vars, queries>>

\* What a read of an optional gives that races with a write to it: neither
\* the old value nor the new one has to be read.
Torn == -2
Racing(x) == IF Readable THEN {x} ELSE {x, Torn}

NoAnswer == <<None, None>>

Ask(r, from, to) == rpc[r] = from /\ rpc' = [rpc EXCEPT ![r] = to]
-----------------------------------------------------------------------------
(***************************************************************************)
(* best_bid_ask                                                            *)
(***************************************************************************)
AskBidAsk(r) ==
    /\ Ask(r, "idle", "bid_ask")
    /\ UNCHANGED <<vars, price, init_version, index, answer>>

LoadForBidAsk(r) ==
    /\ Ask(r, "bid_ask", "best_bid")
    /\ init_version' = [init_version EXCEPT ![r] = version_counter]
    /\ UNCHANGED <<vars, price, index, answer>>

ReadBestBid(r) ==
    /\ Ask(r, "best_bid", "best_offer")
    /\ \E x \in Racing(stats.best_bid) :
           answer' = [answer EXCEPT ![r] = <<x, None>>]
    /\ UNCHANGED <<vars, price, init_version, index>>

ReadBestOffer(r) ==
    /\ Ask(r, "best_offer", "check_bid_ask")
    /\ \E x \in Racing(stats.best_offer) :
           answer' = [answer EXCEPT ![r] = <<@[1], x>>]
    /\ UNCHANGED <<vars, price, init_version, index>>

\* Slip: an odd version is as good as an even one
BidAskRejectsChange(init, fin) == init # fin

\* The condition of the loop of best_bid_ask
BidAskRejects(init, fin) == init % 2 # 0 \/ init # fin

\* Slip: the next round compares with the version of the first
RetryBidAskWithoutLoad(r) ==
    /\ Ask(r, "check_bid_ask", "best_bid")
    /\ BidAskRejects(init_version[r], version_counter)
    /\ answer' = [answer EXCEPT ![r] = NoAnswer]
    /\ UNCHANGED <<vars, price, init_version, index>>

\* What was read is overwritten by the next round.
RetryBidAsk(r) ==
    /\ Ask(r, "check_bid_ask", "bid_ask")
    /\ BidAskRejects(init_version[r], version_counter)
    /\ answer' = [answer EXCEPT ![r] = NoAnswer]
    /\ UNCHANGED <<vars, price, init_version, index>>

ReturnBidAsk(r) ==
    /\ Ask(r, "check_bid_ask", "idle")
    /\ ~BidAskRejects(init_version[r], version_counter)
    /\ answer' = [answer EXCEPT ![r] = NoAnswer]
    /\ init_version' = [init_version EXCEPT ![r] = 0]
    /\ UNCHANGED <<vars, price, index>>
-----------------------------------------------------------------------------
(***************************************************************************)
(* volume_at_price                                                         *)
(***************************************************************************)
AskVolume(r, p) ==
    /\ Ask(r, "idle", "volume")
    /\ price' = [price EXCEPT ![r] = p]
    /\ UNCHANGED <<vars, init_version, index, answer>>

LoadForVolume(r) ==
    /\ Ask(r, "volume", "base")
    /\ init_version' = [init_version EXCEPT ![r] = version_counter]
    /\ UNCHANGED <<vars, price, index, answer>>

\* base_price is no atomic: the code reads it three times, for the two ends of
\* the range and for the index, and a shift may come between any two of them.
\* access_at_index of a price that is not in range is never used.
TestBase(r) ==
    /\ Ask(r, "base", IF price[r] >= base_price THEN "top" ELSE "bucket")
    /\ UNCHANGED <<vars, price, init_version, index, answer>>

TestTop(r) ==
    /\ Ask(r, "top", IF price[r] <= UInt32(base_price + BookLength)
                     THEN "index" ELSE "bucket")
    /\ UNCHANGED <<vars, price, init_version, index, answer>>

\* Slip: the index is taken for right, since the price is in range
ReadIndexUnclamped(r) ==
    /\ Ask(r, "index", "bucket")
    /\ index' = [index EXCEPT ![r] = UInt32(price[r] - base_price)]
    /\ UNCHANGED <<vars, price, init_version, answer>>

\* The difference wraps around when the base price has passed the price.
ReadIndex(r) ==
    /\ Ask(r, "index", "bucket")
    /\ index' = [index EXCEPT ![r] =
                   Min({UInt32(price[r] - base_price), BookLength})]
    /\ UNCHANGED <<vars, price, init_version, answer>>

ReadBucket(r) ==
    /\ Ask(r, "bucket", "check_volume")
    /\ answer' = [answer EXCEPT ![r] =
                    <<IF index[r] = None THEN 0 ELSE mem_span[index[r]], None>>]
    /\ UNCHANGED <<vars, price, init_version, index>>

\* Slip: the second load is forgotten
VolumeRejectsFirst(init, fin) == init = 0

\* The condition of the loop of volume_at_price: !init_version % 2 is
\* (!init_version) % 2, which is true for version 0 only.
VolumeRejects(init, fin) == init = 0 \/ init # fin

\* Slip: the next round compares with the version of the first
RetryVolumeWithoutLoad(r) ==
    /\ Ask(r, "check_volume", "base")
    /\ VolumeRejects(init_version[r], version_counter)
    /\ answer' = [answer EXCEPT ![r] = NoAnswer]
    /\ index' = [index EXCEPT ![r] = None]
    /\ UNCHANGED <<vars, price, init_version>>

RetryVolume(r) ==
    /\ Ask(r, "check_volume", "volume")
    /\ VolumeRejects(init_version[r], version_counter)
    /\ answer' = [answer EXCEPT ![r] = NoAnswer]
    /\ index' = [index EXCEPT ![r] = None]
    /\ UNCHANGED <<vars, price, init_version>>

ReturnVolume(r) ==
    /\ Ask(r, "check_volume", "idle")
    /\ ~VolumeRejects(init_version[r], version_counter)
    /\ answer' = [answer EXCEPT ![r] = NoAnswer]
    /\ index' = [index EXCEPT ![r] = None]
    /\ init_version' = [init_version EXCEPT ![r] = 0]
    /\ price' = [price EXCEPT ![r] = 0]
    /\ UNCHANGED vars
-----------------------------------------------------------------------------
InitReaders ==
    /\ Init
    /\ rpc = [r \in Readers |-> "idle"]
    /\ price = [r \in Readers |-> 0]
    /\ init_version = [r \in Readers |-> 0]
    /\ index = [r \in Readers |-> None]
    /\ answer = [r \in Readers |-> NoAnswer]

BidAskStep(r) ==
    \/ LoadForBidAsk(r) \/ ReadBestBid(r) \/ ReadBestOffer(r)
    \/ RetryBidAsk(r) \/ ReturnBidAsk(r)

VolumeStep(r) ==
    \/ LoadForVolume(r) \/ TestBase(r) \/ TestTop(r) \/ ReadIndex(r)
    \/ ReadBucket(r) \/ RetryVolume(r) \/ ReturnVolume(r)

ReaderStep(r) == BidAskStep(r) \/ VolumeStep(r)

\* Bound: the writers make no more calls than the version counter, a 64-bit
\* integer, counts without wrapping around.
CallsLeft == version_counter + 1 < MaxVersion

WriterStep(t) ==
    /\ \/ CallerStep(t) /\ CallsLeft
       \/ HolderStep(t)
    /\ UNCHANGED queries

NextReaders ==
    \/ \E t \in Threads : WriterStep(t)
    \/ \E r \in Readers :
         AskBidAsk(r) \/ (\E p \in Asked : AskVolume(r, p)) \/ ReaderStep(r)

SpecReaders == InitReaders /\ [][NextReaders]_allvars

\* Every thread inside a call of the book is scheduled.
FairReaders ==
    /\ SpecReaders
    /\ \A t \in Threads : WF_allvars(HolderStep(t) /\ UNCHANGED queries)
    /\ \A r \in Readers : WF_allvars(ReaderStep(r))
-----------------------------------------------------------------------------
(***************************************************************************)
(* Properties.                                                             *)
(***************************************************************************)
BidAskPoints == {"bid_ask", "best_bid", "best_offer", "check_bid_ask"}
VolumePoints == {"volume", "base", "top", "index", "bucket", "check_volume"}

\* Every variable of a reader holds a value of the type it has in the code, and
\* whatever shifts come between the reads of base_price, the index is that of
\* a bucket or of the word behind them (OrderBook.hpp:225-229).
ReadersTypeOK ==
    /\ rpc \in [Readers -> {"idle"} \cup BidAskPoints \cup VolumePoints]
    /\ price \in [Readers -> UInts]
    /\ init_version \in [Readers -> 0..MaxVersion]
    /\ index \in [Readers -> Cells \cup {None}]
    /\ answer \in [Readers -> Int \X Int]

\* best_bid_ask returns the best bid and the best offer of one moment at
\* which no thread changes the book: the moment of the second load of the
\* version (OrderBook.hpp:203-211).
BidAskTrue ==
    [][\A r \in Readers :
         rpc[r] = "check_bid_ask" /\ rpc'[r] = "idle" =>
             /\ Readable
             /\ answer[r] = <<stats.best_bid, stats.best_offer>>]_allvars

\* Volumes as a query at this moment should tell them
AnswerTrue(r) == answer[r][1] = VolumeAt(price[r], mem_span, base_price)

\* volume_at_price "returns volume contained in order book at price specified
\* by argument" (readme.md) at a moment at which no thread changes the book
\* ("set version counter to odd value to invalidate reads while order book
\* is manipulated", OrderBook.hpp:178-179).
VolumeTrue ==
    [][\A r \in Readers :
         rpc[r] = "check_volume" /\ rpc'[r] = "idle" =>
             Readable /\ AnswerTrue(r)]_allvars

\* No volume is read behind the array, even "if volume is read while book is in
\* the process of shifting" (OrderBook.hpp:227-229).  It does not hold (README,
\* section 3).
ReadsInside ==
    \A r \in Readers : rpc[r] = "bucket" => index[r] \in Buckets \cup {None}

\* A query for a price of the array that returns while no thread changes the
\* book tells the truth: two equal loads enclose no change of the book, nor a
\* shift between the reads of the base price and the read of the bucket
\* (OrderBook.hpp:222-233).
QuietVolumeTrue ==
    [][\A r \in Readers :
         /\ rpc[r] = "check_volume" /\ rpc'[r] = "idle"
         /\ Readable
         /\ price[r] # UInt32(base_price + BookLength)
         => AnswerTrue(r)]_allvars

\* Once the writers leave the book alone every best_bid_ask returns
\* (OrderBook.hpp:204-210).
BidAskReturns ==
    <>[]Readable =>
        \A r \in Readers : rpc[r] \in BidAskPoints ~> rpc[r] = "idle"

\* So does every volume_at_price ("supports lock-free queries for volume",
\* readme.md), but only of a book that was ever written: on version 0 its loop
\* never ends (OrderBook.hpp:222-232).
UsedBookVolumeReturns ==
    <>[](Readable /\ version_counter # 0) =>
        \A r \in Readers : rpc[r] \in VolumePoints ~> rpc[r] = "idle"
=============================================================================
