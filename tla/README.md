# A formal model of CppOrderBook2

TLA+ modules for the order book, its lock-free queries, the socket handler, the
seqlock queue, the two-threaded harness, the guards of atomic flags and the
compile-time checks of message types of this repository, with the TLC runs that
check them and the proofs that TLAPS checks. Paths are relative to the root of the
repository; a bare file name is under `src/production`.

## 1. The system

| component | state | operations | interacts with |
|---|---|---|---|
| `OrderBook` (`OrderBook.hpp`), writers | base price, array of buckets, four optional prices (`stats_array`), `modify_lock`, `version_counter` | `process_order`, `shift_book` | handlers (calls), queries (shared memory), every thread that holds a reference |
| order handlers (`FIXMsgClasses.hpp`, `OrderBookHelpers.hpp`, `OrderBookBucket.hpp`) | none of their own: they change the buckets and the statistics | `handle_order` of add, withdraw and market orders, `run_through_book`, `find_liquid_bucket`, `consume_liquidity` | called inside the lock |
| `OrderBook`, queries | none | `best_bid_ask`, `volume_at_price` | read what writers change, guarded by the version counter |
| `AtomicFlagGuard` (`Guards.hpp`) | pointer to a flag, whether it locked it | `lock`, `unlock`, `rebind`, moves | the flag shared by all writers |
| `SeqLockQueue` (`dependencies/SeqLockQueue`) | ring of elements with a version each, `enqueue_index`; per reader `read_index`, `prev_version` | `enqueue`, `read_next_entry` | one writer thread, any number of reader threads |
| two-threaded harness (`src/testing/Record_latencies_multithreaded.cpp`) | `signal_flag`, `end_of_buffer` | the enqueueing thread, the main thread | socket, queue, book |
| `FIXSocketHandler` | a buffer of 18 bytes | `read_next_message`: framing, resynchronisation on the delimiter, discarding of long messages, checksum | a socket; hands messages on |
| `FIXMockSocket` (tests) | a byte stream and an index | `recv` | sets `end_of_buffer` |
| `FIXMsgTypeChecks`, `TMP_lib` | none: they run in the compiler, over packs of message types | `MsgConsistencyCheck_v`, `has_FIX_msg_handling_interface`, `determine_max_msg_len`, ... | decide which packs the book and the handler take, and how large the handler's buffer is |
| `Auxil`, `SLQ_Auxil` | none | alignments, text to numbers, words of an element | used by all of the above |

What is hard here: writers exclude each other by a spin lock but queries do
not take it; the four statistics are maintained step by step by three handlers
and by every order (blank orders of the other two types go through their
handlers too); prices are unsigned where they are stored and signed where they
are subtracted; the range tests are inclusive at both ends; a shift reads the
base price before it has the lock; the queue lets its writer overtake its
readers; the socket handler looks for a header in a buffer that it shifts and
refills, and must read neither a byte too few nor one too many; the end of the
stream is announced by a flag that races with the queue; a guard may be moved
or bound to another flag while it holds one; and the handler frames every
message by the layout of the first type of its pack, which is right only if the
compile-time checks let no other pack pass.

What makes each part right:

- **writers**: one at a time; whenever the version is even the book is not
  crossed, each statistic is exactly the end of the demand or the supply it is
  named for, and the code's own `__invariants_check` finds nothing; only
  buckets of the array are touched; a shift loses no volume and never wraps
  the base price; an order out of range changes nothing and says so; an order
  takes the best price first, and its response tells what it filled; every
  call that has the lock gives it back.
- **guards**: a flag is set exactly when one guard, and no second one, holds
  it, through every sequence of locks, rebinds and moves.
- **queries**: what is returned was true at one moment of the call; only the
  array is read; the query returns once the writers rest.
- **queue**: no message is seen in parts, none twice or out of order, none is
  lost but by being overtaken; a reader that goes on reading catches up.
- **socket handler**: every message of the stream is answered by one call,
  whole and in order, and by an empty result if it is of no known type or its
  checksum is wrong; bytes between messages are passed over; `recv` never writes
  outside the buffer; the stream is read to its end and no further. All this is
  checked and proved for streams in which the bytes of the delimiter occur in
  headers only.
- **type checks**: a pack of message types is taken exactly if its types can be
  told apart by their lengths, share one layout, and can be constructed and
  handled; every two types are compared.
- **harness**: both threads end and the book has processed every message.

## 2. The modules

### OrderBook.tla

The book as its writers see it. The variables carry the names of the code:
`base_price`, `mem_span`, `stats` (a record of the four optionals, an empty
one is `None = -1`, which is what `value_or(-1)` makes of it),
`modify_lock`, `version_counter`. For each thread there are its program
counter and the locals that live across steps: `order`, `run` (the locals of
`run_through_book`), `ret`, `shift` (the locals of `shift_book`).
`mem_span` has one cell more than the array: the word behind it, which the
code reaches through its inclusive range tests. Its initial contents are
arbitrary (`SlackValues`).

`process_order` is the chain `LockOrder`, `EnterOrder` (version becomes odd),
`StartAdd`, `RunStep`*, `FinishAdd`, `Withdraw`, `StartMarket`, `RunStep`*,
`FinishMarket`, `LeaveOrder` (even again), `Unlock`. All three handlers run
for every order, two of them on blank orders, as in
`call_order_handle_methods`. One iteration of the loop of `run_through_book`
is one `RunStep`. `shift_book` is `CallShift` (the test of the base price,
before the lock), `LockShift`, `EnterShift` (the decision), `MoveBuckets`,
`MoveBase`, `LeaveShift`, `Unlock`. A failing `test_and_set` changes nothing
and is no step.

Signed and unsigned 32-bit integers are modelled with their width:
`HalfRange` stands for 2^31, `Int32` and `UInt32` are the conversions. The
volumes are unbounded integers, see the bounds below. A price sum or revenue
in a response is not reduced to its width.

**Disciplines.** The code keeps its promises only to callers that observe some
restrictions it does not state. They are named in `Disciplines`, and the
constant `Discipline` says which ones a run's callers observe:

| name | the callers | left out in run |
|---|---|---|
| `inner_price` | send no order priced exactly `base_price + book_length` | `book_outer` |
| `clear_edges` | shift only when the buckets that are vacated are empty | `book_edges` |
| `clear_top` | shift down only when no volume would end one past the array | none, see below |
| `lone_shift` | have one thread at a time inside `shift_book` | `book_race` |
| `narrow_price` | keep all prices of the book below 2^31 | none, see below |

With all five every safety property below holds; each of the three runs that
leave one out ends in a violation. The other two are not superfluous either,
though they have no run of their own. In `OrderBook_outer.cfg`, changed as said and
with the property named in place of its own, TLC finds

- with `Discipline <- AllButClearTop` and `Shifts <- SmallShifts`, that
  `ShiftKeepsVolume` does not hold: `max_price` (`OrderBook.hpp:247`) is one past
  the last price, so that `free_buckets_top` is one too large and a shift down can
  push the highest volume out of the array, against `readme.md:249`. It is the
  same price that `book_outer` shows to be taken for one of the book's;
- with `Discipline <- AllButNarrowPrice`, `HalfRange = 8`, `BasePrices = {8}` and
  `Prices = {8, 9, 10, 11}`, that `StatsExact` does not hold: a price of
  `HalfRange` or more is negative in `run_through_book`, so that a crossing order
  is taken for one that does not cross (`dummy_run`, `OrderBookHelpers.hpp:90`),
  comes to rest and leaves the book crossed, against `readme.md:238`.

`ShiftPossible` has the conversions of the code: `free_buckets_bottom` is a
difference of a signed and an unsigned integer (`OrderBook.hpp:251-254`), which
wraps and is converted back.

`RefusedResponse` says of every order, when its call is about to give the lock
back, that its error is 1 and the rest of its response 0 if its price lies outside
the array (`Outside`), and that its error is 0 if it does not; the price one past
the last bucket, which the code takes for inside, is excluded by `inner_price`.

### MatchingBook.tla and BookRefinement.tla

`MatchingBook` is what the book promises, without array, statistics, threads or
lock: a volume at every price, a window of prices that orders may name, and one
order (`taker`) after the other that takes from the best price of the other
side (`Match`), comes to rest (`Rest`), is dropped, takes volume out or is
refused, with the response it has earned so far. `BookRefinement` extends
`OrderBook` by the mapping: `PriceVolume` reads the array through the base
price, and through the one to come while a shift has moved the buckets and not
yet the price (`PendingShift`); `Taker` is the order of the thread inside the
lock, and `Progress` what the locals of the handler say of it. A step of the
loop that meets an empty bucket is a stutter, one that meets volume is a
`Match`; the handlers of the blank orders are stutters. `MatchesBook` is
`MatchingBook!Spec`. An order added to the book begins to trade only when the
best price of the other side is as good as its own, and then goes on at any
price: that is what the code does (section 3).

### FlagGuard.tla

`AtomicFlagGuard` with all its operations, for any number of guards, each a
local variable of one thread, and of flags that the threads share. `lock` is
`CallLock` and the `test_and_set` that succeeds, `Acquire`; in between the
thread spins (`locking`) and does nothing else. `Unlock`, `Rebind`, `Destroy`,
`MoveAssign` have one access to a flag at most, so that a step each is enough.
A guard that is moved to itself loses its flag, as in the code. `OrderBook`
has the one use the program makes of a guard, built into its steps.

`Deadlocked(S)` is a set of guards whose threads wait for each other in a ring:
one thread that locks a flag it already holds by another guard, or several
threads. `DeadlockLasts` says that no step of any thread ends that. It does not
speak of a guard that is locked twice itself: the readme has `lock` return false
then, which is `RelockReturns` and does not hold (section 3).

### BookReaders.tla

Extends `OrderBook` by threads that query it. Each load is a step: the
version, the best bid, the best offer, the version again; and the version, the
base price three times, the bucket, the version again. `volume_at_price` reads
the plain member `base_price` for the lower and for the upper end of the range
test and once more for the index (`TestBase`, `TestTop`, `ReadIndex`), so a shift
may come between any two of them; the index, an unsigned difference, is then
clamped to `book_length` (`OrderBook.hpp:227-229`), which is one past the last
bucket (section 3). A read of an optional that races
with a write may return something that was never written (`Torn`). Loads of
one thread happen in program order: the repository is built and tested on
x86-64 only (`readme.md:3`). The version does not wrap: `CallsLeft` bounds the
number of calls.

### Broadcast.tla and SeqLockQueue.tla

`Broadcast` is the abstract queue: messages are numbered, a reader takes
messages with rising numbers, gaps are whole rounds of the ring, and a reader
is told there is nothing only if it has the last message. `SeqLockQueue` is
the code: slots with versions, a writer that never waits, contents copied word
by word in any order (the element's content is written bytewise or by a plain
copy, and read by a plain copy). The property `Broadcasts` says that it
implements `Broadcast` with `sent <- enqueue_index`; `newest` and `reply` are
history variables for what `read_next_entry` returned. `++enqueue_index`, which
only the writer sees, is part of the step that makes the version even.

### Pipeline.tla

Extends `SeqLockQueue` by the two threads of
`Record_latencies_multithreaded.cpp` up to the `join`: the hand-shake over
`signal_flag`, the loops, `end_of_buffer`. That the book processes a message
is a counter here. `first_refused` is the first message that `read_next_message`
answers with nothing, chosen at the start, or none; `read_ret.value()` then
throws out of `enqueue_logic`, which is `noexcept`, and the program ends with
both threads (`TakeNothing`). `ReachEnd` is the `recv` that sets the flag, some
time before the call returns (`ReceiveMessage`). A call returns a message only if
there is one left, also in an empty stream.

### MessageSource.tla

What a socket and its handler are to the loop that reads them: calls that
answer the messages of a stream one after the other, each by a message or by
nothing, and a flag that is set in the call that answers the last. It is the
contract between two modules: `SocketHandler` implements it (`IsSource`),
with all that it may do between a call and its answer hidden, and the producer
of `Pipeline` asks for no more (`ReadsSource`), so the bytes need not be in
`Pipeline`.

### TypePacks.tla and MsgTypeChecks.tla

What the compiler evaluates, as operators. A pack is a sequence of types, a
type is the record of its static members. `TypePacks` has the part of
`TMP_lib` that the checks run on: `non_rep_index_combinations` cohort by
cohort, as `compute` and `calc_index` build it, `split_t`, `nr_combs`
(`apply_templ_to_nr_combs`), the closure check and `monoid_check`.
`MsgTypeChecks` has the checks and what the book (`OrderBookAccepts`) and the
handler (`SocketHandlerAccepts`) require. Neither has variables or properties;
`SocketHandler` uses them in its first step, `Instantiate`, and has the
properties.

### SocketHandler.tla

`read_next_message` with `FIXMockSocket` behind it and the loop of
`enqueue_logic` before it. A stream (`wire`) is a sequence of items: messages,
and stretches of bytes without a header. `populate_memory` makes the bytes from
it, as the mock socket's does from its tuples: length, delimiter, a body that
repeats one byte, checksum. The handler sees the values of the bytes, so the
tests of the delimiter, the length and the checksum are the code's; the place a
byte came from is carried along for the properties. The length of a message is the four bytes at the
`length_offset` of the first type. The variables have the
names of the code. A behaviour begins with a program, a pack of types and a
stream (`Programs`): `Instantiate` applies the checks and either makes the
layout, the buffer and the memory from them, or the program does not compile
(`"refused"`).

`Call`, `ReadHeader`, then, if there is no header, `Scan`, `NoDelimiter`,
`DelimiterFound` (`scan_for_delimiter`: shift, `recv`, search), `GetLength`,
`Discard` (one turn of `discard_long_msg`), `ReadRest`, `Return` (type, checksum,
construction). Each action makes at most one call of `recv`, which always
delivers as many bytes as it is asked for (`readme.md:78-79`); `Terminate` is the
mock socket's `std::terminate` when there are fewer.

Of a message longer than the buffer `Framed` says that it is answered by nothing
or by a message of the longest type: it is cut to 18 bytes, which is the length
of a withdraw order, and only the checksum can tell. `socket_oversized` shows
that it need not.

`Fits` is the test of `recv`: `read_index + len` is a sum of unsigned 32-bit
integers (`FIXMockSocket.hpp:180`), which wraps for a negative `len`. The model
compares the sum without its width, and the two agree as long as it stays in the
memory: a negative length would have to come from a delimiter outside a header,
and there is none in the streams of the model.

A message that is returned is the type that was found and the bytes its
constructor reads (`Constructed`).

### The proofs

`OrderBookProofs` and `BookRefinementProofs` are about the writers of the book;
`TypePackProofs` is about `TypePacks` and `MsgTypeChecks`; `BookReadersProofs`,
`FlagGuardProofs`, `SeqLockQueueProofs`, `PipelineProofs` and
`SocketHandlerProofs` are about the module they are named after. See section 5.

The `MC*` modules hold the sets of values that the `.cfg` files use. A
definition whose comment begins with `Slip:` is a faulty variant of the
definition after it, kept to confirm that a property notices that fault; no
specification uses it.

## 3. The runs

| run | shows |
|---|---|
| `book` | two threads, all orders and shifts, all disciplines: `TypeOK`, `WriterExclusion`, `StatsExact`, `InvariantsCheck`, `RunInBounds`, `RefusedResponse`, `SlackUntouched`, `ShiftKeepsVolume`, `BaseNeverWraps`; `CallReturns`: whoever has the lock gives it back; `MatchesBook`: the book implements `MatchingBook` |
| `book_edges` | violation: `std::shift_left/right` leave copies of volume in the buckets they vacate, and `__invariants_check` reports it |
| `book_race` | violation: two concurrent shifts down take the base price below zero |
| `book_outer` | violation: an order priced one past the last bucket writes behind the array |
| `guard` | two threads with guards of their own: `OneHolder`, `MoveKeepsFlag`: a flag that is handed on is not open in between, `DeadlockLasts`: nobody gets out of a circular wait |
| `readers` | `BidAskTrue`: `best_bid_ask` returns a pair that was true at one moment; `QuietVolumeTrue`: so does `volume_at_price` when it returns at rest, for a price of the array; `BidAskReturns`, `UsedBookVolumeReturns`: once the writers rest every query returns |
| `readers_dirty` | violation: `volume_at_price` accepts odd versions and returns volume read in the middle of an order |
| `socket` | `Framed`: each message answered once, whole and in order; `StaysInBuffer`; `ReadsToEnd`; `IsSource`: the handler implements `MessageSource`; and of the compile-time checks `ChecksDecide`: packs that are taken are consistent, and consistent ones are taken, `PairsComplete`: every two types are compared once, `LengthsBound`: the buffer holds the longest type and the search reads no more than the shortest |
| `socket_oversized` | violation: a message of unknown type, longer than the buffer, is returned as a withdraw order |
| `checks_offset` | violation: types that have their length in different places pass the compile-time checks |
| `queue` | `WholeMessages`, the refinement `Broadcasts`, and `CatchesUp`: a reader that was overtaken gets to the last message |
| `pipeline` | `ProcessesPrefix`: in order, each once, none after a refused one; `Terminates`: both threads end, or a refused message ends the program; `ReadsSource` |

A limit order that crosses runs to the far end of the other side, not to its own
price (`FIXMsgClasses.hpp:161`); `MatchesBook` says so of the book as a whole.
The readme says of `AddLimitOrder` that it acts "at a specific price", in
contrast to `MarketOrder`, and no more, so this is not listed as a finding;
`LimitRespected` states the stricter reading, and as a PROPERTY in
`OrderBook.cfg` TLC refutes it.

Further differences between the code and what is said of it, met while
modelling, which have no run of their own:

- The main thread of the harness may leave its loop with messages still to come:
  the last `recv` sets `end_of_buffer` before its message is enqueued, and a read
  that found nothing is followed by a test that finds the flag set
  (`Record_latencies_multithreaded.cpp:148-149`). `ProcessesAll` says it does not;
  as an INVARIANT in `Pipeline.cfg` TLC refutes it. `ProcessesPrefix` and
  `Terminates` are what holds.
- `lock` of a guard that has locked its flag already spins for ever
  (`Guards.hpp:39-46` does not look at `flag_locked`); the readme has it return
  false if the "flag is already set by object" (`readme.md:206`). `RelockReturns`
  says that it returns; with `SPECIFICATION FairSpec` and as a PROPERTY in
  `FlagGuard.cfg` TLC refutes it. No property of a run speaks of such a guard but
  `OneHolder`, which holds while it spins.
- The clamp of `volume_at_price` (`OrderBook.hpp:229`) is one too high: when a
  shift up comes between the range test and the third read of `base_price`, the
  difference wraps and is cut to `book_length`, the word behind the array, against
  the comment at `:227-228`. `ReadsInside` says that the array is not left; as an
  INVARIANT in `BookReaders_dirty.cfg` in place of its property TLC refutes it.
  `ReadersTypeOK` has what holds: no index is larger than that.
- `ChecksDecide` asks no pack that is taken to have its lengths in one place
  (`checks_offset`), and has only those refused or taken on which the code and its
  comments agree.
- A pack of two message types does not compile, because the closure check
  indexes the checks (one, of the one pair) by pairs of types
  (`monoidal_class_template.hpp:40-46`), and a pack of one recurses without
  end. `ChecksDecide` has packs of three and more taken. All programs of the
  repository use three.
- `non_rep_combinations` promises "all not repeating combinations"
  (`non_rep_combinations.hpp:6-7`); for length 3 and more they are only those
  whose last index varies. `PairsComplete` is about lengths 1 and 2, which are
  all that the checks of the message types ask for.

Two conditions in the properties of the queries stand for behaviour of the code
that the properties would refute without them. `UsedBookVolumeReturns` asks for
a version other than 0, because `!init_version % 2` (`OrderBook.hpp:232`) means
`(!init_version) % 2`: on a book that has processed nothing `volume_at_price`
never returns, and of other versions it accepts odd ones too (`readers_dirty`).
`QuietVolumeTrue` leaves out the price `base_price + book_length`, which the
range test admits and the clamp of the index lets through: the query reads the
word behind the array and returns it.

### Bounds, and why they are enough

- **book**: three buckets, base price 1, prices from 0 to 5: below the book,
  every bucket, one past it and beyond. Three buckets are the fewest with an
  inner bucket, so that best and far statistics differ with an empty bucket
  between them. Volumes -2..2 empty a bucket in part, exactly and beyond.
  Shifts -2..2 move by less than the array, and wider ones are refused by the
  decision or meet an empty book. `MaxVolume` 2 bounds a bucket (guard
  `VolumeFits`), `MaxVersion` 1 counts versions modulo two, which is all the
  writers' properties look at. `HalfRange` 7 leaves room for shifts up to the
  limit of the type; a run along all three buckets, and an order that begins to
  trade at its price and goes on beyond it, fit into them for `MatchesBook`
  too. Two threads suffice for exclusion and for the race of two
  shifts. Symmetry is not used, because the run checks a
  liveness property too.
- **guard**: two threads with two guards each and two flags: a thread can
  move a lock between its guards, lock both flags, lock one twice, and wait for
  the other thread, or both for each other. Owners and flags are the only
  things that guards share.
- **readers**: one writer and one reader: readers share nothing with each
  other, and what a reader sees of two writers it sees of one that calls
  twice. Two buckets, and three calls (`MaxVersion` 7), so that a query can
  span a whole call and begin or end inside others.
- **socket**: the real lengths of the three types, and every stream of up to
  three of eighteen items: known types with the right and with a wrong checksum,
  an unknown type within the buffer, two beyond it (two bytes too long, and more
  than one turn of `discard_long_msg` takes), and 1 to 9 and 20 bytes without a
  header. The search advances by 8 bytes, so those, alone and in pairs, make a
  header begin at every place of its window, also straddling two reads. Three
  items suffice for a message after a stretch after a message. Messages are no
  shorter than the shortest type, as the readme demands (`readme.md:192`), and
  no stretch without header holds a delimiter. A second pack, whose shortest type is in the
  middle and whose types read other bytes, sees every stream of up to two items.
  The checks see all packs of two and three types out of 24 (three
  lengths, each plain and with one member changed, one change for each member
  that is compared), and of four and six types one of which is such a type:
  each check is met by a pack that fails it alone, at every place.
  `checks_offset` has these packs and no streams.
- **queue**: a ring of two, seven messages and one reader: the index wraps
  three times and the reader can be overtaken by up to three rounds. A message
  is two words, the fewest that can be torn. (Rings of one and of four and two
  readers were tried as well and gave the same result.)
- **pipeline**: six messages and a ring of eight, the refused message at
  every place or none: the harness's ring of 2^20 is longer than its stream of
  10^6 messages, so nothing is overtaken.

### Fairness

- `OrderBook!Fairness`: weak fairness of each thread's steps inside the lock.
  They never block, so this only says that the scheduler runs the thread.
  Nothing is assumed of spinning threads: `test_and_set` favours nobody, and
  no property says that a thread ever gets the lock.
- `FairReaders` adds weak fairness of each reader inside a query. The
  liveness properties are conditional on the writers coming to rest
  (`<>[]Readable`): a seqlock promises nothing more.
- `SeqLockQueue!FairSpec`: the writer finishes an `insert` it began, and
  readers call again and again as the consumer's loop does. `CatchesUp` is
  conditional on the writer's rest.
- `SocketHandler!FairSpec`: the one thread is scheduled once it runs (`Run`),
  and `recv` answers.
- `FairPipeline`: both threads are scheduled.
- `FlagGuard!FairSpec`: a thread inside `lock` goes on with its loop. Only
  `RelockReturns` is about it; the run assumes no fairness, and neither do
  `MatchingBook`, `MessageSource` and `Broadcast`.

## 4. What is not in the model

- Weak memory: steps interleave sequentially. On x86-64 the `fetch_add`s are
  full barriers and loads and stores of one thread keep their order.
- Overflow of a bucket's volume, of a revenue and of the 64-bit version
  counters.
- A `recv` that delivers less than it was asked for; unknown messages shorter
  than the shortest type or longer than 255 bytes.
- Bytes of the delimiter inside messages or stretches without a header. A stray
  delimiter may stand nearer to the beginning of the window than the delimiter of a
  header can, so that `position_of_header` (`FIXSocketHandler.hpp:182-184`) falls
  below zero, or have the handler take any four bytes for a length. Streams whose messages do not have their length first.
- What `lock` and `unlock` of a guard return: no caller looks at it.
- `FixMsgClassGeneralCheck` (`FIXMsgTypeChecks.hpp:63-95`), which nothing uses:
  the three message types have no `fix_msg_obj` and would fail it. Of `TMP_lib`
  the members of packs that no program uses (reversal, monadic bind, packs of
  values, tails), and the checks of associativity and identity.
- The alignment arithmetic (`Auxil.hpp:11-55`, `ceil_` and its like in
  `SLQ_Auxil.hpp`): it places objects in memory and changes nothing else.
- `SeqLockGuard`: nothing instantiates it, and its constraint (a type that is
  an integer and a `std::atomic`) cannot be met.
- `doctest.h`, file input, clocks, latency statistics, CPU affinity.

## 5. What is proved

Every theorem holds for every number of threads, guards, flags, readers, every
length of the book, the ring, the messages, the stream and the pack of message
types, every width of the integers, and every set of inputs that the `ASSUME`s of
the modules admit. Where
the table says "disciplines", the theorem assumes `Discipline = Disciplines`, that
the callers observe all of section 2's restrictions; it would be false without, as
the runs that leave one out show.

| module | theorem | statement | assumes |
|---|---|---|---|
| `OrderBookProofs` | `LockTellsTruth` | `Spec => []WriterExclusion` | |
| | `BookInvariant` | `Spec => []IInv` | disciplines |
| | `StatisticsExact` | `Spec => []StatsExact` | disciplines |
| | `ChecksAlwaysPass` | `Spec => []InvariantsCheck` | disciplines |
| | `RunsStayInside` | `Spec => []RunInBounds` | disciplines |
| | `SlackNeverWritten` | `Spec => SlackUntouched` | disciplines |
| | `ShiftsKeepVolume` | `Spec => ShiftKeepsVolume` | disciplines |
| | `BaseMovesAsAsked` | `Spec => BaseNeverWraps` | disciplines |
| `BookRefinementProofs` | `OrdersAccounted` | `Spec => []AccountInv` | disciplines |
| | `RefusalsAnswered` | `Spec => []RefusedResponse` | disciplines |
| | `BookTypes` | `Spec => []TypeOK` | disciplines |
| | `BookMatches` | `Spec => MatchesBook` | disciplines |
| `BookReadersProofs` | `ReadersLeaveBook` | `SpecReaders => Spec` | |
| | `QueriesSound` | `SpecReaders => []QueryInv` | |
| | `BidAskTellsTruth` | `SpecReaders => BidAskTrue` | |
| | `QuietVolumesTrue` | `SpecReaders => QuietVolumeTrue` | disciplines |
| | `ReadersTyped` | `SpecReaders => []ReadersTypeOK` | disciplines |
| `FlagGuardProofs` | `GuardsSound` | `Spec => []GuardInv` | |
| | `GuardsTyped` | `Spec => []GuardTypeOK` | |
| | `HeldByOne` | `Spec => []OneHolder` | |
| | `MovesKeepTheFlag` | `Spec => MoveKeepsFlag` | |
| | `DeadlocksLast` | `Spec => DeadlockLasts` | |
| `SeqLockQueueProofs` | `QueueSound` | `Spec => []QueueInv` | |
| | `QueueTypes` | `Spec => []TypeOK` | |
| | `ReadersGetWholeMessages` | `Spec => WholeMessages` | |
| | `QueueBroadcasts` | `Spec => Broadcasts` | |
| `PipelineProofs` | `PipelineUsesQueue` | `SpecPipeline => Spec` | |
| | `PipelineSound` | `SpecPipeline => []PipelineInv` | |
| | `PipelineTypes` | `SpecPipeline => []PipelineTypeOK` | |
| | `PipelineReadsSource` | `SpecPipeline => ReadsSource` | |
| | `BookGetsPrefix` | `SpecPipeline => []ProcessesPrefix` | `MaxMessages <= Length` |
| `SocketHandlerProofs` | `PacksDecided` | `Spec => []ChecksDecide` | |
| | `GroupsComplete` | `Spec => []PairsComplete` | |
| | `BufferFits` | `Spec => []LengthsBound` | |
| | `HandlerInStream` | `Spec => []SocketInv` | |
| | `SocketTyped` | `Spec => []SocketTypeOK` | |
| | `MessagesFramed` | `Spec => []Framed` | |
| | `ReadsStayInBuffer` | `Spec => []StaysInBuffer` | |
| | `HandlerIsSource` | `Spec => IsSource` | |

Each inductive invariant was checked with TLC, on the instance of the run whose
properties it is for, before it was proved.

### The writers of the book

`StatsExact` is not inductive: while a run is under way the best
price of the side it eats into is out of date, and `FinishAdd` restores it only
because of what the loop has done so far. The inductive invariant `IInv` adds

- `BaseFits`: every price of the book fits into the signed type, so that the
  conversions of `RunFrame`, `FarEnd` and `ShiftPossible` are the identity;
- `LoneShift`: at most one thread is between the call and the return of
  `shift_book`, so the base price seen before the lock is still right under it;
- `ThreadSound(t)`, by the thread's program counter: during a run `RunFits`
  says that all buckets the run has passed are empty, the bucket index stays
  between the best and the far price, and the counter counts what is left;
  during a shift `ShiftFits` says that a shift found possible moves no volume
  out of the array and leaves none behind; and `OrderInner` that the order is
  not priced one past the array;
- `Sound`: the exact statistics, whenever no thread is between the first
  change of a bucket and the update of the statistics.

The first part of `OrderBookProofs` proves what the operators do, independently
of threads: that
`FindLiquid` finds the least or the greatest price with volume, what
`Consumed` takes, that one iteration of a run keeps `RunFits` (`BuyStep`,
`SellStep`), that `Settled`, `Rested`, `WithdrawnStats` and `ShiftedMem`
re-establish exact statistics. The second part has one lemma per action.

### The book matches

`IInv` knows where volume is and not what an order has earned. `AccountInv` adds,
for each thread, that the response holds nothing but what the handler of the
order's own type put there (`ResponseFits`: the handlers of the two blank orders
add zeros, and an error stands alone), that a run which has filled nothing is at
the best price of the other side, on a bucket that holds volume, and that one that
does nothing had nothing to do (`RunPaid`), and that a shift remembers between its
two halves how far the buckets went (`ShiftRemembered`). `RefusedResponse`
follows: the error is that of the one handler the order is meant for, which sets it
exactly when the price is outside the array, and nothing else of the response is
set then. `TypeOK` needs `AccountInv` too, because the error of a response is a sum
of three.

For the refinement, `View` says what the mapping of `BookRefinement` shows of a
state with one thread inside the lock (`Views`: it follows from `IInv`). Then there
is one lemma per action: it is the abstract action its name says
(`LockOrderBegins`, `RunStepMatches`, `FinishAddRests`, `FinishMarketDrops`,
`WithdrawTakesOut`, `MoveBucketsShifts`, `MoveBaseShifts`, `UnlockEnds`) or is not
seen (`...Unseen`). Those that matter most: the bucket where a run is holds the
best price of the other side (`RunAtBest`, from `RunFits`: all that was passed is
empty); when a run is over nothing is left that the abstract order could trade with
(`NothingToTrade`, `NotCrossing`); and moving the buckets before the price leaves
the volume of every price where it was (`MoveBucketsShifts`).

### The queries

`QueryInv` needs no more than the lock (`LockInv`): the version never runs
backwards and the book changes at odd versions only, so what a query has read is
what the book holds for as long as the version it loaded is even and still that of
the book (`Current`, `QuerySound`). The three reads of `base_price` are three loads
of this kind: with the version unchanged they agree, and with a shift in between the
clamp bounds the index all the same (`ClampFits`). `BidAskTrue` is proved whatever
the callers do; that the bucket read is the one of the price asked for takes the
range of the base price, and so the disciplines.

### The guards

`OneHolder` counts the holders of a flag; what a step preserves is that two holders
of one flag are the same guard (`NoSharedHold`). `GuardInv` adds that a guard with a
lock lives and has a flag that is set (`HoldsSoundly`), that a set flag has a holder
(`SetFlagsHeld`), and that a guard that spins has a flag (`SpinnersBound`).
`DeadlocksLast` follows from it: in a circular wait every flag that is waited for is
set, and the only guards that could clear it belong to threads that spin.

### The queue and the harness

`QueueInv` ties each slot's version to the number of messages written to it
(`VersionsCount`), the slot's words to the last of them (`SlotsHold`), and a
reader's index and `prev_version` to the newest message it has returned
(`PlaceSound`); `CopySound` is the seqlock's argument for one slot. Whole messages
follow, and that what is returned is newer than anything returned before, by whole
rounds. The harness is one of the programs that use the queue (`PipelineUsesQueue`),
so all this holds in it; `PipelineInv` adds how its counters stand to the queue's.
`BookGetsPrefix` needs a ring as long as the stream, as the harness has: with a
shorter one messages are lost, which is what `Broadcast` is about.

### The compile-time checks

What a fold over the groups of a pack comes to takes an induction over the length
of the pack, and so does what `FlattenSeq` makes of the cohorts. `TypePackProofs`
has the induction as a fact about sets (`Induction`: a set of numbers that has 0,
and with every number the next one, has all), which follows from the least element
that every set of numbers has (`WFMin`); `Recursion` gives the values of a
recursive function from it. On these rest: where the elements of a flattened
sequence come from (`FlattenPlaces`, `EveryPlace`), that each group of one or two
indexes occurs once (`GroupsOfOne`, `GroupsOfTwo`), that the fold of the checks is
their conjunction (`FoldAnd`), and that the folds of the lengths are the greatest
and the least of them (`FoldLongest`, `FoldShortest`). `GroupsComplete`,
`PacksDecided` and `BufferFits` put these together for the pack of a program.
`PacksDecided` is not an equivalence: a pack that is taken has three or more
consistent types, and such a pack is taken if the lengths of its types stand in one
place. Of consistent packs whose lengths do not it says nothing, because the code
takes them and its comments refuse them.

### The socket handler

`ProgramsAssumption` says what programs and streams the theorems are about: the
delimiter of a type lies in its header and a checksum of three bytes has room
behind that; a constructor reads bytes of its own message; and of a stream that is
not empty, that its messages have the layout the mock socket writes (a header of
six bytes, the length first, the delimiter `0xEB50` at its end; every type has its
length there), that they are no shorter than the
shortest type (the limitation at `readme.md:192`) and no longer than 255 bytes (the
mock socket's lengths fit one byte), and that no body and no stretch without header
is made of a byte of the delimiter. Nothing is said of how long stretches are, how
many items there are, or what the lengths of the types are.

`Ground` says that the layout, the buffer and the memory are what `Instantiate` made
them, so that the place and the value of every byte of the stream are known
(`StreamIs`), the delimiter stands in headers and nowhere else
(`DelimiterIsHeader`), a header tells the length of its message (`HeaderValues`),
and the checksum is right exactly for the items that say so (`ChecksumTells`).
On top of it `SocketInv` has three parts.

- `InStream`: between two calls the socket stands at the end of an item, and the
  messages of the items before it are answered. In a call, `Framing(n, m)` says by
  the program counter where the handler is between the end of the item n, the last
  that was answered, and the next message m: while it searches, no header has been
  read but for its last byte, and the buffer has the last bytes that were read;
  once the header is found, the buffer has the first bytes of m and `read_index` is
  as many bytes behind its beginning; while it discards, what is left of m is the
  excess and the room of the buffer; before the return `read_index` is the end of m.
- `FlagTells`: the flag is set exactly at the end of the memory.
- `Registers`: types of the locals; the search keeps no more bytes than it read.

`Framed` is `InStream` between two calls; a message beyond the buffer, which is
of no type of the pack, is answered by nothing or by one of the longest type. `StaysInBuffer` takes one argument for
each call of `recv`: the rest of a message that fits, the search, whose window is
the shortest type, and one turn of `discard_long_msg`. There is one lemma per
action (`ReadHeaderStep`, `ScanStep`, ...), and `ScanStep` and
`DelimiterFoundStep` have the heart of it: five bytes are enough to keep what may
be the beginning of a header, and a header that is found is the next message's.

For `HandlerIsSource` every action is shown to be a step of `MessageSource` or not
seen by the caller (`HandlerStepSeen`). It takes two facts of the invariant: the
flag goes up only in the call that answers the last message, or that looks for a
message in the stretch that ends the stream (`EndReached`), and what is returned
is a verdict the abstract source admits (`VerdictRight`).

### Model-checked only

The liveness properties (`CallReturns`, `BidAskReturns`, `UsedBookVolumeReturns`,
`CatchesUp`, `Terminates`, `ReadsToEnd`): liveness under fairness, and the `ENABLED`
in it, is out of the prover's reach. Every safety property of a passing run, every
action property and every refinement has its theorem.

## 6. Plan

Done: every component of section 1 but the alignment arithmetic and the test
tools has its module, and every property of the passing runs that is not a
liveness property has its theorem. What is left, in this order:

1. Which of the five disciplines each theorem about the writers needs: they all
   assume all five, and some (`ShiftsKeepVolume`, `BaseMovesAsAsked`) should need
   fewer.
2. The socket handler inside the harness: `HandlerIsSource` and
   `PipelineReadsSource` say that the two sides of `MessageSource` fit, and a module
   that composes them could say which messages of a stream reach the book.
3. A bucket's volume with its width (`OrderBookBucket.hpp:45`), which `MaxVolume`
   bounds now.
4. Streams with delimiters outside headers: what the handler may do then, and from
   which item on it is in step again.
