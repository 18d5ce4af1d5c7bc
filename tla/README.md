# RPCNIC in TLA+

RPCNIC offloads RPC serialization to an FPGA card. Requests arrive over RoCE, are
deserialized on the card and written to host memory and to the card's HBM; responses
are read from both, serialized on the card and sent over RoCE. The card is written in
Chisel (`src/src/chisel`): small state machines connected by ready/valid ports and
queues (`XQueue`), all running at the same time. Nothing in the data path carries an
identifier. Which beats belong to which RPC is known only from order, from lengths and
from the mark on the last beat, so one beat too many or too few, or one message in the
wrong order, hands every later RPC the wrong data. The host side (`src/include`, `src/src`)
has the same problem once more: the driver and the card each walk over a message on
their own, and agree on its fields only because they take the same decisions. That is
what this project is about.

## 1. Inventory

### Data path

    RoCE -> NetToMem -> SplitDe(Mul) -> DeserializerSimple (per lane) -> DerToMem -> host DMA, HBM
    host, HBM -> ReadHost -> SerializerSimple (per lane) -> arbiter -> MemToNet -> RoCE
                          -> EngineSim (per lane) -> host DMA, HBM

| Component | State it keeps | Operations | What makes it correct |
|---|---|---|---|
| `NetToMem` | package meta, sum of package lengths, data queue, length queue, two state machines | take a package meta, take a beat, start a message, emit meta and beats | a meta is read from the first beat of a message only; a beat is marked last iff it ends the message; no message gets stuck |
| `SplitDe`, `SplitDeMul` | meta queue, data queue, old idle bits, state | choose a lane, forward meta and beats, drop a whole RPC | beats stay paired with metas, also across drops; drops only under load |
| `DeserializerSimple` | queues, meta, remaining length, delay | take meta, wait, announce, pass device beats, pass a host beat | puts out exactly what it announces; is clean when it reports idle (both until a header costs a beat) |
| `DerToMem` | four queues, free list and fill counter, notice counters, state | take or refill a buffer number, issue writes, notify | a notice is visible only after its data; device beats meet their address; threads are told in turn |
| `ReadHost` | command queues, read queue, data queues, two state machines | take a command, issue reads, route beats | each user gets its objects, whole and in order |
| `SerializerSimple` | command, 16 bit lengths, delay | read host and device parts, wait, announce, send | reads its object and no more; announced length and mark agree |
| `MemToNet` | meta, data queue, state | take a meta, insert the header and announce, pass beats | length, header and mark of a send agree |
| `EngineSim` | queues, command, delay | move data between host and HBM | writes what it announced |
| `AXISToHbm(Sim)` | command and data queues, burst counters | split writes and reads into bursts | no beat lost, bursts cover the length |
| `Control(Mul)`, `ClassMetaTable` | registers put together over several writes; a table | decode register writes, answer lookups | a command is delivered once and whole |
| `ReadHostClient`, `ReadHostDeser` | window of outstanding RPCs, burst counters | replay an object, throttle | the window never leaks or underflows |
| `Serializer`, `Serializerhw` | class stack, field number and length per level, positions in two buffers | walk over uploaded class entries, take fields from the host buffer and strings from the device buffer | takes each field when it is next in its buffer; both buffers are used up |
| `Deserializer*`, `WriteSer`, `WriteDeser`, width converters | class stack, field buffers | protobuf decoding, assembling words | decoding inverts encoding; bytes keep their order |
| Message classes (`bench_header`) | `metadataVec`, `messageSizeVec` | register wire types and field ids, build a message | every assignment keeps to its own class and array |
| Software codec (`encode_main.h`, `no_encode_main.h`, `encode.h`, `decode.h`) | `FPGA_metadataVec`, range of class ids, host and device buffer | four depth-first walks: upload, size, write, parse | the walks agree at every field; lengths are exact; parsing gives the message back |
| `utils/QDMAController` (`MemCtl`) | free and used chunks, a mutex | alloc, free | blocks are disjoint; free merges; alloc fails only if nothing fits |
| End-to-end test client (`compress_client`) | request counter, queue, requests at eRPC | leader starts requests, client sends, answer leads to the next request | no request is lost or shares a buffer; Ctrl-C ends it |

Components interact through ports only: a transfer happens in a cycle in which the
sender is valid and the receiver is ready. `SplitDe` also reads the lanes' `idle_out`,
one cycle old. The host writes commands and buffer numbers through `Control` and polls
notice slots in its own memory.

### What is hard

* **Two streams for one thing.** Metas and beats, commands and data, addresses and HBM
  beats, lengths and messages travel in separate queues, filled and drained at
  different times by different machines.
* **Stale and early tests.** `SplitDe` reads idle bits that are old and tests the drop
  limit a state before it drops.
* **Counting at the boundary.** Lengths are counted down in beats of 64 bytes with
  `> 64` or `<= 64`, rounded up in some places and down in others, in registers of 6,
  7, 16 and 32 bits.
* **Unchecked ready.** Some pushes do not look at the ready of the queue.
* **Walks that must agree.** Upload, size, write, parse and the card's own walk find a
  field by adding and subtracting sizes, and decide for each string which buffer it is
  in. Nothing in the data would show a disagreement.
* **Threads.** The drivers share one memory pool; the test client has two producers on a
  queue built for one, and a request counter without a lock.
* **Waiting.** A reader that needs a complete message and a writer that needs room; a
  router blocked by one user with data for another behind it.

`PROJECT.json` lists the hazards at their lines, with the properties that cover them;
those without a property carry a note and are work for the plan below.

## 2. Modules

| Module | Models | Notes |
|---|---|---|
| `DerToMem` | `DerToMem.scala` | with the deserializer, DMA, HBM and host threads as far as the ports show them |
| `SplitDe` | `SplitDeMul.scala` (two lanes), `SplitDe.scala` (one lane) | the lane behind is abstract |
| `NetToMem` | `NetToMem.scala` | with the RoCE engine |
| `DeserializerSimple` | `DeserializerSimple.scala` | actions only, used by `RpcReceive` |
| `RpcDelivery` | abstract | what the receive side promises |
| `RpcReceive` | receive wiring of `FpgaCloudMulTop.scala` | extends `NetToMem`, composes it with `SplitDe` and one `DeserializerSimple` per lane; implements `RpcDelivery` |
| `ReadHost` | `ReadHost.scala` | with the host DMA and the HBM |
| `SerializerSimple`, `MemToNet` | the files of the same name | actions only, used by `RpcSend` |
| `RpcSend` | send wiring of `FpgaCloudMulTop.scala` | two serializers, the arbiter, `MemToNet`, the RoCE engine |
| `MessageTypes` | wire types of `config.h`, member layout | the C++ types of members, their sizes and what the cases of the switch statements do |
| `Bench0Classes` .. `Bench5Classes` (bench2 has its first five messages in `Bench2Messages`), `DeathStarClasses`, `MicroClasses` | the generated headers and `RegisterTestClass` | data: one line per class; only the members and registrations |
| `Varint` | `encode.h`, `decode.h`, `varint.scala` | size, bytes and parsing of an integer given as 7-bit chunks |
| `MessageCodec` | `encode_main.h`, `no_encode_main.h` and what `serialize_hw.cpp` does around them | the four walks, one action per field or return |
| `Serializer` | `Serializer.scala` | extends `MessageCodec`: driver and card composed |
| `MemCtl` | `QDMAController.cpp` | implements `BlockPool` |
| `BlockPool` | abstract | what an allocator promises |
| `CompressClient` | `compress_client.cpp`, `compress_client.h`, `atomic_queue.h` | leader, clients, queue and signal |
| `FifoLemmas` | lemmas | queues, streams, division with remainder |
| `DerToMemProofs`, `SplitDeProofs`, `RpcReceiveProofs`, `ReadHostProofs`, `RpcSendProofs`, `MemCtlProofs`, `CompressClientProofs` | proofs about these modules | `RpcReceiveProofs` has those about `NetToMem` too |
| `MC*` | small instances for TLC | |

### Conventions

* A queue is a sequence with its depth as a constant; a transfer over a port is one
  step, guarded by what the code's `valid` and `ready` need. A state of a state machine
  is one action, named after the state (`sNewBuffer` is `NewBuffer`).
* Machines that run in the same clock cycle are interleaved. Each has its own registers
  and meets the others only in queues, where the order of a push and a pop of the same
  cycle makes no difference beyond a full or an empty queue being seen a cycle later.
  A register that follows a signal (`de_idle`) is a variable that is brought up to date
  at any later time, so a value may be older in the model than in the code.
* A beat's 64 bytes are replaced by what a property needs to know about it: which RPC,
  which beat of it, and the mark. Lengths are real byte counts. Class ids, addresses of
  HBM and payloads are left out.
* The parts of code that are not under `src/` (queues, `LSHIFT`, `RSHIFT`, arbiters, the
  RoCE engine, the QDMA) are modelled from how the code uses them and are marked
  external in the map. The arbiter binds beats to the meta it passed until the mark;
  `LSHIFT` gives a beat more than it takes because the serializers' beats are full;
  `RSHIFT` gives as many as it takes, its `keep` being all ones.

### How state and actions correspond to the code

`DerToMem`: `FreeListReturn` and `FreeListFill` are the two branches of the free list
logic (lines 98 to 110), in that priority; `Idle`, `NewBuffer`, `Write` and `Notice` are
the states. `freelist_index` wraps at `INDEX_MOD` (2^7), list entries at `ENTRY_MOD`
(2^6). `DmaBeat` executes commands in order and ends one at the beat marked last,
`HbmBeat` ends one at its length. `metas`, `alloc`, `returned` and the field `rpc` of
`aw_q` are histories.

`SplitDe`: `SampleIdle` is the register `de_idle`; `Choose` is `sIdle`; the states of the
two lanes are one state and a lane number.

`NetToMem`: `RecvMeta`, `RecvData` are the writer, `ReadLength`, `SendMeta`, `SendData`
the reader. `Pushed` loses a length when the queue is full, as the code does, and
`lost_length` remembers it. Afterwards lengths and beats no longer belong together; the
model goes on counting, but not what the bytes of a payload would say where the reader
takes them for a header, and the properties speak of the card before the loss.

`RpcReceive`: the lane goes by the length in the header (`lens`), the network by the bytes
on the wire (`msgs`), and `Wire` is the sum `MemToNet` makes of the one to get the other.
`Costs` are the messages whose 8 bytes of header took a beat of their own.

`ReadHost`: `Idle`, `SerIssue`, `EngIssue` are the command machine, `RouteIdle`, `Route`
the routing machine. The length of a serializer read is rounded up to beats, that of an
engine read is not. `reads` is a history, the reads of host parts in the order in which
they were issued; nothing depends on it but the proofs.

`SerializerSimple`: without a device part `Host` copies what is left of the host part
into `device_length`, as the code does, so the message is up to a beat longer than the
object; `OutLength` rounds down.

`MessageCodec`: a walk is a stack of `frames`, one per call of the recursive function,
with the loop index and `obj_addr` relative to the object. `SendField`, `SizeField`,
`WriteField` and `ParseField` are one turn of the loop, `SendReturn` and so on the end of
a call. `Found` is the cast: the member that lies at the address the walk computed, or
nothing. `fpga` holds only the half-words that were written; reading another one gives
`junk`, what the stack held. `metadataVec` is a byte memory: `RegisterWrites` makes the
assignments of `RegisterTestClass` in their order, so that an index past `wire_type[52]`
lands where it lands in the code. The buffers are sequences of pieces: a string is where
it came from and how long it is, an integer is its bytes. The classes of bench2 and
bench5 have no `target.inc` in the repository; `DeclaredRegistration` derives one.

`Serializer`: `card` holds the registers; actions carry the names of the states without
the `s`. Fields come out last to first, as in the code. The host buffer is a stream of
bytes to the card: `pos` is how far it has come, and `host_field_length` is whatever the
two bytes at `pos` say. At the start of a field they are its prefix; a card that is out of
step finds bytes of some value there, and `LengthsAt` gives it the shortest and the longest
length. `StallHostFirst` is a cycle of `sMoveHostFirst` in which the queue is empty: the
field is added to `c_msg_length` again, as in the code. The length of an upper level goes
on from the sub-message's, also as in the code. Where the bytes are written to is left out.
`Overflow` is a message nested deeper than `field_stack`.

`MemCtl`: a call is cut in three steps (lock, look, change), so that the mutex has
something to protect. `getInstance` has no mutex and is one step: the programs call it
from `main()` before they start a thread. `held` and `mine` are what the program knows.
Where there is no chunk before the freed block `std::prev` is undefined; the model uses
what libstdc++ does, which is that the comparison fails.

`CompressClient`: a push into the queue is four steps (load and store `head_`, wait,
fill), reading and writing `req_id_` are two. A pop is one step with the handler: only
the client pops. `Answer` is eRPC and the server, in any order. The queue asks for
`kAppMaxConcurrency` places and gets 4096, `AtomicQueueB2`'s minimum for states of a byte.

## 3. Runs

| Run | Instance | States | Shows |
|---|---|---|---|
| `dertomem` | 2 threads, 2 buffers, 3 RPCs, a number given back, a fill counter that laps the list; fairness | 158 685 | framing of the DMA, noticed data in place, HBM alignment, notices in turn, the buffer ring, every RPC is noticed |
| `splitde` | 2 lanes, 5 RPCs of 1 or 2 beats, drop limit 1 | 69 066 | pairing in dispatcher and lanes, drops under load |
| `nettomem` | 4 messages of 1, 2 or 4 beats, packages of up to 2, 2 places for lengths; fairness | 13 750 | framing, length queue and data queue agree until a length is lost, when one is lost, every message is forwarded |
| `rpcreceive` | 2 lanes, 3 messages with headers that do and do not cost a beat; fairness | 97 967 | refinement of `RpcDelivery`, lanes keep their promise up to such a message and are behind by one beat each after, every message ends unless a lane is choked |
| `readhost` | 3 commands of any kind, queues of one place; fairness | 83 676 | routing, every command served |
| `rpcsend` | 2 lanes, 3 objects; fairness | 90 767 | framing of sends, objects read whole, every object is sent |
| `codec_types` | a program with every wire type in both encodings, 26 shapes of values; six micro benchmarks | 46 538 | registration, lengths, prefixes, partition into two buffers, parsing |
| `serializer` | every message of the six HyperProtoBench programs with varints and of bench0 with fixed widths, one or two placements of long strings | 79 683 | walks in step, complete upload, parsing, the card in step with both buffers, but for bools of fixed width |
| `codec_deathstar` | DeathStarBench | violation | the command names a sub-message's class |
| `memctl` | 2 threads, a pool of 8 units, blocks of 1 to 3, a stray pointer below and one inside the pool | 600 871 | chunks tile the pool, blocks stay logged, refinement of `BlockPool` |
| `compress` | 2 clients with 1 request, 2 buffers, 4 places; fairness | 62 279 | no request lost, Ctrl-C ends the program |
| `compress_async` | 1 client with 2 requests and 2 buffers | violation | two outstanding requests share a buffer |

Every property has a mutant of the code in `PROJECT.json` that breaks it.

**What the two violations show.** `codec_deathstar`: the driver puts `min_class_id` into
the command, which is the class of the message only when sub-messages have larger ids;
three DeathStarBench messages contain a class with a smaller one. `compress_async`: the
leader numbers its requests with `req_id_++` as a value, the callback counts `req_id_` up
and then uses it, so one id is skipped; with as many requests as buffers the next one
gets the buffer of a request that eRPC still has. With one request at a time, as the
config file sets it, a client never has two.

**What the receive path does with lengths.** `MemToNet` sends 8 bytes of header with a
message and rounds up to beats; `DeserializerSimple` takes as many beats as the length
without the header needs. For a length that modulo 64 is 1 to 56 that is the same number.
For 0 and for 57 to 63 it is one less, and `SerializerSimple` rounds its lengths down to
multiples of 64, so that its messages are always of that kind. The runs and theorems cover
all lengths and say what happens. `LaneKeepsPromise` and `IdleLaneClean` hold for a lane
up to the first such message it begins (`InStep`), whatever the others were given.
`LeftBehind` is what follows: an idle lane with nothing to do holds exactly one beat for
each such message it has finished, and the next message begins with those. The pairing
before the lane is not disturbed: `DeliversRpcs` holds for all lengths, as `RpcDelivery`
promises a stream of beats per lane and not where the lane cuts it. `EveryMessageEnds`
holds until a lane has been left more beats than its queue has places (`Choked`). There is
no finding for this, because no text of the repository says which lengths are served; the
test bench (`test_suite/hardware_tb/tb_cloudfpgaMulSim.sv:1003`) uses 0x80f, which is not of
that kind.

**What the card's serializer does with bools.** `serialize_co.cpp` is built with fixed
widths. There a bool's length in front says 1 byte and 4 are written
(`no_encode_main.h`), so that `PrefixExact` is an equation with `Missing` bytes: 3 for each
bool, 0 otherwise. The card steps by that length, takes bytes of the value for the next
length, and is out of step for the rest of the message. `CardTakesField` and
`CardUsesBuffers` say that this is the only thing that brings it out of step, in the host
buffer only, and that nothing else makes it wait for bytes that never come.

**Bounds.** Every bound is a constant: `MaxRpc`, `MaxMsg`, `MaxCmd`, `MaxBeats`,
`MaxReturn` and the depths. Depths of one or two places make full and empty queues, and
therefore every wait, happen at once. Lengths are chosen around the beat boundary (1,
64, 65, 100 bytes; messages of one beat and of several). Three to five RPCs let a
misplaced beat of one show up in the next, and let the ring of buffers, the round of
threads and the drop limit be passed. `BUF_BYTES` is 128 instead of 8192, and the drop
limit is 1 instead of 8: what matters is that the queue can hold more than the limit.
`nettomem` has two places for lengths and four for beats, so that messages of one beat
overrun the lengths and messages of two and four do not, which is the border of
`LengthLostOnlyShort`. In `rpcreceive` a message is 63 or 64 bytes longer than its length,
the two values between which the header begins to cost a beat, and lanes with one place
for beats can be choked by two messages.
The fill counter of `dertomem` laps the list, as in the code. The codec runs use the
repository's own classes at full size; their inputs put strings of 1024 and 1025 bytes
(the threshold is 1024) alone, first and last in a vector, and integers on both sides of
the varint lengths and of the sign. `MaxStalls` lets the card's host queue be empty in one
cycle per message. `memctl` has room for eight blocks of one unit, so
that a freed block can have free neighbours on neither, either and both sides. In
`compress` `ID_MOD` 8 lets ids and the queue's counters wrap. Deadlock is not checked
where a bounded input is used up (`dertomem`, `compress` and the other card runs); it is
checked in the codec runs and in `memctl`, whose ends are named (`Ended`, `Exited`).

**Fairness.** Each state machine is clocked, so an action that stays enabled is taken:
weak fairness per action, or per machine where the machine has one state at a time.
External parts finish what they have taken (the DMA, the HBM, the RoCE engine within a
message, the consumers). There is no fairness on new input: nothing has to arrive, no
host has to return a buffer. `EveryCommandServed` holds for the engine only because the
host writes finitely many commands; the code prefers serializer commands without limit.
In `compress` the threads are scheduled and eRPC answers; nobody has to press Ctrl-C.
`CtrlCEnds` needs no answer from the server: a client polls the signal on every turn.

**Assumptions about the data**, each a named `ASSUME`:
* `DerToMemAssumption`: at least one thread is configured; a part fits its buffer; the
  host part is not empty; the fill counter never reaches the depth (128 <= 256).
* `NetToMemAssumption`: a message is a whole number of beats and fits the data queue. How
  short messages may be is left open: with the code's 1024 lengths for 4096 beats,
  messages of one to three beats can overrun the length queue.
* `ReceiveAssumption`: at least one lane is active, the drop limit is a number (any), and
  a message is 8 to 71 bytes longer than the length in its header, which is what 8 bytes
  of header and rounding up to beats amount to, whatever the length.
* `ReadHostAssumption`: the host part of an object is not empty; nothing else but types.
* `CodecAssumption`: what a program and its inputs are; no restriction on the code.
* `MemCtlAssumption`: nobody allocates 0 bytes (which would return an address that is not
  the caller's), and a stray pointer lies below the pool or off its unit boundaries.
* `RpcSendAssumption`: an object has at least a beat and its length fits 16 bits.
* `ClientAssumption`: the leader is not a client; the queue has at least two places and its
  counters wrap at a multiple of them (powers of two in the code).

## 4. Proofs

All proofs hold for every value of the constants that the assumptions admit: any number
of lanes, threads, RPCs and messages, any depth of the queues, any length.

| Theorem | Property | Rests on |
|---|---|---|
| `DerToMemProofs!TypeCorrect` | `TypeOK` | itself |
| `DerToMemProofs!BuffersInRingOrder` | `RingOrder` | `RingInv` |
| `DerToMemProofs!CommandsFramed` | `C2HFraming` | `StreamInv` |
| `DerToMemProofs!ThreadsInTurn` | `NoticeRoundRobin` | `StreamInv`, `SlotOK` |
| `DerToMemProofs!NoticeMeansData` | `NoticedDataInPlace` | `StreamInv`, `InPlace` |
| `DerToMemProofs!DeviceBeatsPlaced` | `HbmAligned` | `StreamInv`, `HbmOK` |
| `SplitDeProofs!SplitDeTypeCorrect` | `TypeOK` | itself |
| `SplitDeProofs!DispatchInStep` | `DispatchAligned` | `OrderInv` |
| `SplitDeProofs!LanesInStep` | `LaneAligned` | `OrderInv`, the order inside a lane |
| `SplitDeProofs!DropOnlyUnderLoad` | `DropUnderLoad` (action property) | `DropInv` |
| `RpcReceiveProofs!OutputAlwaysFramed` | `OutputFramed` | `Sound` |
| `RpcReceiveProofs!LengthsInStep` | `LengthsMatchData` | `Sound` |
| `RpcReceiveProofs!LossOnlyShort` | `LengthLostOnlyShort` | `Sound`, `RoomForLength` |
| `RpcReceiveProofs!IdleLaneAlwaysClean` | `IdleLaneClean` | `ReceiveSound` |
| `RpcReceiveProofs!PromiseKept` | `LaneKeepsPromise` | `ReceiveSound` |
| `RpcReceiveProofs!RpcsDelivered` | `DeliversRpcs` (refinement of `RpcDelivery`) | `DeliverySound` |
| `ReadHostProofs!DataReachesItsUser` | `RoutedToUser` | `IInv` |
| `RpcSendProofs!SendsFramed` | `TxFramed` | `IInv` |
| `RpcSendProofs!ObjectsReadToTheEnd` | `ObjectsReadWhole` | `IInv`, `ReadInv` |
| `MemCtlProofs!PoolAlwaysTiled` | `PoolTiled` | `IInv` |
| `MemCtlProofs!NoBlockLost` | `OwnBlocksLogged` | `IInv` |
| `MemCtlProofs!MemCtlImplementsPool` | `ImplementsPool` (refinement of `BlockPool`) | `IInv` |
| `CompressClientProofs!RequestNeverLost` | `RequestsKept`, for `CONCURRENCY = 1` | `IInv` |

**Streams.** What the card promises is about the head of a queue, and that is never
inductive: after a pop nothing is known of the next element. The idea common to all
these proofs is that a queue carries a piece of a stream. `FifoLemmas!Chain(q, K, F, a, z)`
says that the elements of `q` are those from place `a` up to place `z` of the stream in
which `F` leads from a place to the next; a push moves `z`, a pop moves `a`
(`ChainPush`, `ChainPop`). An invariant then ties the two ends to the registers of the
machines that push and pop, and the head is the element at `a`.

* `SplitDeProofs`: `OrderInv` orders both queues of the dispatcher (`MetasInOrder`,
  `BeatsInOrder`), ties the tail of the data queue to what the network sends next
  (`TailInStep`) and says the same for an empty queue (`EmptyInStep`). `LaneAligned` adds
  that the beats of a lane are a stream of the RPCs the lane was given, which skips those
  of other lanes and the dropped ones. `DropOnlyUnderLoad` needs `DropInv`: in `sDropMeta`
  more than `DROP_LIMIT` metas wait, because only the dispatcher takes metas out.
* `RpcReceiveProofs`, first part (`NetToMem`): `WriterOK` adds up the bytes of the newest
  message, `ReaderOK` says that the waiting lengths are those of the next messages, `DataOK`
  that the beats between the reader's and the writer's place are in the queue, in order and
  rightly marked, and that the end of every complete message is there. Their conjunction
  `IInv` is preserved by every step that loses no length, so that `Sound`, `IInv` until a
  length is lost, is inductive for all lengths of messages. `LossOnlyShort` then needs a
  count (`RoomForLength`): `Gap` bounds from below the number of beats between two places
  by `MinBeats` per message. While no message has been `Short` that is `Fewest`, the beats
  per place of the length queue, and with `LEN_DEPTH` lengths waiting the data queue would
  have to be fuller than it can be.
* `RpcReceiveProofs`, second part (`RpcReceive`): `DispatchOK` continues the two streams of
  `NetToMem` through the queues of `SplitDe`; `Taken` is the last meta the dispatcher took and
  `Front` the place of the beat it sees next. A lane gets only some of the messages, so its
  queues are not chains: `Holds(q, S)` says that a queue has the beats at the places `S`,
  each once and in order. Two things are kept apart. Whatever the headers say, `StreamOK`:
  what a lane has put out followed by what waits in its queue is what the dispatcher has
  passed of the messages given to it. And while the lane is in step, `Lane`: it owes the
  rest of the message it works on and all of those whose metas wait (`Owed`, with the rest
  computed from its length register), its data queue holds what it owes of the places
  before `Front` (`StockOK`), what it has put out is what it announced without that rest
  (`LogOK`), and its lengths are those of the messages (`CountOK`), for which `HeadersOK`
  bounds what a header may say. Moving a beat from the dispatcher to a lane moves `Front`
  by one; `ServeOK` says that the lane served was given that beat's message and no other
  lane was, so for the others nothing changes. The numbers of a lane's messages grow
  (`OrderOK`). An idle lane in step has no rest, so the head of its queue is the first beat
  of the next meta; announced beats that are not out are the rest of the message in work
  and come after all that are. For the refinement `GivenOrLost` adds that the messages up
  to `Taken` have been given to a lane or dropped, so that those which wait in `RpcDelivery`
  are the ones after `Taken`; the steps of `SplitDe` that take a meta are `Give` and `Drop`,
  a beat passed by a lane is `Put`: it follows the last one of the lane's log
  (`FollowStream`) because log and queue are one stream, which needs no step count and so
  holds for every header. The first package of a message is `Send`, the step that loses a
  length is `Break` and is only possible after a short message (`LossOnlyShort`), all others
  stutter. Each invariant holds until a length is lost (`ReceiveSound`, `DeliverySound`).
* `ReadHostProofs`: the host data is one stream whose place `<<n, k>>` is beat `k` of the
  `n`-th read. `In` is the place memory sends next (`SenderOK`), `Out` the place the routing
  machine cuts next, computed from the length it has left (`RouterOK`), and
  `host_data_fifo` is the chain between them (`StreamOK`). A user has exactly the beats of
  its own reads before `Out` (`HostOK`): a routed beat is taken by one user (`HostLogTakes`)
  and skipped by the other (`HostLogSkips`). That no two reads share an id, so that a beat
  names one place, follows from `CmdsOK` and `ReadsOK`: reads are of commands the host
  wrote, each for one user, in order. The device data needs no cutting: `DeviceOK` says it
  is what the HBM has sent of the user's commands.
* `DerToMemProofs`: `StreamInv` is built in layers, each resting on the ones before it:
  `MetasOK` (the meta queue and the register are the latest RPCs), `HostOK` (the host queue
  holds the beats from the one the machine writes to the one the deserializer sends),
  `CountOK` (how many notices each thread was sent), `CmdOK` (commands alternate between
  the buffer of an RPC and a notice slot) and `BeatOK` (the beats to the DMA are those of
  the commands, with the mark on the last). `SlotOK` says which notices have reached the
  host; `InPlace` which beats lie in which buffer, and uses that two RPCs with the same
  buffer are not both current and that a part fits its buffer. The device beats go round
  the state machine, so their queue can be ahead of the addresses or behind: `Agree` says
  that the beats still to be written and the addresses still to be issued or used belong
  to the same RPCs. `TypeOK` contains that outside `sIdle` the meta register holds a real
  meta and that the deserializer never has more beats left than the meta says. `RingInv`:
  the free list holds the numbers after the last one handed out, modulo `ENTRY_MOD`,
  although the fill counter wraps at `INDEX_MOD`; it needs that the second is a multiple of
  the first.

* `RpcSendProofs`: nothing in the state records which messages went by, so the streams are
  quantified: `Stream(q, s, e, a, z)` says that `q` holds the beats of the messages `s` from
  place `a` up to place `z`, with `e` more beats per message than its length says. `LaneOK`
  asks for the messages a lane has announced: the waiting metas are the last of them, the
  waiting beats begin where the arbiter is (at the beat it passes next, if it serves this
  lane) and end at the beat the lane sends next, computed from its length register. `NetOK`
  asks for the messages `MemToNet` took over: the beats in the shifter and in the data queue
  are two pieces of that stream (with one beat more each, for the header), the metas that
  wait and the send in work are the last announcements, and the length the engine has left
  is the rest of its message. Both speak of the same beat `k` of the message the arbiter
  passes on, and meet in the meta register. `RegOK` bounds the length registers, so that no
  message is empty and none wraps at 16 bits.
  On the way in, `Stock` says that a queue holds, in order, the rest of the part of the
  object in work and the parts of the objects to come; `ReadOK` ties that rest to the bytes
  the register still counts (`PartLeft`). Ids of commands grow, so that the beats in a
  stream have one order and the head is the next beat of the object in work (`StockPop`).

**The test client.** `RequestsKept` counts requests and says nothing of where they are, so
it is not inductive. `CompressClientProofs!IInv` says of every client that its one request
is in exactly one of six places (`TokenOK`: in the leader's hands, in a push half done by
the leader, in the queue, outstanding, in the callback, in the callback's half done push).
So leader and callback are never both inside a push, and the two steps in which each reads
and writes `req_id_` or `head_` cannot lose an update; `HeadOK` and `QueueOK` then tie the
places of the queue to `head_` and `tail_`, modulo the width of the counters. The leader's
ping is in the queue or on its way there before any request is, and needs one more place
(`PingOK`). With more requests per client there can be two producers and the argument
ends; the run `compress_async` shows what the skipped id does then.

**The memory pool.** `MemCtlProofs!IInv` says who can be past the mutex, that free and used
blocks and the block between `FreeErase` and `FreeMerge` are disjoint and fill the pool,
and that what `findFreeChunk` found is still there when it is used. Merging is stated by
neighbours: no free block ends where another begins. That the chunks tile the pool is
stated without a sum over blocks: every byte lies in one. The two facts about finite sets
of addresses that need a least element are taken from `WellFoundedInduction`. Each step of
`alloc` and `free` is then a step of `BlockPool` or none; `alloc` fails there only when no
gap between the blocks is large enough.

**Only model-checked.** The liveness properties: fairness and `ENABLED` are beyond the
prover. The properties of `MessageCodec` and `Serializer`: walks and varints are recursive
over the data, which the prover cannot follow by induction.

## 5. Not modelled

Listed with reasons in `PROJECT.json`. In short:

* **Card:** the client's load generator (`ReadHostClient`), `EngineSim`, the HBM bridge
  (`AXISToHbm`), the register decoder and `ClassMetaTable`, the host read router, the
  decoder machines, `Serializerhw`, and the writers that put words together from bytes
  (`WriteSer`, `WriteDeser`). Of `Serializer` the states that take scalars from the device
  buffer and repeated sub-messages: the driver produces neither.
* **Host:** the device files, page tables and registers around `MemCtl`, connection set-up
  and statistics of the test client, the timing code of the drivers.
* **The 64int micro benchmark.** It registers 65 fields in `wire_type[52]` and
  `field_id[64]`; `wire_type[52]` is the byte of `field_id[0]`, so `RegistrationKept` does
  not hold for it, and nothing the walks do with it can be right.
* **Lengths the card writes for upper levels.** On return to a level `Serializer` goes on
  from the sub-message's length, and it counts a field again in every cycle it waits for
  it. The model does the same; no property is about the result, which is not the number of
  bytes of the level.
* Pin and clock level tops, probes, generated Verilog, the BlueField copy of the software
  encoder, baselines and third party code other than the queue.

## 6. Plan

Done: the receive and send paths of the card, the software codec with the card's
memory-affinity serializer, the memory pool, the client of the end-to-end test, two
refinements, and the theorems of section 4. Every safety property of the card's data path,
of the memory pool and of the test client that a passing run checks is proved, except
`LeftBehind`.

Next modules:
1. `ReadHostClient`'s window of outstanding RPCs against a card that drops RPCs.
2. `EngineSim` and the host read router, composed with two `ReadHost` instances.
3. `AXISToHbm`, composed with `DerToMem` in place of the external HBM.
4. `ControlMul` and `ClassMetaTable`.
5. An end to end composition of `RpcSend` and `RpcReceive`.
6. A proof of `LeftBehind`: how many beats of each message a lane out of step has passed.
