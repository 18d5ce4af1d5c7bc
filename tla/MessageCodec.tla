---------------------------- MODULE MessageCodec ----------------------------
(***************************************************************************)
(* The software half of the serializer (encode_main.h, no_encode_main.h).  *)
(* A message is a tree of generated objects.  One depth-first walk tells    *)
(* the card the layout of every class and moves the long strings into the  *)
(* device buffer (SendMetadataToFPGA), a second one sizes the rest          *)
(* (ByteSizeLong), a third one writes it to the host buffer                 *)
(* (SerializeToString), a fourth one reads it back (ParseFromString).  The  *)
(* walks share nothing but the registered metadata: they agree only if      *)
(* each of them takes the same decision at every field.                     *)
(***************************************************************************)
EXTENDS MessageTypes, Varint, SequencesExt

CONSTANTS
    Benches,   \* name of a bench |-> its classes, sizes, registration, messages
    Builds,    \* <<bench, encoding>>: what the driver may be compiled for, with varints
               \* ("encode", encode.h) or fixed widths ("no_encode", no_encode.h)
    Inputs,    \* name of a bench |-> what the values of a message may be:
               \* the integer, which members are marked (residues of class +
               \* position) and the lengths of the strings of a marked vector
    ShortLen,  \* the length of a string that is not marked
    Garbage    \* what an element of the uninitialised FPGA_metadataVec may hold

ASSUME CodecAssumption ==
    /\ \A b \in Builds : b[1] \in DOMAIN Benches /\ b[2] \in {"encode", "no_encode"}
    /\ \A b \in Builds : \A d \in Inputs[b[1]] :
        d.int \in Seq(0..127) /\ d.marked \subseteq 0..2 /\ d.shape \in Seq(Nat)
    /\ ShortLen \in Nat /\ Garbage \subseteq Nat

VARIABLES
    pc,          \* where main() is: a walk, or between two of them
    bench,       \* the bench the driver was compiled with
    encoding,    \* and the encoding (NO_ENCODE)
    message,     \* the message BenchmarkInit built: its class and what its values are
    layout,      \* metadataVec, messageSizeVec and members of the classes it is made of
    junk,        \* the value the stack array FPGA_metadataVec starts with
    hw,          \* SendMetadataToFPGA_hw instead of SendMetadataToFPGA
    frames,      \* the calls of the running walk, the innermost last
    fpga,        \* FPGA_metadataVec: half-word address |-> value, where written
    minmax,      \* <<min_class_id, max_class_id>>
    device,      \* p_c2h: the blocks of the device buffer
    deviceSize,  \* p_c2h_buffer_size
    skip,        \* skip_long_string_flag
    host,        \* p_h2c: the fields of the host buffer
    totalSize,   \* total_size
    parsed       \* what ParseFromString built, and how far it has read

built == <<bench, encoding, message, layout, junk>>
upload == <<hw, fpga, minmax, device, deviceSize>>
written == <<skip, host, totalSize>>
vars == <<pc, frames, built, upload, written, parsed>>

(* f(1) + ... + f(n), and the concatenation of g(1), ..., g(n).             *)
Total(n, f(_)) == LET t[k \in 0..n] == IF k = 0 THEN 0 ELSE t[k-1] + f(k) IN t[n]
Concat(n, g(_)) == LET t[k \in 0..n] == IF k = 0 THEN <<>> ELSE t[k-1] \o g(k) IN t[n]

(* Memory after the writes w, pairs <<address, value>>, made in this order. *)
Written(w) ==
    LET mem[k \in 0..Len(w)] ==
            IF k = 0 THEN <<>> ELSE (w[k][1] :> w[k][2]) @@ mem[k-1]
    IN  mem[Len(w)]

-----------------------------------------------------------------------------
(* metadataVec: Metadata is 128 bytes, { field_num: 8; class_id: 4;         *)
(* wire_type[52]; field_id[64] }.  An index past the end of an array reaches *)
(* what lies behind it.                                                     *)

FieldNumAt(c) == 128 * c
ClassIdAt(c) == 128 * c + 8
WireTypeAt(c, i) == 128 * c + 12 + (i - 1)

(* As if wire_type had 16 elements.                                         *)
FieldIdAtShort(c, i) == 128 * c + 28 + (i - 1)

FieldIdAt(c, i) == 128 * c + 64 + (i - 1)

(* The assignments RegisterTestClass makes for one class, in its order.     *)
RegisterWrites(r) ==
    LET n == Len(r[2])
    IN  <<<<ClassIdAt(r[1]), r[1]>>, <<FieldNumAt(r[1]), n>>>> \o
        [k \in 1..(2 * n) |->
            IF k % 2 = 1 THEN <<WireTypeAt(r[1], (k + 1) \div 2), r[2][(k + 1) \div 2]>>
                         ELSE <<FieldIdAt(r[1], k \div 2), r[3][k \div 2]>>]

(* metadataVec[c] once all classes are registered, one after the other: what *)
(* their assignments left in its 128 bytes; a byte nobody wrote is 0.       *)
RegisterTestClass(reg, c) ==
    LET Reaches(r) == r[1] <= c /\ FieldIdAt(r[1], Len(r[3])) >= 128 * c
        writes == FlattenSeq([k \in DOMAIN SelectSeq(reg, Reaches) |->
                                RegisterWrites(SelectSeq(reg, Reaches)[k])])
        mem == Written(writes)
        Byte(a) == IF a \in DOMAIN mem THEN mem[a] ELSE 0
        num == Byte(FieldNumAt(c))
    IN  [num  |-> num,
         wire |-> [i \in 1..num |-> Byte(WireTypeAt(c, i))],
         id   |-> [i \in 1..num |-> Byte(FieldIdAt(c, i))]]

metadataVec(c) == layout[c].meta
Class(c) == layout[c].class
messageSizeVec(c) == layout[c].size

(* A value that is no case of the switch does nothing.                      *)
EncOf(wt) == IF wt \in WireTypes THEN WireInfo[wt].enc ELSE "none"
Repeated(wt) == wt \in WireTypes /\ WireInfo[wt].rep
(* A string taken for a vector.                                             *)
StepOfVectors(wt) == IF EncOf(wt) = "string" \/ Repeated(wt) THEN 24 ELSE 8

StepOf(wt) == IF wt \in WireTypes THEN Step(wt) ELSE 0

-----------------------------------------------------------------------------
(* Objects.  A message is a tree of objects; an object is known by the path *)
(* of members that leads to it from the top.  A value is a sequence of      *)
(* atoms, one for a single member, one per element for a vector: a string   *)
(* is known by where it comes from and its length, an integer by its        *)
(* chunks.                                                                  *)

Marked(c, k) == (c + k) % 3 \in message.marked

Elements(c, k) == IF Marked(c, k) THEN Len(message.shape) ELSE 1

Strings(c, k) ==
    IF Class(c)[k].t = "vector<string>"
    THEN IF Marked(c, k) THEN message.shape ELSE <<ShortLen>>
    ELSE <<IF Marked(c, k) THEN Max({ShortLen} \cup Range(message.shape)) ELSE ShortLen>>

(* The integer as a member of type t has it.                                *)
Integer(t) ==
    CASE t \in {"bool", "vector<uint8_t>"} -> Chunks(message.int[1] % 2)
      [] t \in {"int64_t", "uint64_t", "double", "ptr", "vector<int64_t>",
                "vector<uint64_t>"} -> message.int
      [] OTHER -> Uint32(message.int)

Value(p, c, k) ==
    LET t == Class(c)[k].t
        s == Strings(c, k)
        v == Integer(t)
    IN  IF t \in {"string", "vector<string>"}
        THEN [j \in DOMAIN s |-> [at |-> <<p, k, j>>, n |-> s[j], v |-> <<>>]]
        ELSE [j \in 1..(IF t \in VectorTypes THEN Elements(c, k) ELSE 1) |->
                [at |-> <<p, k, j>>, n |-> 0, v |-> v]]

(* The objects of a message, as <<path, class>>; the pointers of a class of  *)
(* the program `class' are followed `Depth' levels.                         *)
Depth == 16
Objects(class, c) ==
    LET Below(o) == {<<Append(o[1], k), class[o[2]][k].sub>> :
                        k \in {j \in DOMAIN class[o[2]] : class[o[2]][j].sub # 0}}
        level[n \in 0..Depth] == IF n = 0 THEN {<< <<>>, c >>}
                                 ELSE UNION {Below(o) : o \in level[n-1]}
    IN  UNION {level[n] : n \in 0..Depth}

AllObjects == Objects([c \in DOMAIN layout |-> layout[c].class], message.top)

(* The member a walk finds at an offset of an object of class c, 0 if none. *)
Found(c, off) ==
    LET at == layout[c].offset
        find[i \in 0..Len(at)] == IF i = 0 \/ at[i] = off THEN i ELSE find[i-1]
    IN  IF find[Len(at)] \in DOMAIN Class(c) THEN find[Len(at)] ELSE 0

-----------------------------------------------------------------------------
(* Sizes (encode.h, no_encode.h).                                           *)

VarintSize32(n) == IF encoding = "no_encode" THEN 4 ELSE VarintSize(Chunks(n))

TagSize(id) == IF encoding = "no_encode" THEN 4 ELSE IF id < 16 THEN 1 ELSE 2

(* Int32Size as UInt32Size.                                                 *)
ValueSizeUnsigned(enc, a, boolSize) ==
    CASE enc \in {"int32", "uint32"} ->
            IF encoding = "no_encode" THEN 4 ELSE VarintSize(a.v)
      [] enc = "uint64" -> IF encoding = "no_encode" THEN 8 ELSE VarintSize(a.v)
      [] enc = "bool" -> boolSize
      [] enc = "fix32" -> 4
      [] enc = "fix64" -> 8
      [] enc = "string" -> VarintSize32(a.n) + a.n
      [] OTHER -> 0

(* Int32Size, Int64Size, ..., StringSize of one value.                      *)
ValueSize(enc, a, boolSize) ==
    CASE enc = "int32" ->
            IF encoding = "no_encode" THEN 4 ELSE VarintSize(SignExtended(a.v))
      [] enc = "uint32" -> IF encoding = "no_encode" THEN 4 ELSE VarintSize(a.v)
      [] enc = "uint64" -> IF encoding = "no_encode" THEN 8 ELSE VarintSize(a.v)
      [] enc = "bool" -> boolSize
      [] enc = "fix32" -> 4
      [] enc = "fix64" -> 8
      [] enc = "string" -> VarintSize32(a.n) + a.n
      [] OTHER -> 0

SizeSum(enc, v, boolSize) == Total(Len(v), LAMBDA j : ValueSize(enc, v[j], boolSize))

Long(v) == \E j \in DOMAIN v : v[j].n > 1024

(* Only the first string of a vector looked at.                             *)
LeftOutFirst(wt, v, flag) ==
    flag /\ EncOf(wt) = "string" /\ v # <<>> /\ v[1].n > 1024

(* A string field the host buffer leaves out: with skip_long_string_flag, a  *)
(* long string or a vector with a long string in it.                        *)
LeftOut(wt, v, flag) == flag /\ EncOf(wt) = "string" /\ Long(v)

-----------------------------------------------------------------------------
(* The walks.  A frame is one call: the object and its class, the field the *)
(* loop is at, obj_addr relative to the object, and the two locals of       *)
(* SendMetadataToFPGA.                                                      *)

Frame(p, c, i, at) == [p |-> p, c |-> c, i |-> i, at |-> at, max |-> 0, len |-> 0]
DownFrame(p, c) == Frame(p, c, metadataVec(c).num, messageSizeVec(c))
UpFrame(p, c) == Frame(p, c, 1, 16)

TopFrame == Last(frames)
InField == frames # <<>> /\ TopFrame.i \in 1..metadataVec(TopFrame.c).num
AtReturn == frames # <<>> /\ ~InField

(* The field a frame is at.  A walk down subtracts the size of the member   *)
(* before it looks at it, the walk up adds it afterwards.                   *)
FieldAt(f, at) ==
    LET k == Found(f.c, at)
    IN  [wt |-> metadataVec(f.c).wire[f.i], id |-> metadataVec(f.c).id[f.i],
         k |-> k, v |-> IF k = 0 THEN <<>> ELSE Value(f.p, f.c, k)]

DownAt(f) == f.at - StepOf(metadataVec(f.c).wire[f.i])
Down(f) == FieldAt(f, DownAt(f))
Up(f) == FieldAt(f, f.at)

NextDown(f) == [f EXCEPT !.i = @ - 1, !.at = DownAt(f)]
NextUp(f) == [f EXCEPT !.i = @ + 1, !.at = @ + StepOf(metadataVec(f.c).wire[f.i])]

(* The calls after the field: the loop goes on in f, or calls itself for    *)
(* the object below.                                                        *)
GoOn(f) == Append(Front(frames), f)
Call(f, g) == Append(GoOn(f), g)

IsPointer(x) == EncOf(x.wt) = "ptr" /\ x.k # 0
Child(f, x) == Append(f.p, x.k)
ChildClass(f, x) == Class(f.c)[x.k].sub

(* A walk returns from its outermost call.                                  *)
Return(walk, then) ==
    /\ pc = walk /\ AtReturn
    /\ frames' = Front(frames)
    /\ pc' = IF Len(frames) = 1 THEN then ELSE pc

-----------------------------------------------------------------------------
(* BenchmarkInit: one of the messages.                                      *)

Init ==
    /\ pc = "init"
    /\ \E b \in Builds : bench = b[1] /\ encoding = b[2]
    /\ message = [top |-> 0, int |-> <<>>, marked |-> {}, shape |-> <<>>]
    /\ layout = <<>>
    /\ junk \in Garbage
    /\ hw = FALSE
    /\ frames = <<>>
    /\ fpga = <<>>
    /\ minmax = <<65535, 0>>
    /\ device = <<>> /\ deviceSize = 0
    /\ skip = FALSE
    /\ host = <<>> /\ totalSize = 0
    /\ parsed = [val |-> <<>>, obj |-> {}, next |-> 1]

BenchmarkInit ==
    /\ pc = "init"
    /\ pc' = "ready"
    /\ LET b == Benches[bench]
       IN  \E idx \in DOMAIN b.messages :
            /\ layout' = [c \in {o[2] : o \in Objects(b.class, b.messages[idx])} |->
                            [class |-> b.class[c], offset |-> b.offset[c],
                             size |-> b.size[c], meta |-> RegisterTestClass(b.reg, c)]]
            /\ \E d \in Inputs[bench] :
                message' = [top |-> b.messages[idx], int |-> d.int,
                            marked |-> d.marked, shape |-> d.shape]
    /\ UNCHANGED <<bench, encoding, junk, frames, upload, written, parsed>>

-----------------------------------------------------------------------------
(* SendMetadataToFPGA and SendMetadataToFPGA_hw.                            *)

(* FPGA_Metadata in half-words: class_id, max_field_number, class_length    *)
(* (two), then type and sub_class_id of each of 46 fields.                  *)
FpgaClassIdAt(c) == 96 * c
FpgaMaxFieldAt(c) == 96 * c + 1
FpgaLengthAt(c) == 96 * c + 2
FpgaTypeAt(c, id) == 96 * c + 4 + 2 * id
FpgaSubAt(c, id) == 96 * c + 5 + 2 * id

(* An element the walk did not write still holds what the stack held.       *)
Fpga(a) == IF a \in DOMAIN fpga THEN fpga[a] ELSE junk

Aligned(n) == ((n + 63) \div 64) * 64
BlocksOf(a) == Aligned(a.n) \div 64

(* Bit 0: the field is in the host buffer, bit 1: it is repeated.           *)
FpgaType(wt, v) ==
    (IF EncOf(wt) = "string" /\ Long(v) THEN 0 ELSE 1)
    + (IF Repeated(wt) THEN 2 ELSE 0) + 4 * WireInfo[wt].fpga

(* sub_class_id of a field that is no sub-message: 0, and for the hardware   *)
(* serializer the elements of a vector or the 64-byte blocks of a string;   *)
(* there a vector of strings adds to what the element held before, and a    *)
(* vector of bytes keeps the blocks of its first element.                   *)
SubWrites(c, x) ==
    LET at == FpgaSubAt(c, x.id)
        string == EncOf(x.wt) = "string"
    IN  CASE ~hw -> <<<<at, 0>>>>
          [] hw /\ string /\ ~Repeated(x.wt) -> <<<<at, BlocksOf(x.v[1])>>>>
          [] hw /\ string /\ Repeated(x.wt) ->
                IF ~Long(x.v) THEN <<>>
                ELSE IF x.wt = sw_repeated_bytes_type THEN <<<<at, BlocksOf(x.v[1])>>>>
                ELSE <<<<at, Fpga(at) + Total(Len(x.v), LAMBDA j : BlocksOf(x.v[j]))>>>>
          [] hw /\ ~string /\ Repeated(x.wt) -> <<<<at, Len(x.v)>>>>
          [] OTHER -> <<<<at, 0>>>>

ClassLengthOf(wt) ==
    IF ~Repeated(wt) /\ EncOf(wt) \in {"int32", "uint32", "bool", "fix32"} THEN 4 ELSE 8

(* A piece of a buffer: its kind, the data it holds, where that data comes   *)
(* from (<<>> for sizes and counts) and its bytes.                          *)
Piece(k, at, x, w) == [k |-> k, at |-> at, x |-> x, w |-> w]
Block(k, x, w) == Piece(k, <<>>, x, w)

(* The blocks a long string adds to p_c2h; a vector goes last element first. *)
StringBlocks(a) == <<Block("size", Aligned(a.n), 64), Piece("data", a.at, a, Aligned(a.n))>>

DeviceBlocks(wt, v) ==
    IF ~(EncOf(wt) = "string" /\ Long(v)) THEN <<>>
    ELSE (IF Repeated(wt) THEN <<Block("count", Len(v), 64)>> ELSE <<>>)
         \o Concat(Len(v), LAMBDA j : StringBlocks(v[Len(v) + 1 - j]))

DeviceBytes(wt, v) ==
    IF ~(EncOf(wt) = "string" /\ Long(v)) THEN 0
    ELSE (IF Repeated(wt) THEN 64 ELSE 0)
         + Total(Len(v), LAMBDA j : 64 + Aligned(v[j].n))

(* min_class_id follows the last class met.                                 *)
WidenLast(r, c) == <<c, IF c > r[2] THEN c ELSE r[2]>>

(* What every call does first: its class id goes to its entry and into the  *)
(* range.                                                                   *)
EnterWrites(c) == FpgaClassIdAt(c) :> c
Widen(r, c) == <<IF c < r[1] THEN c ELSE r[1], IF c > r[2] THEN c ELSE r[2]>>

SendMetadataToFPGA(mode) ==
    /\ pc = "ready"
    /\ pc' = "send"
    /\ hw' = mode
    /\ frames' = <<DownFrame(<<>>, message.top)>>
    /\ fpga' = EnterWrites(message.top)
    /\ minmax' = Widen(minmax, message.top)
    /\ UNCHANGED <<built, device, deviceSize, written, parsed>>

(* The locals of the call after field x.                                    *)
Counted(f, x) ==
    [f EXCEPT !.max = IF x.id > @ THEN x.id ELSE @,
              !.len = @ + IF x.wt \in WireTypes THEN ClassLengthOf(x.wt) ELSE 0]

SendField ==
    /\ pc = "send" /\ InField
    /\ LET f == TopFrame
           x == Down(f)
       IN  /\ ~IsPointer(x)
           /\ frames' = GoOn(Counted(NextDown(f), x))
           /\ fpga' = IF x.wt \notin WireTypes THEN fpga
                      ELSE Written(<<<<FpgaTypeAt(f.c, x.id), FpgaType(x.wt, x.v)>>>>
                                   \o SubWrites(f.c, x)) @@ fpga
           /\ device' = device \o DeviceBlocks(x.wt, x.v)
           /\ deviceSize' = deviceSize + DeviceBytes(x.wt, x.v)
    /\ UNCHANGED <<pc, built, hw, minmax, written, parsed>>

SendPointer ==
    /\ pc = "send" /\ InField
    /\ LET f == TopFrame
           x == Down(f)
           c == ChildClass(f, x)
       IN  /\ IsPointer(x)
           /\ frames' = Call(Counted(NextDown(f), x), DownFrame(Child(f, x), c))
           /\ fpga' = EnterWrites(c) @@ (FpgaTypeAt(f.c, x.id) :> FpgaType(x.wt, x.v))
                      @@ (FpgaSubAt(f.c, x.id) :> c) @@ fpga
           /\ minmax' = Widen(minmax, c)
    /\ UNCHANGED <<pc, built, hw, device, deviceSize, written, parsed>>

SendReturn ==
    /\ Return("send", "call")
    /\ fpga' = (FpgaMaxFieldAt(TopFrame.c) :> TopFrame.max)
               @@ (FpgaLengthAt(TopFrame.c) :> TopFrame.len) @@ fpga
    /\ UNCHANGED <<built, hw, minmax, device, deviceSize, written, parsed>>

-----------------------------------------------------------------------------
(* SerializeToString: first ByteSizeLong, two bytes of length, the tag and  *)
(* the value of every field that is not left out.                           *)

SerializeToString(flag) ==
    /\ pc = "call"
    /\ pc' = "size"
    /\ skip' = flag
    /\ frames' = <<UpFrame(<<>>, message.top)>>
    /\ UNCHANGED <<built, upload, host, totalSize, parsed>>

(* What ByteSizeLong counts for a bool.                                     *)
ByteSizeBool == IF encoding = "no_encode" THEN 4 ELSE 1

ByteSizeOf(x) ==
    LET s == SizeSum(EncOf(x.wt), x.v, ByteSizeBool)
    IN  IF x.wt \notin WireTypes \/ LeftOut(x.wt, x.v, skip) THEN 0
        ELSE 2 + TagSize(x.id) + s + IF Repeated(x.wt) THEN VarintSize32(s) ELSE 0

SizeField ==
    /\ pc = "size" /\ InField
    /\ LET f == TopFrame
           x == Up(f)
       IN  \/ /\ ~IsPointer(x)
              /\ frames' = GoOn(NextUp(f))
              /\ totalSize' = totalSize + ByteSizeOf(x)
           \/ /\ IsPointer(x)
              /\ frames' = Call(NextUp(f), UpFrame(Child(f, x), ChildClass(f, x)))
              /\ UNCHANGED totalSize
    /\ UNCHANGED <<pc, built, upload, skip, host, parsed>>

(* total_size is complete; SerializeToString_DFS starts on the same object. *)
SizeReturn ==
    /\ pc = "size" /\ AtReturn
    /\ IF Len(frames) = 1
       THEN pc' = "write" /\ frames' = <<DownFrame(<<>>, message.top)>>
       ELSE pc' = pc /\ frames' = Front(frames)
    /\ UNCHANGED <<built, upload, written, parsed>>

-----------------------------------------------------------------------------
(* SerializeToString_DFS.                                                   *)

(* The length of a packed field not counted.                                *)
FieldPrefixPlain(wt, id, v) == (SizeSum(EncOf(wt), v, 1) + TagSize(id)) % 65536

(* current_field_size: a uint16_t all along, so it wraps while it is summed *)
(* and VarintSize32 sees the wrapped value; a bool counts 1 in either       *)
(* encoding.                                                                *)
FieldPrefix(wt, id, v) ==
    LET s == SizeSum(EncOf(wt), v, 1) % 65536
    IN  (s + TagSize(id) + IF Repeated(wt) THEN VarintSize32(s) ELSE 0) % 65536

(* What UnsafeVarint leaves in the buffer: the varint, or with fixed widths *)
(* the n bytes of the integer as they are.                                  *)
VarintPiece(k, at, v, n) ==
    IF encoding = "no_encode" THEN Piece(k, at, v, n)
    ELSE LET b == UnsafeVarint(v) IN Piece(k, at, b, Len(b))

LengthPiece(n) == VarintPiece("length", <<>>, Chunks(n), 4)

(* The bytes Write...NoTagToArray emits for one value.                      *)
ValuePieces(enc, a) ==
    CASE enc = "string" -> <<LengthPiece(a.n), Piece("data", a.at, a, a.n)>>
      [] enc = "int32" ->
            <<VarintPiece(enc, a.at,
                          IF encoding = "no_encode" THEN a.v ELSE SignExtended(a.v), 4)>>
      [] enc \in {"uint32", "bool"} -> <<VarintPiece(enc, a.at, a.v, 4)>>
      [] enc = "uint64" -> <<VarintPiece(enc, a.at, a.v, 8)>>
      [] enc = "fix32" -> <<Piece(enc, a.at, a.v, 4)>>
      [] enc = "fix64" -> <<Piece(enc, a.at, a.v, 8)>>

(* The bytes a field takes behind its prefix, and where the next one goes.   *)
FieldBytes(f) == Total(Len(f.toks), LAMBDA j : f.toks[j].w)
HostEnd == IF host = <<>> THEN 0 ELSE Last(host).at + 2 + FieldBytes(Last(host))

(* The length a packed field announces: the sizes of its elements, 1 for a  *)
(* bool.                                                                    *)
PackedLength(wt, v) == SizeSum(EncOf(wt), v, 1)

FieldWritten(x) ==
    LET n == PackedLength(x.wt, x.v)
    IN  [len |-> FieldPrefix(x.wt, x.id, x.v),
         tag |-> x.id,
         at |-> HostEnd,
         toks |-> <<VarintPiece("tag", <<>>, TagOf(x.id, 0), 4)>>
                  \o (IF Repeated(x.wt) THEN <<LengthPiece(n)>> ELSE <<>>)
                  \o Concat(Len(x.v), LAMBDA j : ValuePieces(EncOf(x.wt), x.v[j]))]

WriteField ==
    /\ pc = "write" /\ InField
    /\ LET f == TopFrame
           x == Down(f)
       IN  \/ /\ ~IsPointer(x)
              /\ frames' = GoOn(NextDown(f))
              /\ host' = IF x.wt \notin WireTypes \/ LeftOut(x.wt, x.v, skip) THEN host
                         ELSE Append(host, FieldWritten(x))
           \/ /\ IsPointer(x)
              /\ frames' = Call(NextDown(f), DownFrame(Child(f, x), ChildClass(f, x)))
              /\ UNCHANGED host
    /\ UNCHANGED <<pc, built, upload, skip, totalSize, parsed>>

WriteReturn ==
    /\ Return("write", "command")
    /\ UNCHANGED <<built, upload, written, parsed>>

(* ser_cmd.class_id = min_class_id.                                         *)
CommandClass == minmax[1]

-----------------------------------------------------------------------------
(* ParseFromString, run on the host buffer that was written.  It relies on  *)
(* the flags SendMetadataToFPGA left, so it reads what was written with the *)
(* long strings left out, as varints.                                       *)

ParseFromString ==
    /\ pc = "command" /\ skip /\ encoding = "encode"
    /\ pc' = "parse"
    /\ frames' = <<DownFrame(<<>>, message.top)>>
    /\ parsed' = [parsed EXCEPT !.obj = {<< <<>>, message.top >>}]
    /\ UNCHANGED <<built, upload, written>>

(* A value from its piece: varints are decoded, 32 bits wide or 64.         *)
ReadValue(enc, piece) ==
    CASE enc \in {"int32", "uint32", "bool"} -> ReadVarint32(piece.x)
      [] enc = "uint64" -> ReadVarint64(piece.x)
      [] OTHER -> piece.x

(* Stops one element early.                                                 *)
ReadPackedShort(enc, toks, left) ==
    LET n == IF enc = "string" THEN 2 ELSE 1
        size == Len(toks) \div n
    IN  [j \in 1..(IF size = 0 THEN 0 ELSE size - 1) |-> ReadValue(enc, toks[j * n])]

(* Reading elements while fewer than `left' bytes of a packed field are     *)
(* consumed; what the element is made of depends on the case.               *)
ReadPacked(enc, toks, left) ==
    LET n == IF enc = "string" THEN 2 ELSE 1
        used[j \in 0..(Len(toks) \div n)] ==
            IF j = 0 THEN 0
            ELSE used[j-1] + Total(n, LAMBDA t : toks[(j - 1) * n + t].w)
        read == {j \in 1..(Len(toks) \div n) : used[j-1] < left}
    IN  [j \in 1..Cardinality(read) |-> ReadValue(enc, toks[j * n])]

(* Behind the tag.                                                          *)
ReadField(wt, toks) ==
    IF Repeated(wt)
    THEN ReadPacked(EncOf(wt), SubSeq(toks, 3, Len(toks)), Number(ReadVarint32(toks[2].x)))
    ELSE <<ReadValue(EncOf(wt), toks[Len(toks)])>>

(* skip_flag: the entry of the field says that it is not in the buffer.     *)
NotInHost(f, x) == Fpga(FpgaTypeAt(f.c, x.id)) % 2 = 0

ParseField ==
    /\ pc = "parse" /\ InField
    /\ LET f == TopFrame
           x == Down(f)
       IN  \/ /\ x.wt \notin WireTypes \/ (~IsPointer(x) /\ NotInHost(f, x))
              /\ frames' = GoOn(NextDown(f))
              /\ UNCHANGED parsed
           \/ /\ x.wt \in WireTypes /\ ~IsPointer(x) /\ ~NotInHost(f, x)
              /\ parsed.next \in DOMAIN host
              /\ frames' = GoOn(NextDown(f))
              /\ parsed' = [parsed EXCEPT
                    !.val = (<<f.p, x.k>> :> ReadField(x.wt, host[parsed.next].toks)) @@ @,
                    !.next = @ + 1]
           \/ /\ IsPointer(x)
              /\ LET c == Fpga(FpgaSubAt(f.c, x.id))
                 IN  /\ frames' = Call(NextDown(f), DownFrame(Child(f, x), c))
                     /\ parsed' = [parsed EXCEPT !.obj = @ \cup {<<Child(f, x), c>>}]
    /\ UNCHANGED <<pc, built, upload, written>>

ParseReturn ==
    /\ Return("parse", "parsed")
    /\ UNCHANGED <<built, upload, written, parsed>>

-----------------------------------------------------------------------------
Host ==
    \/ BenchmarkInit
    \/ \E mode \in BOOLEAN : SendMetadataToFPGA(mode)
    \/ SendField \/ SendPointer \/ SendReturn
    \/ \E flag \in BOOLEAN : SerializeToString(flag)
    \/ SizeField \/ SizeReturn
    \/ WriteField \/ WriteReturn
    \/ ParseFromString \/ ParseField \/ ParseReturn

(* The program ends after the command, or once it has parsed.               *)
Ended == pc \in {"command", "parsed"} /\ UNCHANGED vars

Next == Host \/ Ended

Spec == Init /\ [][Next]_vars

-----------------------------------------------------------------------------
(* What RegisterTestClass assigned to the wire types and field ids of every *)
(* class is what the walks read: no assignment hits another element.        *)
RegistrationKept ==
    pc = "ready" =>
        \A r \in Range(Benches[bench].reg) :
            r[1] \in DOMAIN layout =>
                metadataVec(r[1]) = [num |-> Len(r[2]), wire |-> r[2], id |-> r[3]]

(* The walk up (ByteSizeLong) and the walks down from sizeof find, for      *)
(* every field, the member the field was registered for, and cast it to a   *)
(* type it has; when a walk leaves an object it has seen all of it.         *)
WalkInStep ==
    /\ pc \in {"send", "size", "write", "parse"} /\ InField =>
        LET f == TopFrame
            x == IF pc = "size" THEN Up(f) ELSE Down(f)
        IN  /\ x.k = f.i
            /\ x.wt \in WireTypes /\ Class(f.c)[f.i].t \in WireInfo[x.wt].t
    /\ pc \in {"send", "size", "write", "parse"} /\ AtReturn =>
        TopFrame.at = IF pc = "size" THEN messageSizeVec(TopFrame.c) ELSE 16

(* The lengths the driver puts into the command (host_length and            *)
(* device_length) are the bytes the other walks wrote.                      *)
LengthsExact ==
    pc = "command" =>
        /\ totalSize = Total(Len(host), LAMBDA k : 2 + FieldBytes(host[k]))
        /\ deviceSize = Total(Len(device), LAMBDA k : device[k].w)

(* The length in front of a field is the bytes of its tag and value, which   *)
(* is all the card has to step over fields - except that it counts 1 for a  *)
(* bool, and with fixed widths 4 are written: there it is short by 3 bytes   *)
(* for every bool in the field.                                             *)
Bools(f) == Cardinality({j \in DOMAIN f.toks : f.toks[j].k = "bool"})
Missing(f) == IF encoding = "no_encode" THEN 3 * Bools(f) ELSE 0

PrefixExact ==
    pc = "command" =>
        \A k \in DOMAIN host : host[k].len + Missing(host[k]) = FieldBytes(host[k])

(* Every class id between min_class_id and max_class_id is uploaded: its    *)
(* entry was filled by the walk, and every class of the message is there.   *)
UploadFilled ==
    pc = "call" =>
        LET met == {o[2] : o \in AllObjects}
        IN  /\ minmax[1]..minmax[2] = met
            /\ \A c \in met : Fpga(FpgaClassIdAt(c)) = c

(* The command names the class of the message.                              *)
CommandNamesTop == pc = "command" => CommandClass = message.top

Members(o) == {<<o[1], k>> : k \in {j \in DOMAIN Class(o[2]) : Class(o[2])[j].sub = 0}}

(* Where the data of a member went.                                         *)
Sources(pieces) == {<<t.at[1], t.at[2]>> : t \in {u \in Range(pieces) : u.at # <<>>}}
IntoHost == UNION {Sources(host[k].toks) : k \in DOMAIN host}
IntoDevice == Sources(device)

(* With the long strings left out, the two buffers share the message: every *)
(* member that has a value is in exactly one of them, once.                 *)
BuffersPartition ==
    pc = "command" /\ skip =>
        LET all == UNION {Members(o) : o \in AllObjects}
            Full(m) == \E o \in AllObjects :
                            o[1] = m[1] /\ Value(o[1], o[2], m[2]) # <<>>
        IN  /\ IntoHost \cap IntoDevice = {}
            /\ IntoHost \cup IntoDevice = {m \in all : Full(m)}
            /\ Len(host) + Cardinality(IntoDevice) = Cardinality(all)

(* Parsing the host buffer gives back every object and every value but the  *)
(* long strings, and uses up the buffer.                                    *)
ParseRecovers ==
    pc = "parsed" =>
        /\ parsed.next = Len(host) + 1
        /\ parsed.obj = AllObjects
        /\ \A o \in parsed.obj : \A k \in DOMAIN Class(o[2]) :
            LET v == Value(o[1], o[2], k)
                t == Class(o[2])[k].t
            IN  IF t = "ptr" \/ (t \in {"string", "vector<string>"} /\ Long(v))
                THEN <<o[1], k>> \notin DOMAIN parsed.val
                ELSE /\ <<o[1], k>> \in DOMAIN parsed.val
                     /\ parsed.val[<<o[1], k>>] =
                            [j \in DOMAIN v |-> IF v[j].v = <<>> THEN v[j] ELSE v[j].v]
=============================================================================
