----------------------------- MODULE Serializer -----------------------------
(***************************************************************************)
(* The card's half of the memory-affinity serializer (Serializer.scala),   *)
(* run on what the driver left: the uploaded class entries, the host       *)
(* buffer and the device buffer.  It writes the message from its last byte *)
(* to its first, so it meets the fields in the order the walks of the      *)
(* driver wrote them, and needs both buffers to be in step with its own    *)
(* walk over the entries: nothing in the data says which field it is.      *)
(* The host buffer is a stream of bytes to it: it reads two of them as a   *)
(* length, moves as many as they say, and takes the next two as a length   *)
(* again.  A string of the device buffer is its size and its data.         *)
(***************************************************************************)
EXTENDS MessageCodec

VARIABLE card    \* the registers of the state machine

(* field_stack has 13 levels.  How often the card may find its host queue   *)
(* empty in sMoveHostFirst is bounded.                                     *)
StackLevels == 13
MaxStalls == 1

(* remain_bytes and host_data_tmp are what is left of the 64-byte beat at    *)
(* byte pos of the host buffer.                                             *)
CardIdle == [st |-> "sReadSer", want |-> 0, stack |-> <<>>, current_field_num |-> 0,
             sub |-> 0, c_msg_length |-> 0, repeat_num |-> 0, device_field_length |-> 0,
             repeat_device_length |-> 0, device |-> 1,
             pos |-> 0, host_field_length |-> 0, stalls |-> 0]

SerInit == Init /\ card = CardIdle

(* One level: the class, field_num and msg_length as saved there, and the   *)
(* object, which the machine does not know.                                 *)
Level(p, c) == [p |-> p, c |-> c, field_num |-> 0, msg_length |-> 0]
Here == Last(card.stack)

(* The entry of the current field, as sub_metadata splits it.               *)
Entry == [type |-> Fpga(FpgaTypeAt(Here.c, card.current_field_num)),
          sub  |-> Fpga(FpgaSubAt(Here.c, card.current_field_num))]
is_host(e) == e.type % 2 = 1
is_repeated(e) == (e.type \div 2) % 2 = 1
field_type(e) == (e.type \div 4) % 32
TYPE_MESSAGE == 11

(* The member of class c with field id f.                                   *)
MemberWithId(c, f) == {k \in 1..metadataVec(c).num : metadataVec(c).id[k] = f}

(* The bytes of a length and of a tag, from varint.scala.                   *)
LengthBytes(n) == outputBytes(Chunks(n))
TagBytes(f) == outputBytes(TagOf(f, 0))

Goto(s) == [card EXCEPT !.st = s]
Counts(r, n) == [r EXCEPT !.c_msg_length = (@ + n) % 2^20]

-----------------------------------------------------------------------------
(* sReadSer: the command of the driver.  Serializerhw serves the other one. *)
ReadSer ==
    /\ card.st = "sReadSer" /\ pc = "command" /\ skip /\ ~hw
    /\ card' = [Goto("sGetMeta") EXCEPT !.want = CommandClass]

GetMeta ==
    /\ card.st = "sGetMeta" /\ Len(card.stack) < StackLevels
    /\ LET p == IF card.stack = <<>> THEN <<>>
                ELSE Append(Here.p, Max({0} \cup MemberWithId(Here.c, card.current_field_num)))
       IN  card' = [Goto("sReadMeta") EXCEPT
                        !.stack = Append(@, Level(p, card.want)),
                        !.c_msg_length = 0,
                        !.current_field_num = Fpga(FpgaMaxFieldAt(card.want))]

(* A message nested deeper than the stack: stack_num points behind it, what *)
(* is written there is lost and what is read back is not specified.  The    *)
(* model follows the machine no further.                                    *)
Overflow ==
    /\ card.st = "sGetMeta" /\ Len(card.stack) = StackLevels
    /\ card' = Goto("lost")

(* The top-level message ends one field early.                              *)
ReadMetaEarly ==
    /\ card.st = "sReadMeta"
    /\ card' = IF card.current_field_num <= 1 /\ Len(card.stack) = 1 THEN Goto("sEnd")
               ELSE IF card.current_field_num = 0 THEN Goto("sMsgLen")
               ELSE IF field_type(Entry) = 0
               THEN [card EXCEPT !.current_field_num = @ - 1]
               ELSE [Goto("sJudgeField") EXCEPT !.sub = Entry]

ReadMeta ==
    /\ card.st = "sReadMeta"
    /\ card' = IF card.current_field_num = 0
               THEN Goto(IF Len(card.stack) = 1 THEN "sEnd" ELSE "sMsgLen")
               ELSE IF field_type(Entry) = 0
               THEN [card EXCEPT !.current_field_num = @ - 1]
               ELSE [Goto("sJudgeField") EXCEPT !.sub = Entry]

(* Descending saves where the level stands.                                 *)
JudgeField ==
    /\ card.st = "sJudgeField"
    /\ LET e == card.sub
       IN  \/ /\ is_host(e) /\ field_type(e) = TYPE_MESSAGE /\ ~is_repeated(e)
              /\ card' = [Goto("sGetMeta") EXCEPT
                            !.want = e.sub,
                            !.stack = Append(Front(@),
                                [Here EXCEPT !.field_num = card.current_field_num,
                                             !.msg_length = card.c_msg_length])]
           \/ /\ is_host(e) /\ field_type(e) # TYPE_MESSAGE
              /\ card' = Goto("sReadHost")
           \/ /\ ~is_host(e) /\ ~is_repeated(e)
              /\ card' = [Goto("sLengthDelim") EXCEPT !.repeat_num = 0]
           \/ /\ ~is_host(e) /\ is_repeated(e)
              /\ card.device \in DOMAIN device
              /\ card' = [Goto("sRepeatedLengthDelim") EXCEPT
                            !.repeat_num = device[card.device].x % 256,
                            !.device_field_length = 0,
                            !.device = @ + 1]

remain_bytes == (64 - (card.pos % 64)) % 64
HostStream == Aligned(totalSize)

(* The two bytes at pos.  At the start of a field they are its prefix.      *)
(* Elsewhere they are bytes of some value, and any number: the shortest and *)
(* the longest field stand for what the card makes of them.                 *)
LengthsAt(pos) ==
    LET here == {k \in DOMAIN host : host[k].at = pos}
    IN  IF here = {} THEN {0, 65535} ELSE {host[k].len : k \in here}

ReadHost ==
    /\ card.st = "sReadHost" /\ card.pos + 2 <= HostStream
    /\ \E n \in LengthsAt(card.pos) :
        card' = [Goto("sMoveHostFirst") EXCEPT !.host_field_length = n, !.pos = @ + 2]

(* What is in the current beat or, if that is used up, in the next one.     *)
MovedFirst == Min({card.host_field_length, IF remain_bytes = 0 THEN 64 ELSE remain_bytes})

(* n bytes moved; behind the last one the card goes to the next field.      *)
Moved(r, n) ==
    IF n < card.host_field_length
    THEN [r EXCEPT !.st = "sMoveHost", !.pos = @ + n, !.host_field_length = @ - n]
    ELSE [r EXCEPT !.st = "sReadMeta", !.pos = @ + n, !.current_field_num = @ - 1]

MoveHostFirst ==
    /\ card.st = "sMoveHostFirst" /\ card.pos + MovedFirst <= HostStream
    /\ card' = Moved(Counts(card, card.host_field_length), MovedFirst)

(* The next beat is needed and has not come: the field is counted again in  *)
(* every cycle the card waits.                                              *)
StallHostFirst ==
    /\ card.st = "sMoveHostFirst" /\ remain_bytes = 0 /\ card.host_field_length > 0
    /\ card.stalls < MaxStalls
    /\ card' = [Counts(card, card.host_field_length) EXCEPT !.stalls = @ + 1]

(* The beats of the rest of the field.                                      *)
MoveHost ==
    /\ card.st = "sMoveHost" /\ card.pos + card.host_field_length <= HostStream
    /\ card' = Moved(card, card.host_field_length)

(* A card that waits for bytes the host buffer does not have.               *)
Starved ==
    \/ card.st = "sReadHost" /\ card.pos + 2 > HostStream
    \/ card.st = "sMoveHostFirst" /\ card.pos + MovedFirst > HostStream
    \/ card.st = "sMoveHost" /\ card.pos + card.host_field_length > HostStream

(* The size of a string; its bytes are counted now and moved next.          *)
LengthDelim ==
    /\ card.st = "sLengthDelim" /\ card.device \in DOMAIN device
    /\ LET n == device[card.device].x
       IN  card' = [Counts(Goto("sMoveString"), n) EXCEPT
                        !.repeat_num = 0, !.device_field_length = n, !.device = @ + 1]

RepeatedLengthDelim ==
    /\ card.st = "sRepeatedLengthDelim" /\ card.device \in DOMAIN device
    /\ LET n == device[card.device].x
       IN  card' = [Counts(Goto("sMoveString"), n) EXCEPT
                        !.device_field_length = n, !.repeat_device_length = n,
                        !.device = @ + 1]

MoveString ==
    /\ card.st = "sMoveString" /\ card.device \in DOMAIN device
    /\ card' = [Goto("sWriteLength") EXCEPT !.device = @ + 1]

WriteLength ==
    /\ card.st = "sWriteLength"
    /\ LET n == LengthBytes(card.device_field_length)
       IN  card' = IF card.repeat_num = 0 THEN Counts(Goto("sWriteTag"), n)
                   ELSE [Counts(Goto("sRepeatedLength"), n) EXCEPT
                            !.repeat_device_length = @ + n]

RepeatedLength ==
    /\ card.st = "sRepeatedLength"
    /\ \/ /\ card.repeat_num = 1
          /\ card' = Counts(Goto("sWriteTag"), LengthBytes(card.repeat_device_length))
       \/ /\ card.repeat_num # 1 /\ card.device \in DOMAIN device
          /\ LET n == device[card.device].x
             IN  card' = [Counts(Goto("sMoveString"), n) EXCEPT
                            !.repeat_num = (@ + 255) % 256,
                            !.device_field_length = n,
                            !.repeat_device_length = @ + (n % 2^17),
                            !.device = @ + 1]

WriteTag ==
    /\ card.st = "sWriteTag"
    /\ card' = [Counts(Goto("sReadMeta"), TagBytes(card.current_field_num)) EXCEPT
                    !.current_field_num = @ - 1]

(* Back in the level above: its field_num is loaded again, c_msg_length is  *)
(* not: it goes on from the length of the sub-message.                      *)
MsgLen ==
    /\ card.st = "sMsgLen"
    /\ LET n  == LengthBytes(card.c_msg_length)
           up == card.stack[Len(card.stack) - 1]
       IN  card' = [Goto("sWriteTag") EXCEPT
                        !.current_field_num = up.field_num,
                        !.stack = Append(SubSeq(@, 1, Len(@) - 2),
                            [up EXCEPT !.msg_length = (@ + card.c_msg_length + n) % 2^20])]

(* sEnd reports the class, the machine waits for the next command.          *)
End ==
    /\ card.st = "sEnd"
    /\ card' = Goto("done")

Card == GetMeta \/ Overflow \/ ReadMeta \/ JudgeField \/ ReadHost \/ MoveHostFirst
        \/ StallHostFirst \/ MoveHost \/ LengthDelim \/ RepeatedLengthDelim \/ MoveString
        \/ WriteLength \/ RepeatedLength \/ WriteTag \/ MsgLen \/ End

(* The program stops where the card has nothing to do for it or waits for   *)
(* ever, or once it has parsed what it wrote.                               *)
SerEnded == /\ \/ pc = "command" /\ (card.st \in {"done", "lost"} \/ Starved \/ ~skip \/ hw)
               \/ pc = "parsed"
            /\ UNCHANGED card

(* The buffers are either sent to the card or read back by the driver.      *)
SerNext ==
    \/ Host /\ card = CardIdle /\ UNCHANGED card
    \/ (ReadSer \/ Card \/ SerEnded) /\ UNCHANGED vars

serVars == <<vars, card>>

SerSpec == SerInit /\ [][SerNext]_serVars

-----------------------------------------------------------------------------
(* Where a piece of data comes from, if it says so.                         *)
FieldOf(src, p, f) ==
    \A s \in src : s[1] = p /\ \E k \in MemberWithId(Here.c, f) : s[2] = k

(* The card has passed a field whose prefix is short (Missing): from there  *)
(* on it takes bytes of values for lengths.                                 *)
OutOfStep == \E k \in DOMAIN host : host[k].at < card.pos /\ Missing(host[k]) > 0

(* When the card takes a field from the host buffer or a string from the    *)
(* device buffer, it is the field its walk over the entries has reached, of *)
(* the object it is in.  What can bring it out of step in the host buffer   *)
(* is a bool written with fixed widths, and nothing else; in the device     *)
(* buffer it is never out of step.                                          *)
CardTakesField ==
    /\ card.st = "sReadHost" /\ ~OutOfStep =>
        \E k \in DOMAIN host :
            /\ host[k].at = card.pos
            /\ host[k].tag = card.current_field_num
            /\ FieldOf(Sources(host[k].toks), Here.p, card.current_field_num)
    /\ card.st = "sMoveString" =>
        /\ card.device \in DOMAIN device
        /\ device[card.device].k = "data"
        /\ device[card.device].w = card.device_field_length
        /\ FieldOf(Sources(<<device[card.device]>>), Here.p, card.current_field_num)

(* When it reports the message done, both buffers are used up, the host     *)
(* buffer unless it was out of step; and only out of step can it wait for   *)
(* bytes that never come.                                                   *)
CardUsesBuffers ==
    /\ card.st \in {"sEnd", "done"} =>
        (card.pos = totalSize \/ OutOfStep) /\ card.device = Len(device) + 1
    /\ Starved => OutOfStep
=============================================================================
