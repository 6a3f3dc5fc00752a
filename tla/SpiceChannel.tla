---------------------------- MODULE SpiceChannel -----------------------------
(***************************************************************************)
(* The receiving side of one channel of the SPICE web client: FixedQueue,  *)
(* SizeDefiner, PacketExtractor and PacketReassembler, which turn chunks   *)
(* of any size into messages.  Bytes are grouped in units: a message has   *)
(* two for its header and some for its body, numbered from 1.              *)
(*                                                                         *)
(*    unread  the data received and not taken from the queue,              *)
(*    w       woffset, where the next chunk is written,                    *)
(*    phase   what the next `need` units are,                              *)
(*    header  currentHeader: what its bytes hold now, and                  *)
(*    at      where they are in the queue's array, of which it is a view.  *)
(***************************************************************************)
EXTENDS Integers, Sequences

HeaderSize == 2
Phases == {"reply", "replyBody", "errorCode", "header", "body"}
Units == [n : Nat, part : Nat]

Receivers == [unread : Seq(Units), w : Nat, phase : Phases, need : Nat,
              header : Seq(Units), at : Nat]

NewReceiver == [unread |-> <<>>, w |-> 0, phase |-> "reply", need |-> HeaderSize,
                header |-> <<>>, at |-> 0]

\* The units of message n, whose body takes size of them.
UnitsOf(n, size) == [i \in 1 .. HeaderSize + size |-> [n |-> n, part |-> i]]

\* The i-th unit of the header lies where the chunk is written: it is the chunk's.
Overwritten(r, chunk) ==
    [i \in 1 .. Len(r.header) |->
        LET j == r.at + i - r.w
        IN  IF j \in 1 .. Len(chunk) THEN chunk[j] ELSE r.header[i]]

\* A slip: setData in the place of push.
SetData(r, chunk) ==
    [r EXCEPT !.unread = chunk, !.w = Len(chunk), !.header = Overwritten(r, chunk)]

Push(r, chunk) ==
    [r EXCEPT !.unread = @ \o chunk, !.w = @ + Len(chunk), !.header = Overwritten(r, chunk)]

\* getBytes: the callback is called once there is enough.
Ready(r) == Len(r.unread) >= r.need
Taken(r) == SubSeq(r.unread, 1, r.need)

\* shift: both offsets go back to 0 when all has been read.
Shift(r) ==
    LET rest == SubSeq(r.unread, r.need + 1, Len(r.unread))
    IN  [r EXCEPT !.unread = rest, !.w = IF rest = <<>> /\ r.need > 0 THEN 0 ELSE @]

\* getNextPacket: the next part is taken, and the one after it looked for.
\* size is that of the body which the header just taken announces.
TakeNext(r, size) ==
    LET s == Shift(r)
        headed == [s EXCEPT !.header = Taken(r), !.at = r.w - Len(r.unread), !.need = size]
    IN  CASE r.phase = "reply" -> [headed EXCEPT !.phase = "replyBody"]
          [] r.phase = "replyBody" -> [s EXCEPT !.phase = "errorCode", !.need = 1]
          [] r.phase = "header" -> [headed EXCEPT !.phase = "body"]
          [] OTHER -> [s EXCEPT !.phase = "header", !.need = HeaderSize, !.header = <<>>]

\* The message that is complete with the part taken, 0 if its header is not its own.
Complete(r) ==
    LET n == r.header[1].n
    IN  IF r.header \o Taken(r) = UnitsOf(n, r.need) THEN n ELSE 0
=============================================================================
