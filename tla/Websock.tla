------------------------------ MODULE Websock -------------------------------
(***************************************************************************)
(* The receive queue of noVNC's Websock: one buffer that grows and is      *)
(* compacted, a write position and a read index.  A buffer is a record     *)
(*                                                                         *)
(*    q     what is stored below the write position (_rQlen = Len(q)),     *)
(*    rQi   how much of q has been read,                                   *)
(*    size  the bytes allocated (_rQbufferSize).                           *)
(*                                                                         *)
(* What is stored is abstract: a unit stands for the bytes between two     *)
(* points where the parser may find that it has to wait.                   *)
(***************************************************************************)
EXTENDS Integers, Sequences

CONSTANTS StartSize,   (* the first allocation, 4 MiB in the code          *)
          MaxGrow      (* MAX_RQ_GROW_SIZE                                 *)

ASSUME SizeAssumption == StartSize \in Nat \ {0} /\ MaxGrow \in Nat /\ StartSize <= MaxGrow

Buffers(U) == [q : Seq(U), rQi : Nat, size : Nat]

Empty == [q |-> <<>>, rQi |-> 0, size |-> StartSize]

Larger(m, n) == IF m < n THEN n ELSE m
Smaller(m, n) == IF m < n THEN m ELSE n

\* What has been received and not read, and how much of it there is.
Unread(b) == SubSeq(b.q, b.rQi + 1, Len(b.q))
RQlen(b) == Len(b.q) - b.rQi

\* A slip: compacting is taken to make room enough.
SizeForCompacted(b, minFit) == Smaller(b.size, MaxGrow)

\* Less than an eighth of the buffer in use: compact in place, else grow.
SizeFor(b, minFit) ==
    LET required == (RQlen(b) + minFit) * 8
    IN  IF b.size < required
        THEN Smaller(Larger(b.size * 2, required), MaxGrow)
        ELSE Smaller(b.size, MaxGrow)

ExpandCompact(b, minFit) == [q |-> Unread(b), rQi |-> 0, size |-> SizeFor(b, minFit)]

\* Beyond MaxGrow the code throws and the data is gone: callers check it.
Fits(b, data) == RQlen(b) + Len(data) <= MaxGrow

Receive(b, data) ==
    LET room == IF Len(data) > b.size - Len(b.q) THEN ExpandCompact(b, Len(data)) ELSE b
    IN  [room EXCEPT !.q = @ \o data]

Shift(b, n) == [b EXCEPT !.rQi = @ + n]

\* A slip: what the caller read stays read.
GobackForgotten(b, n) == b

\* A slip: what was only looked at is given back too.
GobackMore(b, n) == [b EXCEPT !.rQi = @ - n - 1]

\* rQwait with too little in the queue gives back what its caller had read.
Goback(b, n) == [b EXCEPT !.rQi = @ - n]

\* All data has been processed: start again at the front.
ResetIfRead(b) == IF Len(b.q) = b.rQi THEN [b EXCEPT !.q = <<>>, !.rQi = 0] ELSE b
=============================================================================
