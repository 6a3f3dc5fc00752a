---------------------------- MODULE RenderQueue -----------------------------
(***************************************************************************)
(* The drawing queue of noVNC's Display.  An image is drawn only once the  *)
(* browser has decoded it, and everything that comes after it waits in     *)
(* _renderQ.  A display is a record                                        *)
(*                                                                         *)
(*    q         the actions that wait, oldest first,                       *)
(*    flushing  a flush has been asked for and not answered,               *)
(*    next      the number of the next action (history),                   *)
(*    drawn     the numbers of the actions drawn so far (history).         *)
(*                                                                         *)
(* An action has its kind, its number, the update it belongs to and, for   *)
(* an image, whether it is decoded.                                        *)
(***************************************************************************)
EXTENDS Integers, Sequences

Kinds == {"fill", "img", "flip"}
Actions == [kind : Kinds, n : Nat, update : Nat, complete : BOOLEAN]
Displays == [q : Seq(Actions), flushing : BOOLEAN, next : Nat, drawn : Seq(Nat)]

Blank == [q |-> <<>>, flushing |-> FALSE, next |-> 1, drawn |-> <<>>]

Pending(d) == d.q # <<>>
Ready(a) == a.kind # "img" \/ a.complete
Numbers(q) == [i \in 1 .. Len(q) |-> q[i].n]

\* How many actions the scan draws: all before the first that is not ready.
Drawable(q) ==
    CHOOSE k \in 0 .. Len(q) :
        /\ \A i \in 1 .. k : Ready(q[i])
        /\ k < Len(q) => ~ Ready(q[k + 1])

\* A slip: a flush is answered when something has been drawn.
ScanHasty(d) ==
    LET k == Drawable(d.q)
    IN  [d EXCEPT !.q = SubSeq(@, k + 1, Len(@)),
                  !.drawn = @ \o Numbers(SubSeq(d.q, 1, k)),
                  !.flushing = @ /\ k = 0]

Scan(d) ==
    LET k == Drawable(d.q)
    IN  [d EXCEPT !.q = SubSeq(@, k + 1, Len(@)),
                  !.drawn = @ \o Numbers(SubSeq(d.q, 1, k)),
                  !.flushing = @ /\ k < Len(d.q)]

NewAction(d, kind, update) ==
    [kind |-> kind, n |-> d.next, update |-> update, complete |-> FALSE]

Push(d, a) ==
    LET e == [d EXCEPT !.q = Append(@, a), !.next = @ + 1]
    IN  IF Len(e.q) = 1 THEN Scan(e) ELSE e

\* A slip: what needs no decoding is drawn at once.
DrawAtOnce(d, kind, update) == [d EXCEPT !.drawn = Append(@, d.next), !.next = @ + 1]

\* fillRect, copyImage, blitImage and flip: at once when nothing waits.
Draw(d, kind, update) ==
    IF Pending(d)
    THEN Push(d, NewAction(d, kind, update))
    ELSE [d EXCEPT !.drawn = Append(@, d.next), !.next = @ + 1]

ImageRect(d, update) == Push(d, NewAction(d, "img", update))

Flush(d) == [d EXCEPT !.flushing = Pending(d)]

\* The i-th action's image is decoded.  Only the head of the queue listens.
Loaded(d, i) ==
    LET e == [d EXCEPT !.q[i].complete = TRUE]
    IN  IF i = 1 THEN Scan(e) ELSE e

\* Actions are drawn in the order they were asked for, none is left out.
InOrder(d) == \A i \in 1 .. Len(d.drawn) : d.drawn[i] = i
=============================================================================
