--------------------------- MODULE MCViewerInput ----------------------------
(* Small instances of ViewerInput for TLC. *)
EXTENDS ViewerInput

Mix(system, keys, mice, touch, page) ==
    [os |-> system, input |-> [keys |-> keys, mouse |-> mice, touch |-> touch, page |-> page]]

\* Mostly fingers, mostly keys, mostly mouse, and a little of everything.
InputMixes ==
    {Mix("other", 0, 0, 5, 0), Mix("other", 0, 6, 0, 1),
     Mix("other", 0, 1, 2, 1)}
    \cup {Mix(system, 4, 0, 0, 1) : system \in Systems}

\* Fingers only.
TouchMixes == {Mix("other", 0, 0, 4, 0)}
=============================================================================
