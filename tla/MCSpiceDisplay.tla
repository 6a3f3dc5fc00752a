--------------------------- MODULE MCSpiceDisplay ----------------------------
(* Small instances of SpiceDisplay for TLC. *)
EXTENDS SpiceDisplay

Fill(box) == [op |-> "fill", surface |-> 0, box |-> box, image |-> "none", id |-> 0,
              keep |-> FALSE, over |-> TRUE]
Copy(box, image) == [Fill(box) EXCEPT !.op = "copy", !.image = image]
Kept(m, i) == [m EXCEPT !.keep = TRUE, !.id = i]
Cached(box, i) == [Copy(box, "cached") EXCEPT !.id = i]
Mixed(m) == [m EXCEPT !.over = FALSE]
Blend(box) == [Copy(box, "lz") EXCEPT !.op = "blend", !.over = FALSE]
Rop3(box) == [Copy(box, "bitmap") EXCEPT !.op = "rop3", !.over = FALSE]
CopyBits(box) == [Fill(box) EXCEPT !.op = "copybits"]
On1(m) == [m EXCEPT !.surface = 1]
Control(op) == [Fill({}) EXCEPT !.op = op, !.over = FALSE]
Frame(box) == [Fill(box) EXCEPT !.op = "frame"]
Pattern(box) == [Fill(box) EXCEPT !.image = "lz"]

\* Images kept, used from the cache and dropped from it.
CachePalette == {Kept(Copy({1}, "lz"), 1), Kept(Copy({1}, "jpeg"), 2), Cached({1}, 1),
                 Cached({2}, 2), [Control("inval") EXCEPT !.id = 1], Fill({1}),
                 Kept(Pattern({1}), 1)}

\* Draws that cover others, and draws that read what they change.
CoverPalette == {Copy({1}, "lz"), Fill(Areas), Rop3({2}), CopyBits({2}), Blend({1}),
                 Mixed(Copy(Areas, "jpeg"))}

\* A second surface, drawn on and copied to the screen.
SurfacePalette == {Control("create"), Control("destroy"), On1(Copy({1}, "lz")),
                   On1(Copy({1}, "jpeg")), Copy({1}, "surface"), On1(CopyBits({2}))}

\* Two streams among draws.
StreamPalette == {Frame({1}), Frame(Areas), Copy({1}, "lz"), Copy({1}, "jpeg"), Fill({1})}

PassPalettes == {CachePalette, CoverPalette, SurfacePalette, StreamPalette}

\* What the theorem about the picture assumes of the palettes.
ASSUME PalettesConform == \A p \in PassPalettes : ScreenIsNoSource(p) /\ OnlyImagesAreKept(p)
=============================================================================
