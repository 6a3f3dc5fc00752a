---------------------------- MODULE MCRfbSession -----------------------------
(* Small instances of RfbSession for TLC. *)
EXTENDS RfbSession

\* Every kind of authentication, refused connections and reconnections.
Handshakes ==
    [offers |-> {<<>>, <<"other">>, <<"other", "none">>, <<"vnc">>, <<"xvp">>, <<"vencrypt">>,
                 <<"tight">>, <<"ard">>},
     refusals |-> 1, updates |-> {<<>>, <<"jpeg">>}, chatter |-> {"colourmap"}, sent |-> 1,
     sessions |-> 2, ops |-> 2]

\* One session that shows a desktop and exchanges every other message.
Frames ==
    [offers |-> {<<"none">>}, refusals |-> 0,
     updates |-> {<<"jpeg", "jpeg">>, <<"size", "jpeg">>, <<"fill", "last">>},
     chatter |-> {"bell", "xvp", "fence", "cut", "endcu", "caps", "notify", "request", "peek", "other"},
     sent |-> 2, sessions |-> 1, ops |-> 1]

\* One session with an extended clipboard.
Clipboard ==
    [Frames EXCEPT !.updates = {<<"jpeg">>}, !.chatter = {"caps", "notify"}]

\* Updates without rectangles too.
Empties ==
    [Frames EXCEPT !.updates = {<<>>, <<"jpeg">>, <<"fill">>}, !.chatter = {"endcu"}, !.sent = 3, !.ops = 0]

ViewerScopes == {Handshakes, Frames, Empties}
EmptyScopes == {Empties}
ClipboardScopes == {Clipboard}

\* What HandlersStayInSync supposes of a server holds of these.
ASSUME ScopesConform == \A s \in ViewerScopes \cup ClipboardScopes \cup EmptyScopes : Conforms(s)
=============================================================================
