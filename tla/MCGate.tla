------------------------------- MODULE MCGate -------------------------------
(* Two clients from one host; chunks: a text line, a #mute and a #ban.     *)
EXTENDS Gate

CONSTANTS h1, h2

MCHostOf == [c \in Client |-> h1]

\* "#mute 2 1", "#mute 2 x" and "#ban 1", besides plain text.
MCChunk ==
    {[kind |-> "text"],
     [kind |-> "mute", target |-> 2, arg |-> 1],
     [kind |-> "mute", target |-> 2, arg |-> BadArg],
     [kind |-> "ban", target |-> 1]}

\* Nothing, "x", and one tick after "#mute <user>".
MCMuteArg == {NoArg, BadArg, 1}

MCChunkText == {[kind |-> "text"]}

MCChunkBan == {[kind |-> "text"], [kind |-> "ban", target |-> 1]}
=============================================================================
