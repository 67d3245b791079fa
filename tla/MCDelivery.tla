---------------------------- MODULE MCDelivery ----------------------------
(* Model-checking instance of Delivery: ids 1..N, one name, one room      *)
(* besides "general", and one chunk of every kind.                         *)
EXTENDS Delivery

CONSTANTS alice, devs

MCChunk ==
    {[kind |-> "text", arg |-> alice],
     [kind |-> "join", arg |-> devs],
     [kind |-> "create", arg |-> devs],
     [kind |-> "leave", arg |-> NoName],
     [kind |-> "whisper", arg |-> alice],
     [kind |-> "kick", arg |-> alice],
     [kind |-> "exit", arg |-> NoName],
     [kind |-> "other", arg |-> NoName]}

\* Only names and chat lines, for the welcome race.
MCTextChunk == {[kind |-> "text", arg |-> alice]}
=============================================================================
