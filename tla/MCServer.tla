----------------------------- MODULE MCServer -----------------------------
(* Model-checking instance of Server: clients are ids 1..N as the         *)
(* transport numbers them; one name, one room besides "general".          *)
EXTENDS Server

CONSTANTS alice, devs

MCChunk ==
    {[kind |-> "text", arg |-> alice],
     [kind |-> "join", arg |-> devs],
     [kind |-> "create", arg |-> devs],
     [kind |-> "leave", arg |-> NoName],
     [kind |-> "exit", arg |-> NoName],
     [kind |-> "kick", arg |-> alice]}

=============================================================================
