------------------------------ MODULE MCClient ------------------------------
(* The client with a name or an empty one, and chat lines, "#exit" or an  *)
(* empty line typed.                                                      *)
EXTENDS Client
====
