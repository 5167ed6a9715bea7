---------------------------- MODULE MCStreamHub -----------------------------
(***************************************************************************)
(* Connections of two keys that may hold two streams each: three compete   *)
(* for the slots of the first.                                             *)
(***************************************************************************)
EXTENDS StreamHub

CONSTANTS keyA, keyB, c4, dev

MCKeyOf == [c \in Streams |-> IF c = c4 THEN keyB ELSE keyA]
MCEnvOf == [c \in Streams |-> dev]
=============================================================================
