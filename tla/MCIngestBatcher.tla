-------------------------- MODULE MCIngestBatcher ---------------------------
(***************************************************************************)
(* Two batches of two events against a channel of three; a full flush      *)
(* makes two chunks, and one row may be refused.                           *)
(***************************************************************************)
EXTENDS IngestBatcher

MCBatchLen == [r \in Reqs |-> 2]
=============================================================================
