------------------------------ MODULE Passages ------------------------------
(***************************************************************************)
(* What is indexed: chunks, each of one document.                          *)
(***************************************************************************)
EXTENDS Arranging

CONSTANTS Chunk, Doc, DocOf

ASSUME PassagesAssumption == DocOf \in [Chunk -> Doc]
=============================================================================
