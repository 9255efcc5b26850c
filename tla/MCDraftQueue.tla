----------------------------- MODULE MCDraftQueue -----------------------------
(* A small instance of DraftQueue for TLC.                                   *)
EXTENDS DraftQueue, TLC

CONSTANTS a, b

DraftAndTask == a :> "draft" @@ b :> "task"
=============================================================================
