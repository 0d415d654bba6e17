--------------------------- MODULE MCEditJournal ---------------------------
(* Instances of EditJournal for TLC. *)
EXTENDS EditJournal
=============================================================================
