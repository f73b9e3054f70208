------------------------------- MODULE MCalloc ------------------------------
(***************************************************************************)
(* Eight pages of four bytes; requests of a part of a page, of exactly two *)
(* pages, of two and a bit, and one that is refused as too large.  When    *)
(* only the last page is free Cap refuses every request.                   *)
(***************************************************************************)
EXTENDS PageAllocator
=============================================================================
