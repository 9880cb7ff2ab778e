--------------------------- MODULE MCMemoryMapper ---------------------------
(* Four or five pages, and fewer frames than pages.                         *)
EXTENDS MemoryMapper
=============================================================================
