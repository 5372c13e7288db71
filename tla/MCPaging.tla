------------------------------ MODULE MCPaging ------------------------------
(* Small instances of Paging. *)
EXTENDS Paging

\* Too small, the smallest, in between, the largest, too large.
SomeLimits == 0 .. MaxListLimit + 1
=============================================================================
