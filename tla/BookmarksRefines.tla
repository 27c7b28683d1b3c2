------------------------- MODULE BookmarksRefines --------------------------
(***************************************************************************)
(* On SQLite the statements of Bookmarks make whole requests: the committed *)
(* tables change as WholeRequests says, one request at a time.              *)
(***************************************************************************)
EXTENDS Bookmarks

Whole == INSTANCE WholeRequests

\* SQLite: whatever requests run at once, each has the effect of running alone,
\* with the bookmarks, tags and links that are there when it commits, or none.
RequestsAreWhole == Whole!Spec
=============================================================================
