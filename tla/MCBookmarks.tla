---- MODULE MCBookmarks ----
(* Values for the constants of Bookmarks. *)
EXTENDS BookmarksRefines, TLC

Normalized == [u \in URL |-> IF u = "a.b/" THEN "a.b" ELSE u]
Splits == [n \in Name |-> IF n = "x," THEN {"x"} ELSE {n}]
NoRules == [u \in URL |-> {}]
OneRule == [u \in URL |-> IF u = "c.d" THEN {"x"} ELSE {}]
NoFields == {{}}
Changes == {{}, {"archived"}, {"title"}, {"names"}, {"url"}}
Symmetry == Permutations(Request)
=====
