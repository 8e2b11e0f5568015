--------------------------- MODULE MCLedgerStream ---------------------------
(***************************************************************************)
(* A small source for TLC: subjects "a", "b" and "c", each with its exists *)
(* claim, and one attribute claim.  The two parser versions read the same  *)
(* bytes differently, so that the guard meets every case: nothing lost,    *)
(* one subject lost (held only when it is pinned), and two of three lost.  *)
(***************************************************************************)
EXTENDS LedgerStream

MCClaims == {"a", "b", "c", "attr"}
MCRefs == {"a", "b", "c"}
MCRefOf == [c \in MCClaims |-> IF c = "attr" THEN "a" ELSE c]
MCExists == {"a", "b", "c"}
MCDependable == {"b"}
MCContents == {"full", "some"}
MCVersions == {"v1", "v2"}

\* Version v2 also reads the attribute, and no longer reads "c" out of the shorter content.
Said == [v1 |-> [full |-> {"a", "b", "c"}, some |-> {"a", "c"}],
         v2 |-> [full |-> {"a", "b", "c", "attr"}, some |-> {"a", "attr"}]]
MCParse == [content \in MCContents |-> [ver \in MCVersions |-> Said[ver][content]]]
=============================================================================
