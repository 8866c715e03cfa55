--------------------------- MODULE MCQueryPath ---------------------------
(***************************************************************************)
(* Five chunks: a long and two short ones of one section, an empty one,    *)
(* and one elsewhere that repeats the first chunk's text.  Two blocks can  *)
(* miss the budget by their markers alone, and a merged one is too large.  *)
(***************************************************************************)
EXTENDS QueryPath

TextsDef    == <<"intro", "body", "", "intro", "annex">>
SizesDef    == [t \in {"intro", "body", "annex"} |->
                  CASE t = "intro" -> 20 [] t = "body" -> 30 [] t = "annex" -> 70]
ParentsDef  == <<"P", "P", "P", "Q", "P">>
SectionsDef == <<1, 1, 1, 0, 2>>
AlikeDef    == {}
OrdersDef   == {<<1, 2, 4, 5>>, <<5, 4, 2, 1>>}
ElsewhereDef == {{}, {"intro"}}
SeedsDef    == {<<>>, <<4>>}
RankingsDef == {<<>>, <<2, 3>>, <<3>>}
=============================================================================
