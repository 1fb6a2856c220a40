---------------------- MODULE MCKnowledgeRevalidation ----------------------
EXTENDS KnowledgeRevalidation, TLC
CONSTANTS a1, a2
BreakingContents == {<<a1, 1>>}
OnePublished == a1 :> 2 @@ a2 :> 1
NonePublished == a1 :> 1 @@ a2 :> 1
=============================================================================
