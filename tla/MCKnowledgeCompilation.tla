------------------------ MODULE MCKnowledgeCompilation ------------------------
EXTENDS KnowledgeCompilation, TLC

CONSTANTS a, u
===============================================================================
