------------------------ MODULE MCHeadlampBootstrap ------------------------
EXTENDS HeadlampBootstrap

MCProcs == {"loop", "g1"}
=============================================================================
