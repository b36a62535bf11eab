---------------------------- MODULE MCMockMongoDB ----------------------------
EXTENDS MockMongoDB
=============================================================================
