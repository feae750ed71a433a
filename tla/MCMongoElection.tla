-------------------------- MODULE MCMongoElection --------------------------
\* The bounds of the run of MongoElection.
EXTENDS MongoElection
=============================================================================
