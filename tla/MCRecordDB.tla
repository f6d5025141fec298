----------------------------- MODULE MCRecordDB -----------------------------
EXTENDS RecordDB

CONSTANTS importer, miner, r1, r2

MCCallers == {importer, miner}
MCValues == {r1, r2}
=============================================================================
