-------------------------- MODULE MCEventPipeline --------------------------
EXTENDS EventPipeline

CONSTANTS p1, n1

LastRun == {<<p1, "live">>, <<n1, "tailed">>}
=============================================================================
