------------------------------ MODULE MCEngine ------------------------------
EXTENDS Engine

CONSTANTS c1, c2

BusyRequests == {[meant |-> GetCloudServiceStatistics, body |-> FALSE, query |-> FALSE]}
=============================================================================
