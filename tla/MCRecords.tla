----------------------------- MODULE MCRecords -----------------------------
EXTENDS Records

CONSTANTS s1, s2, x1, x2, x3

StoredRows == <<[id |-> x1, cloud_service_id |-> s1], [id |-> x2, cloud_service_id |-> s2],
                [id |-> x3, cloud_service_id |-> s1]>>
=============================================================================
