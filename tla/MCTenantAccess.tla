--------------------------- MODULE MCTenantAccess ---------------------------
EXTENDS TenantAccess

CONSTANTS k1, k2

MCWorkflows == {"w1", "w2"}
=============================================================================
