-------------------------- MODULE MCConnectionPool --------------------------
EXTENDS ConnectionPool, TLC

CONSTANTS i1, i2, s1, s2, s3

MCIds     == {i1, i2}
MCPaired  == {i1}
MCSockets == {s1, s2, s3}
=============================================================================
