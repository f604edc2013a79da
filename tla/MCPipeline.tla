------------------------------ MODULE MCPipeline ------------------------------
EXTENDS Pipeline
CONSTANTS m1, m2, i1, i2
===============================================================================
