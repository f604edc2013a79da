---------------------------- MODULE MCPushRoutes ------------------------------
(* One user with two devices at one gateway and one at another.             *)
EXTENDS PushRoutes, TLC
CONSTANTS g1, g2, u1, s1, s2, s3
MCGatewayOf == [s \in Sessions |-> IF s = s3 THEN g2 ELSE g1]
MCUidOf == [s \in Sessions |-> u1]
MCTarget == [m \in Msgs |-> u1]
===============================================================================
