------------------------------- MODULE MCPmQos ------------------------------
(* A latency class, whose smallest requirement counts, and a throughput     *)
(* class, whose largest one does; a run has one class or the other.         *)
EXTENDS PmQos

CONSTANTS latency, throughput, t1, t2

MCDefault == [c \in Classes |-> IF c \in Minimized THEN 9 ELSE 0]
MCValues  == {-1, 3, 5}
=============================================================================
