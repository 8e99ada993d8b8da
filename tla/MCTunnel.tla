------------------------------ MODULE MCTunnel ------------------------------
(* Small instances of Tunnel for TLC: how many chunks each side may send.  *)
EXTENDS Tunnel

OneLeftNoneRight == [c \in {Left, Right} |-> IF c = Left THEN 1 ELSE 0]
OneEach == [c \in {Left, Right} |-> 1]
=============================================================================
