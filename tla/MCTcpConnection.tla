-------------------------- MODULE MCTcpConnection --------------------------
EXTENDS TcpConnection

CONSTANT u1

MCUsers == {u1}
MCLengths == {1}
=============================================================================
