----------------------------- MODULE MCTcpServer -----------------------------
\* Module TcpServer with a server without threads, and one with a pool.
EXTENDS TcpServer

MCSizes == {0, 2}
MCPool  == {1}
=============================================================================
