---------------------------- MODULE MCTcpClient ----------------------------
EXTENDS TcpClient

MCForeign == {"connect", "disconnect", "enableRetry"}
MCForeignStop == {"stop"}
=============================================================================
