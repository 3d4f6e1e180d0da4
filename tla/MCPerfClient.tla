---------------------------- MODULE MCPerfClient ----------------------------
EXTENDS PerfClient
=============================================================================
