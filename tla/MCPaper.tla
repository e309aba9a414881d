-------------------------------- MODULE MCPaper --------------------------------
\* A book of three sessions for TLC.
EXTENDS PaperEngine
================================================================================
