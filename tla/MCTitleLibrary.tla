--------------------------- MODULE MCTitleLibrary ---------------------------
EXTENDS TitleLibrary
=============================================================================
