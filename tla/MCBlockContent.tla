--------------------------- MODULE MCBlockContent ---------------------------
EXTENDS BlockContent
=============================================================================
