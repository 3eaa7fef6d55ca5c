----------------------------- MODULE MCSessions -----------------------------
EXTENDS Sessions

CONSTANTS x, y

MCAllFine == <<y>>

\* Short ones, and one that is cut at a newline, then hard, then at a newline.
MCResponses ==
  {<<>>, <<x>>, <<y>>, <<x, NL, y, NL, NL, x, x, x, x, NL, y>>, <<y, NL, x, x>>}

MCFooters == {<<>>, <<x, y>>}
=============================================================================
