---------------------------- MODULE MCTransport ----------------------------
EXTENDS Transport

CONSTANTS p, q, c, d

MCPieces == {p, q}

\* A text in two parts, a text before two calls.
MCReplies == {<<Message(<<<<p>>, <<q>>>>)>>, <<Message(<<<<p, q>>>>), Call(c), Call(d)>>}
=============================================================================
