------------------------- MODULE MCAlphaSpaceCards -------------------------
(* Two requests at once over one card, its wallet and the shared token.    *)
EXTENDS AlphaSpaceCards
CONSTANTS h1, h2
============================================================================
