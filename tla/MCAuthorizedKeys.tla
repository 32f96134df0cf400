--------------------------- MODULE MCAuthorizedKeys ---------------------------
(* Instances of AuthorizedKeys for TLC.                                    *)
EXTENDS AuthorizedKeys

CONSTANTS k1, k2, hash, junk

\* No file; a key between two kinds of lines the tools do not understand; the
\* same key twice.
MCInitialFiles == {<<>>, <<hash, k1, junk>>, <<k1, junk, k1, k2>>}
===============================================================================
