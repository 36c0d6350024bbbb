--------------------------- MODULE MCExtractFetch ---------------------------
(***************************************************************************)
(* Two names that share a public address and a private one, two redirects, *)
(* and bodies of up to two units in chunks of up to two.                   *)
(***************************************************************************)
EXTENDS ExtractFetch

CONSTANTS public, private

MCHosts == {"a", "b"}
MCAddresses == {public, private}
MCForbidden == {private}
=============================================================================
