--------------------------- MODULE MCFetchReplay ---------------------------
(***************************************************************************)
(* One online run and one offline run over the same cache directory, with  *)
(* a coordinate the registry knows and one it answers 404 for. Nothing     *)
(* crashes and no write fails.                                             *)
(***************************************************************************)
EXTENDS FetchReplay

CONSTANTS online, offline

MCCall      == {online, offline}
MCTolerant  == {}
MCOffline   == {offline}
MCFaulty    == {}
MCPublished == {1, 2}
MCUnknown   == {1}
MCRank      == <<1, 2>>

=============================================================================
