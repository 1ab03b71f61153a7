-------------------------- MODULE MCThumbnailPool --------------------------
(* The TLC instance of ThumbnailPool: MCThumbnailPool.cfg gives the values. *)
EXTENDS ThumbnailPool
=============================================================================
