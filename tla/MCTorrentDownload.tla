------------------------- MODULE MCTorrentDownload -------------------------
(* TLC instance of TorrentDownload. *)
EXTENDS TorrentDownload
=============================================================================
