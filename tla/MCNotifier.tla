----------------------------- MODULE MCNotifier -----------------------------
(* Two torrents and a download; torrent 0 and download 0 share a number.   *)
EXTENDS Notifier
=============================================================================
