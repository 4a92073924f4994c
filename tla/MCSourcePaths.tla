---------------------------- MODULE MCSourcePaths ----------------------------
(* What TLC explores of the library and its events.                         *)
EXTENDS SourcePaths, TLC

\* At most two of these happen: the clock advances, a push is lost, somebody asks
\* the downloader.
MCBound == now + drops + looks <= 2

(* Clients and folders are interchangeable. *)
MCSymmetry == Permutations(Clients) \union Permutations(Folders)
=============================================================================
