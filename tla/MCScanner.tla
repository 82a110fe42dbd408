------------------------------ MODULE MCScanner ------------------------------
(***************************************************************************)
(* Scanner for TLC: up to two tracks per area (sacdiso, dsdiff) or per     *)
(* disc (dvdaiso): enough for both areas to be present at once, for a      *)
(* listing of exactly one track, and for a stereo and a multichannel      *)
(* track side by side.                                                     *)
(***************************************************************************)
EXTENDS Scanner

MCMaxTracks == 2

\* UINT_MAX cannot be represented by TLC; any value above every track number
\* behaves the same in the comparisons that follow the decrement.
MCUIntMax == 2^30

\* Two tag types the reader reports; sidecar track elements that carry one,
\* both, or only a name that is no tag type.
MCTagTypes == {"title", "artist"}
MCEmbeddedTypes == {"title", "artist"}
MCSidecarNodes == {{"title"}, {"title", "artist"}, {"rating"}}
\* The store holds pictures under two of the legacy ids.
MCSidecarArt == {"2", "6"}
\* Store elements: [id, type, track element ids].  This disc's DVD-Audio
\* store holds only the first track's element, another disc's DVD-Audio
\* store holds both, and this disc's SACD store (the foreign family's for
\* dvdaiso) holds the first and third sequential numbers.  Two per
\* document, so a foreign store can come before this disc's.
MCSidecarStores ==
  {[id |-> "own", type |-> "DVDA", tracks |-> {1}],
   [id |-> "other", type |-> "DVDA", tracks |-> {1, 2}],
   [id |-> "own", type |-> "SACD", tracks |-> {1, 3}]}
\* For the passing run: the track element carries a title, which is enough
\* for its tags to be told apart from the reader's.
MCSidecarNodesTitle == {{"title"}}
MCMaxStores == 2

=============================================================================
