--------------------------- MODULE MCXmppBookmarks ---------------------------
\* Instances of the bookmark queue.
EXTENDS XmppBookmarks, TLC

BookmarkSymmetry == Permutations(Rooms) \cup Permutations(Syncs)
=============================================================================
