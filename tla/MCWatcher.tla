----------------------------- MODULE MCWatcher -----------------------------
(* The credential file and the account file beside it, whose events share a  *)
(* queue of one place.                                                       *)
EXTENDS Watcher

\* One call of publish for each path, in some order, leaves what Published says.
ASSUME PublishedByPublish ==
    \A queue \in BoundedSeq(Path, QueueCap), ps \in SUBSET Path :
        Published(queue, ps) = {FoldLeft(Publish, queue, order) : order \in SetToSeqs(ps)}
=============================================================================
