----------------------------- MODULE MCStamper -----------------------------
EXTENDS Stamper

Batch(id, balance, util) ==
    [id |-> id, label |-> id, balance |-> balance, depth |-> BucketDepth + 1,
     util |-> util, usable |-> TRUE]

\* two full batches of which one runs out and the other lasts until it is
\* diluted, or one that is not usable yet
MCBatches ==
    { <<Batch("a", 1, 2), Batch("b", 5, 2)>>,
      <<[Batch("a", 3, 2) EXCEPT !.usable = FALSE]>> }
============================================================================
