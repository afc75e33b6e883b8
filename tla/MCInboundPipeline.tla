------------------------- MODULE MCInboundPipeline -------------------------
EXTENDS InboundPipeline

CONSTANTS hello, ping, photo, again

MCKind == [j \in Jobs |-> IF j \in {photo, again} THEN "media" ELSE "text"]

\* "again" is the message of "photo", which Baileys notifies a second time.
MCKey == [j \in Jobs |-> IF j = again THEN photo ELSE j]
=============================================================================
