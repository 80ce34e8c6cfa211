--------------------------- MODULE MCBlobTransport ---------------------------
(* BlobTransport on small instances.                                       *)
EXTENDS BlobTransport

(* Three fragments of at most two bytes, or one packet.                    *)
MCShort == {<<11, 12>>}
MCRequests == MCShort \cup {<<11, 12, 13, 14, 15>>}

MCAllFaults == Faults

=============================================================================
