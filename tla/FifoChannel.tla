---------------------------- MODULE FifoChannel ----------------------------
(* What a client connection promises to the goroutines that send on it: packets
   are delivered in the order they were taken, each once, and nothing is
   delivered out of the middle; what is still under way when the channel closes
   may stay undelivered (internal/gameserver/transport/client/conn.go, the comments
   on ClientConn and writeLoop). *)
EXTENDS Sequences, SequencesExt

VARIABLES inFlight, delivered, open

Init == inFlight = <<>> /\ delivered = <<>> /\ open = TRUE

Put == /\ \E p \in {Last(inFlight')} : inFlight' = Append(inFlight, p)
       /\ UNCHANGED <<delivered, open>>

\* A write hands over some of the oldest packets.
Deliver ==
  /\ IsPrefix(delivered, delivered')
  /\ delivered \o inFlight = delivered' \o inFlight'
  /\ UNCHANGED open

Close == open' = FALSE /\ UNCHANGED <<inFlight, delivered>>

Spec == Init /\ [][(Len(inFlight') > 0 /\ Put) \/ Deliver \/ Close]_<<inFlight, delivered, open>>
=============================================================================
