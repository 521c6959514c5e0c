----------------------------- MODULE MCChannels -----------------------------
EXTENDS Channels, TLC

CONSTANTS u1, v1, v2

MCFirstOwner == v1 :> u1 @@ v2 :> None
=============================================================================
