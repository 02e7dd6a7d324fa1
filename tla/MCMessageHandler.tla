--------------------------- MODULE MCMessageHandler ---------------------------
(* MessageHandler for TLC: three messages, a broadcaster, a subscriber and a  *)
(* viewer, and two commands: one anybody may use while the stream is live,    *)
(* one for followers that uses a bucket per argument or shares the first's.   *)
EXTENDS MessageHandler, TLC

CONSTANTS m1, m2, m3, owner, sub, viewer, drink, socials, k1, k2, DrinkTimeout

MCRolesOf == owner :> {"broadcaster"} @@ sub :> {"subscriber"} @@ viewer :> {}
MCPermits == drink :> {"viewer"} @@ socials :> {"mod", "follower"}
MCRestriction == drink :> "online" @@ socials :> "always"
MCTimeout == drink :> DrinkTimeout @@ socials :> 2
MCBucketsOf == drink :> {k1} @@ socials :> {k2}

Symmetry == Permutations(Messages)
=============================================================================
