------------------------------- MODULE Lease -------------------------------
(***************************************************************************)
(* What the daemon's start.lock and instance.lock promise: at most one     *)
(* live process holds the lease, it is given back by its holder or lost    *)
(* with the holder's death, and nobody takes it from a live holder.        *)
(***************************************************************************)
CONSTANT Procs
VARIABLE holders

LeaseInit == holders = {}

Take(p) == holders = {} /\ holders' = {p}

GiveBack(p) == p \in holders /\ holders' = holders \ {p}

LeaseNext == \E p \in Procs : Take(p) \/ GiveBack(p)

LeaseSpec == LeaseInit /\ [][LeaseNext]_holders
=============================================================================
