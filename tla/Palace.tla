------------------------------- MODULE Palace -------------------------------
(***************************************************************************)
(* What the memory store promises its callers: a map from slugs to          *)
(* descriptions in which a save or a delete takes effect once, between its  *)
(* call and its answer, a caller told SPG_OK had its change applied and a   *)
(* caller told an error changed nothing. A caller that dies may have had    *)
(* its change applied or not.                                               *)
(***************************************************************************)
CONSTANTS Slugs, Descs, NoDesc, Procs

VARIABLES
    palace, \* per slug: the description, NoDesc = no such memory
    phase,  \* per caller: "idle", "called" or "applied"
    wanted  \* per caller: the slug and description of its request, or NoRequest

pvars == <<palace, phase, wanted>>

Requests == [slug : Slugs, desc : Descs \cup {NoDesc}]

NoRequest == [slug |-> NoDesc, desc |-> NoDesc]

PInit ==
    /\ palace \in [Slugs -> Descs \cup {NoDesc}]
    /\ phase = [p \in Procs |-> "idle"]
    /\ wanted = [p \in Procs |-> NoRequest]

Call(p) ==
    /\ phase[p] = "idle"
    /\ phase' = [phase EXCEPT ![p] = "called"]
    /\ \E r \in Requests : wanted' = [wanted EXCEPT ![p] = r]
    /\ UNCHANGED palace

Apply(p) ==
    /\ phase[p] = "called"
    /\ palace' = [palace EXCEPT ![wanted[p].slug] = wanted[p].desc]
    /\ phase' = [phase EXCEPT ![p] = "applied"]
    /\ UNCHANGED wanted

(* An answer, or the death of the caller: the map is left alone.            *)
Leave(p) ==
    /\ phase[p] # "idle"
    /\ phase' = [phase EXCEPT ![p] = "idle"]
    /\ wanted' = [wanted EXCEPT ![p] = NoRequest]
    /\ UNCHANGED palace

PNext == \E p \in Procs : Call(p) \/ Apply(p) \/ Leave(p)

PSpec == PInit /\ [][PNext]_pvars
=============================================================================
