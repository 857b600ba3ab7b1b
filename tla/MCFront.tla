-------------------------------- MODULE MCFront --------------------------------
(* Small instances, in one run, of what a request meets before and behind the *)
(* routes: the replay guard, pairing, sessions and devices, the abuse guard   *)
(* and the rate limiter, the tunnel.  They share no state, so that their      *)
(* product would show nothing more: `part` chooses the one that takes the     *)
(* steps, and what is undetermined at the start of the others is set.         *)
EXTENDS RequestReplay, Pairing, DeviceAccess, Gates, EmbedAccess, TLC

CONSTANTS r1, r2, r3, k1, k2, h1, h2, s1, s2, w1, w2

VARIABLE part

Parts == {"replay", "pairing", "devices", "gates", "embeds", "tunnels"}

FrontInit ==
    /\ part \in Parts
    /\ Init /\ PairingInit /\ AccessInit /\ GatesInit /\ EmbedInit
    /\ part # "pairing" => requireAdminApproval
    /\ part # "devices" => \A d \in Devices : ~rules.cache[d]

\* The writes of the embeds and their rules in every order, without tunnels;
\* and tunnels, which read the caches only, with one message at a time and no
\* rejected write.
NoTunnels == UNCHANGED <<tokens, minute>>
OneEditor == counted'.mishaps = 0 /\ Cardinality({h \in Editors : messages'[h] # NoMessage}) <= 1

\* A step of one part.
Of(name, step) == part = name /\ step /\ UNCHANGED part

FrontNext ==
    \/ Of("replay", Next /\ UNCHANGED <<pairingVars, accessVars, gatesVars, embedVars>>)
    \/ Of("pairing", PairingNext /\ UNCHANGED <<vars, accessVars, gatesVars, embedVars>>)
    \/ Of("devices", AccessNext /\ UNCHANGED <<vars, pairingVars, gatesVars, embedVars>>)
    \/ Of("gates", GatesNext /\ UNCHANGED <<vars, pairingVars, accessVars, embedVars>>)
    \/ Of("embeds", /\ EmbedNext /\ NoTunnels
                    /\ UNCHANGED <<vars, pairingVars, accessVars, gatesVars>>)
    \/ Of("tunnels", /\ EmbedNext /\ OneEditor
                     /\ UNCHANGED <<vars, pairingVars, accessVars, gatesVars>>)

FrontSpec == FrontInit /\ [][FrontNext]_<<part, vars, pairingVars, accessVars, gatesVars, embedVars>>

----------------------------------------------------------------------------
\* Every variable of every part has its type, and the bounds hold.
FrontTypeOK == TypeOK /\ PairingTypeOK /\ AccessTypeOK /\ GatesTypeOK /\ EmbedTypeOK

----------------------------------------------------------------------------
\* Replay: r1 and r2 carry the same nonce, r2 stamped later; r3 has its own.
SharedKeyOf == r1 :> k1 @@ r2 :> k1 @@ r3 :> k2
Stamps == r1 :> 2 @@ r2 :> 5 @@ r3 :> 4

\* Handlers, sessions and editors are interchangeable.
Symmetric == Permutations({h1, h2}) \cup Permutations({s1, s2}) \cup Permutations({w1, w2})

\* Embeds: a device whose user may change the role; rules for a role, for the
\* user, a denial for the device, and one with two owners.
OwnedBy(role, user, device) == [roleId |-> role, userId |-> user, deviceId |-> device]
Grant(owner, deny) == [urlEmbedId |-> "e1", deny |-> deny] @@ owner
MCContexts == {[userId |-> "u", deviceId |-> "d", roleId |-> r] : r \in {"r1", "r2"}}
MCGrants ==
    {Grant(OwnedBy("r1", NoOwner, NoOwner), FALSE), Grant(OwnedBy(NoOwner, "u", NoOwner), FALSE),
     Grant(OwnedBy(NoOwner, NoOwner, "d"), TRUE), Grant(OwnedBy("r1", "u", NoOwner), FALSE)}
=============================================================================
