------------------------------- MODULE MCRecords -------------------------------
(* Small instances, in one run, of what the adapter keeps: the collection     *)
(* itself, the catalogue, fetched contents, dashboards, logs, and what        *)
(* survives a start.  They share no state, so that their product would show   *)
(* nothing more: `part` chooses the one that takes the steps.                 *)
EXTENDS Storage, Catalog, ContentCache, Dashboards, AlarmEvents, Lifecycle

CONSTANTS alice, bob, carol, item1, item2, u1, u2

VARIABLE part

Parts == {"collection", "catalogue", "profiles", "contents", "dashboards", "logs", "lifecycle"}

RecordsInit ==
    /\ part \in Parts
    /\ Init /\ CatalogInit /\ ContentInit /\ DashboardsInit /\ AlarmsInit /\ LifecycleInit
    /\ part # "contents" => kind = "embed" /\ address = u1
    /\ part # "logs" => which = "audit"

\* A step of one part.
Of(name, step) == part = name /\ step /\ UNCHANGED part

\* The catalogue in two parts: few rules that clients read, and more of them
\* that come from profiles.
Small  == ruleIds' + edits' <= 2 /\ UNCHANGED profileVars
Unread == UNCHANGED <<tree, idVars, fetch, held, edits>>

RecordsNext ==
    \/ Of("collection", Next /\ UNCHANGED <<catalogVars, contentVars, boardVars, logVars, lifeVars>>)
    \/ Of("catalogue", CatalogNext /\ Small /\ UNCHANGED <<vars, contentVars, boardVars, logVars, lifeVars>>)
    \/ Of("profiles", CatalogNext /\ Unread /\ UNCHANGED <<vars, contentVars, boardVars, logVars, lifeVars>>)
    \/ Of("contents", ContentNext /\ UNCHANGED <<vars, catalogVars, boardVars, logVars, lifeVars>>)
    \/ Of("dashboards", BoardsNext /\ UNCHANGED <<vars, catalogVars, contentVars, logVars, lifeVars>>)
    \/ Of("logs", LogNext /\ UNCHANGED <<vars, catalogVars, contentVars, boardVars, lifeVars>>)
    \/ Of("lifecycle", LifecycleNext /\ UNCHANGED <<vars, catalogVars, contentVars, boardVars, logVars>>)

RecordsSpec ==
    RecordsInit /\ [][RecordsNext]_<<part, vars, catalogVars, contentVars, boardVars, logVars, lifeVars>>

----------------------------------------------------------------------------
\* Every variable of every part has its type, and the bounds hold.
RecordsTypeOK ==
    TypeOK /\ CatalogTypeOK /\ ContentTypeOK /\ DashboardsTypeOK /\ AlarmsTypeOK /\ LifecycleTypeOK

----------------------------------------------------------------------------
\* Catalog: a tree with a blocked state and two of one channel.
Lamp   == <<"zigbee", "lamp", "on">>
Level  == <<"zigbee", "lamp", "level">>
Alive  == <<"system", "adapter", "alive">>
MCLeaves == <<Alive, Level, Lamp>>
MCFirst  == {Lamp, Alive}
MCAlarmLog == <<Alive, Lamp>>

MCCtx == [k \in Clients |->
    [userId |-> "u", roleId |-> "r", deviceId |-> IF k \in Previews THEN "" ELSE "d"]]

Own(role, user, device) == [roleId |-> role, userId |-> user, deviceId |-> device]
Body(scope, target, own, deny, rights) ==
    [scope |-> scope, target |-> target, members |-> {}, deny |-> deny, rights |-> rights,
     terms |-> "plain"] @@ own

\* A grant on everything for the role, one on a channel for the user, a
\* denial of one state for the device.
MCBodies ==
    {Body("pattern", <<Star>>, Own("r", NoOwner, NoOwner), FALSE, {"read"}),
     Body("channel", <<"zigbee", "lamp">>, Own(NoOwner, "u", NoOwner), FALSE, {"read", "write"}),
     Body("state", Lamp, Own(NoOwner, NoOwner, "d"), TRUE, {})}
MCPatches == {[deny |-> FALSE, rights |-> {"read"}], [userId |-> "u"]}
MCOwners == {Own(NoOwner, "u", NoOwner)}

\* Dashboards: two screens of one user; a role that sees one of the objects.
MCUserOf  == [s \in Screens |-> "u"]
MCVisible == [r \in RoleNames |-> IF r = "full" THEN Widgets ELSE {"w1"}]

\* Lifecycle
MCBuiltIn == <<"administrator", "viewer">>
=============================================================================
