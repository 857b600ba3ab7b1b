------------------------------ MODULE Dashboards ------------------------------
(***************************************************************************)
(* Dashboards (src/dashboards/index.ts, their routes in src/api/router.ts) *)
(* with optimistic concurrency: a PUT names the revision it is based on.   *)
(* Two screens of the app edit the dashboards of their users, while an     *)
(* administrator changes the users' roles (src/users/index.ts).            *)
(*                                                                         *)
(* The app (DashboardRepositoryImpl.kt and                                 *)
(* DashboardEditorViewModel.kt) keeps a copy in its database, which the    *)
(* list of dashboards refreshes; the editor starts from that copy.         *)
(*                                                                         *)
(* The layouts are the set of objects their widgets refer to; the name and *)
(* the start flag travel with them.                                        *)
(*                                                                         *)
(* A definition named Action_Fault is the action with one plausible fault  *)
(* in it; no specification uses it, it shows that a property notices.      *)
(***************************************************************************)
EXTENDS CollectionStore, Naturals, FiniteSets

CONSTANTS
    Screens,        \* apps, each with at most one editor open
    UserOf,         \* [Screens -> user]
    DashIds,        \* ids a new dashboard can get
    Widgets,        \* public ids of objects
    RoleNames,      \* roles a user can have
    FirstRole,      \* the one every user has at first
    Visible,        \* [RoleNames -> SUBSET Widgets], by the exposure rules
    NoBoard,        \* no dashboard under that id
    NoRole,         \* what a deleted user has
    MaxRevision,    \* bound: revision of a dashboard
    MaxOpened,      \* bound: editors opened and lists refreshed
    MaxMishaps      \* bound: rejected writes, restarts, roles given, users deleted

ASSUME DashboardsAssumption == FirstRole \in RoleNames /\ MaxRevision \in Nat \ {0}

VARIABLES
    boards,     \* the dashboards collection
    born,       \* ids given to dashboards so far
    userRole,   \* the role of each user
    room,       \* the copies in each app's database
    editor,     \* each app's editor: its dashboard, what was changed in it
    asked,      \* the request each app waits for
    spentOn,    \* what is used up of the bounds
    accepted,   \* history: each dashboard with all accepted changes made to it
    phantom     \* history: the copies of versions a restart took back

boardVars == <<boards, born, userRole, room, editor, asked, spentOn, accepted, phantom>>

Users    == {UserOf[c] : c \in Screens}
Board    == [userId : Users, revision : 1..MaxRevision, layouts : SUBSET Widgets]
Copies   == [DashIds -> Board \cup {NoBoard}]
NoEditor == [open |-> FALSE]
NoAsk    == [at |-> "idle"]

DashboardsTypeOK ==
    /\ {boards.cache, boards.disk} \subseteq Copies
    /\ born \subseteq DashIds
    /\ \A d \in DashIds \ born : boards.cache[d] = NoBoard
    /\ userRole \in [Users -> RoleNames \cup {NoRole}]
    /\ room \in [Screens -> Copies]
    /\ \A c \in Screens :
          /\ editor[c].open => /\ editor[c].dash \in DashIds
                               /\ editor[c].revision \in 1..MaxRevision
                               /\ {editor[c].layouts, editor[c].changed} \subseteq SUBSET Widgets
          /\ asked[c].at \in {"idle", "sent", "storing", "auditing"}
          /\ \A d \in DashIds : room[c][d] # NoBoard => room[c][d].userId = UserOf[c]
    /\ accepted \in [DashIds -> SUBSET Widgets]
    /\ phantom \subseteq Screens \X DashIds

DashboardsInit ==
    /\ boards = Loaded([d \in DashIds |-> NoBoard])
    /\ born = {}
    /\ userRole = [u \in Users |-> FirstRole]
    /\ room = [c \in Screens |-> [d \in DashIds |-> NoBoard]]
    /\ editor = [c \in Screens |-> NoEditor]
    /\ asked = [c \in Screens |-> NoAsk]
    /\ spentOn = [opened |-> 0, mishaps |-> 0]
    /\ accepted = [d \in DashIds |-> {}]
    /\ phantom = {}

SpendOn(what, limit) == spentOn[what] < limit /\ spentOn' = [spentOn EXCEPT ![what] = @ + 1]

Either(S, T) == (S \ T) \cup (T \ S)

----------------------------------------------------------------------------
(* The app.                                                                *)

\* GET /dashboards: listForUser, from the cache of the collection
RefreshDashboards(c) ==
    /\ SpendOn("opened", MaxOpened)
    /\ room' = [room EXCEPT ![c] = [d \in DashIds |->
          IF boards.cache[d] # NoBoard /\ boards.cache[d].userId = UserOf[c]
          THEN boards.cache[d] ELSE NoBoard]]
    /\ phantom' = IF editor[c].open THEN phantom ELSE phantom \ ({c} \X DashIds)
    /\ UNCHANGED <<boards, born, userRole, editor, asked, accepted>>

\* The editor's init, and resolveConflictDiscard: the copy in the database.
OpenEditor(c, d) ==
    /\ asked[c] = NoAsk /\ room[c][d] # NoBoard
    /\ SpendOn("opened", MaxOpened)
    /\ editor' = [editor EXCEPT ![c] =
          [open |-> TRUE, dash |-> d, revision |-> room[c][d].revision,
           layouts |-> room[c][d].layouts, changed |-> {}, conflict |-> FALSE]]
    /\ UNCHANGED <<boards, born, userRole, room, asked, accepted, phantom>>

CloseEditor(c) ==
    /\ asked[c] = NoAsk /\ editor[c].open
    /\ editor' = [editor EXCEPT ![c] = NoEditor]
    /\ UNCHANGED <<boards, born, userRole, room, asked, spentOn, accepted, phantom>>

\* A widget is put in or taken out, and the dashboard saved; or it is saved
\* again as it is.
Save(c, W) ==
    LET e == editor[c] IN
    /\ asked[c] = NoAsk /\ e.open
    /\ editor' = [editor EXCEPT ![c].layouts = Either(@, W), ![c].changed = Either(@, W)]
    /\ asked' = [asked EXCEPT ![c] =
          [at |-> "sent", verb |-> "put", dash |-> e.dash, revision |-> e.revision,
           layouts |-> Either(e.layouts, W), forced |-> FALSE]]
    /\ UNCHANGED <<boards, born, userRole, room, spentOn, accepted, phantom>>

\* resolveConflictOverwrite: one more than the revision in the database,
\* whatever the server has.
Overwrite(c) ==
    LET e == editor[c] IN
    /\ asked[c] = NoAsk /\ e.open /\ e.conflict
    /\ room[c][e.dash] # NoBoard
    /\ editor' = [editor EXCEPT ![c].conflict = FALSE]
    /\ asked' = [asked EXCEPT ![c] =
          [at |-> "sent", verb |-> "put", dash |-> e.dash, revision |-> room[c][e.dash].revision + 1,
           layouts |-> e.layouts, forced |-> TRUE]]
    /\ UNCHANGED <<boards, born, userRole, room, spentOn, accepted, phantom>>

AskNew(c) ==
    /\ asked[c] = NoAsk /\ ~editor[c].open
    /\ born # DashIds
    /\ asked' = [asked EXCEPT ![c] = [at |-> "sent", verb |-> "post"]]
    /\ UNCHANGED <<boards, born, userRole, room, editor, spentOn, accepted, phantom>>

AskDelete(c, d) ==
    /\ asked[c] = NoAsk /\ ~editor[c].open /\ room[c][d] # NoBoard
    /\ asked' = [asked EXCEPT ![c] = [at |-> "sent", verb |-> "delete", dash |-> d]]
    /\ UNCHANGED <<boards, born, userRole, room, editor, spentOn, accepted, phantom>>

----------------------------------------------------------------------------
(* The server.                                                             *)

Stored(c, d, board) == boards' = Update(boards, c, [boards.cache EXCEPT ![d] = board])

\* An error goes back; a revision conflict is remembered by the editor.
Refused(c, conflict) ==
    /\ asked' = [asked EXCEPT ![c] = NoAsk]
    /\ editor' = IF editor[c].open THEN [editor EXCEPT ![c].conflict = conflict] ELSE editor

\* get(): the dashboard, if it is there and this user's
Owned(c, d) == boards.cache[d] # NoBoard /\ boards.cache[d].userId = UserOf[c]

\* validateWidgetReferences, with the role the user has now
WidgetsVisible(c, layouts) ==
    userRole[UserOf[c]] # NoRole /\ layouts \subseteq Visible[userRole[UserOf[c]]]

\* The rest of update(), up to the await of its write.
TakeUpdate(c) ==
    LET q == asked[c] IN
    /\ boards.cache[q.dash].revision < MaxRevision
    /\ Stored(c, q.dash, [boards.cache[q.dash] EXCEPT !.revision = @ + 1, !.layouts = q.layouts])
    /\ asked' = [asked EXCEPT ![c] = [at |-> "storing", verb |-> "put", dash |-> q.dash,
                    saved |-> boards'.cache[q.dash]]]
    /\ accepted' = [accepted EXCEPT ![q.dash] =
          IF q.forced \/ <<c, q.dash>> \in phantom THEN q.layouts ELSE Either(@, editor[c].changed)]
    /\ UNCHANGED editor

\* PUT /dashboards/:id
UpdateBoard_RevisionUnchecked(c) ==
    LET q == asked[c] IN
    /\ q.at = "sent" /\ q.verb = "put"
    /\ IF Owned(c, q.dash) /\ WidgetsVisible(c, q.layouts) THEN TakeUpdate(c)
       ELSE Refused(c, FALSE) /\ UNCHANGED <<boards, accepted>>
    /\ UNCHANGED <<born, userRole, room, spentOn, phantom>>

UpdateBoard(c) ==
    LET q == asked[c]
        conflict == Owned(c, q.dash) /\ boards.cache[q.dash].revision # q.revision IN
    /\ q.at = "sent" /\ q.verb = "put"
    /\ IF Owned(c, q.dash) /\ ~conflict /\ WidgetsVisible(c, q.layouts) THEN TakeUpdate(c)
       ELSE Refused(c, conflict) /\ UNCHANGED <<boards, accepted>>
    /\ UNCHANGED <<born, userRole, room, spentOn, phantom>>

\* POST /dashboards
CreateBoard(c, d) ==
    /\ asked[c].at = "sent" /\ asked[c].verb = "post"
    /\ d \notin born /\ born' = born \cup {d}
    /\ Stored(c, d, [userId |-> UserOf[c], revision |-> 1, layouts |-> {}])
    /\ asked' = [asked EXCEPT ![c] =
          [at |-> "storing", verb |-> "post", dash |-> d, saved |-> boards'.cache[d]]]
    /\ UNCHANGED <<userRole, room, editor, spentOn, accepted, phantom>>

\* DELETE /dashboards/:id; no revision is asked for.
DeleteBoard(c) ==
    LET q == asked[c] IN
    /\ q.at = "sent" /\ q.verb = "delete"
    /\ IF Owned(c, q.dash)
       THEN /\ Stored(c, q.dash, NoBoard)
            /\ asked' = [asked EXCEPT ![c] = [at |-> "storing", verb |-> "delete", dash |-> q.dash]]
            /\ UNCHANGED editor
       ELSE Refused(c, FALSE) /\ UNCHANGED boards
    /\ UNCHANGED <<born, userRole, room, spentOn, accepted, phantom>>

\* The app takes what the server answered into its database and its editor.
Answered(c, q) ==
    /\ asked' = [asked EXCEPT ![c] = NoAsk]
    /\ room' = [room EXCEPT ![c][q.dash] = IF q.verb = "delete" THEN NoBoard ELSE q.saved]
    /\ editor' = IF q.verb # "put" THEN editor
                 ELSE [editor EXCEPT ![c].revision = q.saved.revision, ![c].layouts = q.saved.layouts,
                          ![c].changed = {}, ![c].conflict = FALSE]
    /\ phantom' = phantom \ {<<c, q.dash>>}

\* The oldest write of the collection lands: a PUT goes on to the audit log,
\* the others answer.
BoardSaved ==
    /\ boards.writes # <<>>
    /\ boards' = Landed(boards)
    /\ LET c == Head(boards.writes).by  q == asked[c] IN
       IF q.at # "storing" THEN UNCHANGED <<asked, room, editor, phantom>>
       ELSE IF q.verb = "put"
       THEN asked' = [asked EXCEPT ![c].at = "auditing"] /\ UNCHANGED <<room, editor, phantom>>
       ELSE Answered(c, q)
    /\ UNCHANGED <<born, userRole, spentOn, accepted>>

\* Or it is rejected: an error, and the change stays in the cache.
BoardRejected ==
    /\ boards.writes # <<>> /\ SpendOn("mishaps", MaxMishaps)
    /\ boards' = Rejected(boards)
    /\ LET c == Head(boards.writes).by IN
       IF asked[c].at = "storing" THEN Refused(c, FALSE) ELSE UNCHANGED <<asked, editor>>
    /\ UNCHANGED <<born, userRole, room, accepted, phantom>>

\* audit.log returns, or throws although the dashboard is saved.
AuditWritten(c) ==
    /\ asked[c].at = "auditing"
    /\ Answered(c, asked[c])
    /\ UNCHANGED <<boards, born, userRole, spentOn, accepted>>

AuditThrows(c) ==
    /\ asked[c].at = "auditing" /\ SpendOn("mishaps", MaxMishaps)
    /\ Refused(c, FALSE)
    /\ UNCHANGED <<boards, born, userRole, room, accepted, phantom>>

\* The adapter restarts: requests get no answer, versions that were not
\* saved are gone, copies of them are not.
AdapterRestarts ==
    LET saved(d) == IF boards.disk[d] = NoBoard THEN 0 ELSE boards.disk[d].revision
        holds(c, d) == \/ room[c][d] # NoBoard /\ room[c][d].revision > saved(d)
                       \/ editor[c].open /\ editor[c].dash = d /\ editor[c].revision > saved(d) IN
    /\ SpendOn("mishaps", MaxMishaps)
    /\ boards' = Reloaded(boards)
    /\ asked' = [c \in Screens |-> NoAsk]
    /\ accepted' = [d \in DashIds |->
          IF boards.disk[d] = NoBoard THEN {} ELSE boards.disk[d].layouts]
    /\ phantom' = phantom \cup {p \in Screens \X DashIds : holds(p[1], p[2])}
    /\ UNCHANGED <<born, userRole, room, editor>>

\* UsersService.setRole and delete; dashboards of a deleted user remain.
SetUserRole(u, r) ==
    /\ userRole[u] \notin {r, NoRole}
    /\ SpendOn("mishaps", MaxMishaps)
    /\ userRole' = [userRole EXCEPT ![u] = r]
    /\ UNCHANGED <<boards, born, room, editor, asked, accepted, phantom>>

BoardsNext ==
    \/ \E c \in Screens :
          \/ RefreshDashboards(c) \/ AskNew(c) \/ CloseEditor(c) \/ Overwrite(c)
          \/ \E d \in DashIds : OpenEditor(c, d) \/ AskDelete(c, d) \/ CreateBoard(c, d)
          \/ \E W \in SUBSET Widgets : Cardinality(W) <= 1 /\ Save(c, W)
          \/ UpdateBoard(c) \/ DeleteBoard(c) \/ AuditWritten(c) \/ AuditThrows(c)
    \/ BoardSaved \/ BoardRejected \/ AdapterRestarts
    \/ \E u \in Users, r \in RoleNames \cup {NoRole} : SetUserRole(u, r)

BoardsSpec == DashboardsInit /\ [][BoardsNext]_boardVars

----------------------------------------------------------------------------
(* Properties                                                              *)

\* No save undoes another one unseen: what the collection holds is every
\* accepted change, made one after the other.  An overwrite that a person
\* asked for replaces what was there; and a version that a restart took back
\* gives its revision number to another one, so that a copy of it passes.
NoLostUpdate ==
    \A d \in DashIds : boards.cache[d] # NoBoard => boards.cache[d].layouts = accepted[d]
=============================================================================
