----------------------------- MODULE SnapshotStore -----------------------------
(***************************************************************************)
(* The durable snapshot of one room (services/ws/store/store.go) and the   *)
(* writes that reach it: persistLocked stamps each snapshot with the       *)
(* room's version, persistence/redis.go sends saves and deletes from a     *)
(* goroutine each, the store accepts a save only when its version is       *)
(* greater than the last one and the room was not deleted.  Versions and   *)
(* the store's memory of them live in the process and die with it.         *)
(*                                                                         *)
(* The content of a snapshot is the number of the change it was taken      *)
(* after, so that newer means greater; a room object made by joinRoom is a *)
(* life of the room.                                                       *)
(***************************************************************************)
EXTENDS Integers

CONSTANTS
    MaxChanges,     \* bound: changes of the room that persist it
    MaxLives,       \* bound: room objects made
    Failures        \* how a Redis command may fail: "none", "refused" (nothing
                    \* was done), or "unanswered" (it may have been done)

ASSUME StoreAssumption ==
    /\ MaxChanges \in Nat /\ MaxLives \in Nat
    /\ Failures \in {"none", "refused", "unanswered"}

NoSnapshot == [life |-> 0, content |-> 0]
Unwritten == -1

VARIABLES
    alive,          \* the manager holds a room object
    life,           \* which one: the room objects made so far
    firstLife,      \* the first one of this process
    changes,        \* changes ever made
    content,        \* the change the room object is at
    snapVersion,    \* room.snapVersion
    key,            \* the Redis key: a snapshot or none
    lastVersion,    \* roomState[roomID].version
    deleted,        \* roomState[roomID].deleted
    saves,          \* saves under way
    deletes,        \* deletes under way
    failed,         \* a command of this process has failed
    unsure          \* history: a save whose caller was told that it failed was
                    \* executed, and the store has recorded no write since

roomVars == <<alive, life, firstLife, changes, content, snapVersion>>
storeVars == <<key, lastVersion, deleted>>
snapVars == <<roomVars, storeVars, saves, deletes, failed, unsure>>

Snapshots == [life : Nat, content : Nat]
Saves == [version : Nat, snap : Snapshots]

-----------------------------------------------------------------------------
(* The room.                                                               *)

\* A change, and persistLocked.
Persist ==
    /\ alive /\ changes < MaxChanges
    /\ changes' = changes + 1
    /\ content' = changes + 1
    /\ snapVersion' = snapVersion + 1
    /\ saves' = saves \cup
          {[version |-> snapVersion + 1,
            snap |-> [life |-> life, content |-> changes + 1]]}
    /\ UNCHANGED <<alive, life, firstLife, storeVars, deletes, failed, unsure>>

\* The last player leaves the lobby: the snapshot is to be deleted, the room
\* object is dropped.
Teardown ==
    /\ alive
    /\ alive' = FALSE
    /\ deletes' = deletes + 1
    /\ UNCHANGED <<life, firstLife, changes, content, snapVersion, storeVars, saves,
                   failed, unsure>>

\* A mutant of FreshVersion: the new object counts on from what the store knows.
FreshVersionOfStore == lastVersion

\* room.snapVersion of a new object; nothing restores it.
FreshVersion == 0

\* joinRoom makes a room object and restores it; a load that fails counts as a
\* room that was never saved.
JoinAgain ==
    /\ ~alive /\ life < MaxLives
    /\ alive' = TRUE
    /\ life' = life + 1
    /\ snapVersion' = FreshVersion
    /\ \/ content' = key.content /\ UNCHANGED failed
       \/ Failures # "none" /\ content' = 0 /\ failed' = TRUE
    /\ UNCHANGED <<firstLife, changes, storeVars, saves, deletes, unsure>>

\* The process dies and another one takes its place.
Restart ==
    /\ alive' = FALSE
    /\ firstLife' = life + 1
    /\ saves' = {} /\ deletes' = 0 /\ failed' = FALSE /\ unsure' = FALSE
    /\ lastVersion' = Unwritten /\ deleted' = FALSE
    /\ UNCHANGED <<life, changes, content, snapVersion, key>>

-----------------------------------------------------------------------------
(* The store.                                                              *)

\* Mutants of Stale: the tombstone is ignored, and an equal or older version
\* is written.
StaleVersion(save) == save.version <= lastVersion
StaleDeleted(save) == deleted

Stale(save) == deleted \/ save.version <= lastVersion

\* SaveRoom.
SaveLands(save) ==
    /\ save \in saves
    /\ saves' = saves \ {save}
    /\ IF Stale(save) THEN UNCHANGED <<storeVars, unsure>>
       ELSE /\ key' = save.snap
            /\ lastVersion' = save.version
            /\ unsure' = FALSE
            /\ UNCHANGED deleted
    /\ UNCHANGED <<roomVars, deletes, failed>>

\* The command returned an error, or no answer in time, and the version is not
\* recorded; without an answer, it may have been executed.
SaveFails(save) ==
    /\ Failures # "none" /\ save \in saves /\ ~Stale(save)
    /\ saves' = saves \ {save} /\ failed' = TRUE
    /\ \/ UNCHANGED <<key, unsure>>
       \/ Failures = "unanswered" /\ key' = save.snap /\ unsure' = TRUE
    /\ UNCHANGED <<roomVars, lastVersion, deleted, deletes>>

\* Delete.  The version of a room never written counts from zero.
DeleteLands ==
    /\ deletes > 0
    /\ deletes' = deletes - 1
    /\ key' = NoSnapshot
    /\ lastVersion' = (IF lastVersion = Unwritten THEN 0 ELSE lastVersion) + 1
    /\ deleted' = TRUE /\ unsure' = FALSE
    /\ UNCHANGED <<roomVars, saves, failed>>

DeleteFails ==
    /\ Failures # "none" /\ deletes > 0
    /\ deletes' = deletes - 1 /\ failed' = TRUE
    /\ key' \in {key} \cup (IF Failures = "unanswered" THEN {NoSnapshot} ELSE {})
    /\ UNCHANGED <<roomVars, lastVersion, deleted, saves, unsure>>

-----------------------------------------------------------------------------
StoreInit ==
    /\ alive = FALSE /\ life = 0 /\ firstLife = 1
    /\ changes = 0 /\ content = 0 /\ snapVersion = 0
    /\ key = NoSnapshot /\ lastVersion = Unwritten /\ deleted = FALSE
    /\ saves = {} /\ deletes = 0 /\ failed = FALSE /\ unsure = FALSE

StoreNext ==
    \/ Persist \/ Teardown \/ JoinAgain \/ Restart
    \/ \E save \in saves : SaveLands(save) \/ SaveFails(save)
    \/ DeleteLands \/ DeleteFails

StoreSpec == StoreInit /\ [][StoreNext]_snapVars

-----------------------------------------------------------------------------
(* Properties.                                                             *)

StoreTypeOK ==
    /\ alive \in BOOLEAN /\ life \in Nat /\ firstLife \in Nat
    /\ changes \in Nat /\ content \in Nat /\ snapVersion \in Nat
    /\ key \in Snapshots /\ lastVersion \in Nat \cup {Unwritten}
    /\ deleted \in BOOLEAN
    /\ saves \in SUBSET Saves /\ deletes \in Nat
    /\ failed \in BOOLEAN /\ unsure \in BOOLEAN

\* A delayed save never resurrects a room: once a delete has reached the store,
\* the key stays empty for as long as the process lives (SaveRoom's tombstone).
DeletedStaysDeleted == deleted => key = NoSnapshot

\* The goroutines may run in any order and commands may be refused or go
\* unanswered, but the snapshot of one room object only moves forward (SaveRoom's
\* "strictly greater" version).  Only a save that was executed without an answer
\* can be overwritten by an older one, because its version was not recorded, and
\* only until the next write is recorded.
NeverBackwardsInALife ==
    [][~unsure /\ key'.life = key.life => key'.content >= key.content]_snapVars

\* With every write landed, the snapshot is the room: a restart resumes the last
\* change, however the writes were reordered, while no command has failed and the
\* process has made only one object for the room.
SettledIsDurable ==
    (/\ ~failed
     /\ alive /\ life = firstLife
     /\ saves = {})
        => key.content = content

\* The store keeps its types, deleted rooms stay deleted, and the snapshot of an
\* undisturbed first object settles on the room (SaveRoom, Delete).
StoreSound == StoreTypeOK /\ DeletedStaysDeleted /\ SettledIsDurable

\* --- statements of the code's comments that do not hold ---

\* "Persist the lobby roster on every change so a restart mid-lobby can rehydrate
\* the waiting room" (broadcastLobbyState), for a room made again after it was
\* torn down.
EveryChangeIsDurable ==
    (alive /\ saves = {} /\ deletes = 0) => key.content = content

\* The same without the exception.
ForwardThroughSilence ==
    [][key'.life = key.life => key'.content >= key.content]_snapVars

\* "store.Store uses snapshot versions to reject delayed stale writes"
\* (persistence/redis.go): the key never goes back to an older snapshot.
NeverBackwards == [][key' # NoSnapshot => key'.content >= key.content]_snapVars

\* "Drop its durable snapshot so it isn't resurrected on a later connect"
\* (removeAndNotifyLobbyLeaveLocked).
TornRoomIsNotLoaded ==
    [][(~alive /\ alive' /\ life' # firstLife) => content' = 0]_snapVars
=============================================================================
