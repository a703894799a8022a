---------------------------- MODULE UserActivity ----------------------------
(***************************************************************************)
(* The first two middlewares an update passes, for one user: the activity  *)
(* middleware, which spares the registration of a user registered lately,  *)
(* and the ban middleware; beside the deletion of the user's data and the  *)
(* administrator's bans.  Administrators are let through by the second     *)
(* and are not modelled.                                                   *)
(***************************************************************************)
EXTENDS Naturals

CONSTANTS Updates,         \* tasks that handle updates
          UpdateInterval,  \* USER_ACTIVITY_UPDATE_INTERVAL_SECONDS
          MaxClock,        \* bound: the clock, in any unit of time
          MaxIncidents     \* bound: deletions, bans, errors, evictions

ASSUME ActivityAssumption == {UpdateInterval, MaxClock} \subseteq Nat \ {0}

VARIABLES
    clock,
    row,          \* the user's row in users: its name column, and is_banned
    snapshot,     \* _activity_cache: the time of the last update, or Never
    invalidated,  \* whether the user is in _invalidated_user_ids
    eraser,       \* /delete_my_data: "erased" between the commit and the invalidation
    update,       \* where each update is, and the clock it read
    incidents,
    raced         \* history: the snapshot is of a registration a deletion undid

activityVars == <<clock, row, snapshot, invalidated, eraser, update, incidents, raced>>

Never == MaxClock + 1
Resting == [at |-> "idle", now |-> 0, undone |-> FALSE]

ActivityInit ==
    /\ clock = 0
    /\ row = [name |-> "absent", banned |-> FALSE]
    /\ snapshot = Never
    /\ invalidated = FALSE
    /\ eraser = "idle"
    /\ update = [m \in Updates |-> Resting]
    /\ incidents = 0
    /\ raced = FALSE

Incident ==
    /\ incidents < MaxIncidents
    /\ incidents' = incidents + 1

UpdateAt(m, place, now) == [update EXCEPT ![m] = [@ EXCEPT !.at = place, !.now = now]]

------------------------------------------------------------------------------
\* UserActivityMiddleware

ShouldUpdateActivity ==
    invalidated \/ snapshot = Never \/ clock - snapshot >= UpdateInterval

Arrive(m) ==
    /\ update[m].at = "idle"
    /\ update' = IF ShouldUpdateActivity THEN UpdateAt(m, "registering", clock) ELSE UpdateAt(m, "screening", 0)
    /\ UNCHANGED <<clock, row, snapshot, invalidated, eraser, raced, incidents>>

Register(m) ==
    /\ update[m].at = "registering"
    /\ \/ /\ row' = [row EXCEPT !.name = "real"]
          /\ update' = UpdateAt(m, "remembering", update[m].now)
          /\ UNCHANGED incidents
       \/ /\ Incident
          /\ update' = UpdateAt(m, "screening", 0)
          /\ UNCHANGED row
    /\ UNCHANGED <<clock, snapshot, invalidated, eraser, raced>>

\* The registration has returned.  The snapshot bears the clock of the arrival.
Remember(m) ==
    /\ update[m].at = "remembering"
    /\ invalidated' = FALSE
    /\ snapshot' = update[m].now
    /\ raced' = update[m].undone
    /\ update' = [update EXCEPT ![m] = [Resting EXCEPT !.at = "screening"]]
    /\ UNCHANGED <<clock, row, eraser, incidents>>

\* Another user's registration exceeds the size of the cache.
Evict ==
    /\ snapshot # Never
    /\ Incident
    /\ snapshot' = Never
    /\ UNCHANGED <<clock, row, invalidated, eraser, raced, update>>

\* delete_user_private_data keeps the row, its ban and its plan.
ErasePrivateData ==
    /\ eraser = "idle"
    /\ row.name = "real"
    /\ Incident
    /\ row' = [row EXCEPT !.name = "erased"]
    /\ eraser' = "erased"
    /\ update' = [m \in Updates |-> [update[m] EXCEPT !.undone = update[m].at = "remembering"]]
    /\ UNCHANGED <<clock, snapshot, invalidated, raced>>

\* Slip: the deletion does not tell the middleware.
InvalidateNothing ==
    /\ eraser = "erased"
    /\ eraser' = "idle"
    /\ UNCHANGED <<clock, row, snapshot, invalidated, raced, update, incidents>>

Invalidate ==
    /\ eraser = "erased"
    /\ eraser' = "idle"
    /\ invalidated' = TRUE
    /\ UNCHANGED <<clock, row, snapshot, raced, update, incidents>>

------------------------------------------------------------------------------
\* BanMiddleware, and /ban and /unban: an UPDATE of the row, if there is one.

SetBan ==
    /\ Incident
    /\ row.name # "absent"
    /\ row' = [row EXCEPT !.banned = ~@]
    /\ UNCHANGED <<clock, snapshot, invalidated, eraser, raced, update>>

\* A check that fails lets the update through, to the rate limiter and the handler.
Screen(m) ==
    /\ update[m].at = "screening"
    /\ \/ /\ row.banned
          /\ update' = [update EXCEPT ![m] = Resting]
          /\ UNCHANGED incidents
       \/ /\ update' = UpdateAt(m, "handled", 0)
          /\ IF row.banned THEN Incident ELSE UNCHANGED incidents
    /\ UNCHANGED <<clock, row, snapshot, invalidated, eraser, raced>>

Handle(m) ==
    /\ update[m].at = "handled"
    /\ update' = [update EXCEPT ![m] = Resting]
    /\ UNCHANGED <<clock, row, snapshot, invalidated, eraser, raced, incidents>>

ActivityTick ==
    /\ clock < MaxClock
    /\ clock' = clock + 1
    /\ UNCHANGED <<row, snapshot, invalidated, eraser, update, incidents, raced>>

ActivityNext ==
    \/ \E m \in Updates : Arrive(m) \/ Register(m) \/ Remember(m) \/ Screen(m) \/ Handle(m)
    \/ Evict \/ ErasePrivateData \/ Invalidate \/ SetBan \/ ActivityTick

ActivitySpec == ActivityInit /\ [][ActivityNext]_activityVars

------------------------------------------------------------------------------
(* Once a user's data were deleted, the next update registers them again:  *)
(* a snapshot that spares the registration always stands for a row with    *)
(* the user's name, unless the deletion fell between a registration and    *)
(* its snapshot.                                                           *)
ActivityTrue ==
    snapshot # Never /\ ~invalidated /\ eraser = "idle" /\ ~raced => row.name = "real"
=============================================================================
