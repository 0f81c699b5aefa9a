----------------------------- MODULE RegionPromise -----------------------------
(***************************************************************************)
(* What the application promises about the Windows region, whatever the    *)
(* operation, crash or recovery that is going on: the original region is   *)
(* on disk before anything changes, it stays there for as long as it is    *)
(* owed to the user, and a record is forgotten only when nothing is owed.  *)
(***************************************************************************)
CONSTANTS Regions,   \* the regions Windows can be set to
          NoRegion,  \* not a region: nothing is owed
          Nothing    \* not a promise: nothing is saved

PromiseAssumption ==
    /\ NoRegion \notin Regions
    /\ Nothing \notin [original : Regions, temporary : Regions]

VARIABLES region,  \* the region in force
          saved,   \* the change announced on disk, or Nothing
          owed     \* the region taken from the user and not yet given back

vars == <<region, saved, owed>>

Changes == [original : Regions, temporary : Regions]

TypeOK ==
    /\ region \in Regions
    /\ saved \in Changes \cup {Nothing}
    /\ owed \in Regions \cup {NoRegion}

Init ==
    /\ region \in Regions
    /\ saved = Nothing
    /\ owed = NoRegion

Save ==
    /\ saved = Nothing
    /\ saved' \in Changes
    /\ UNCHANGED <<region, owed>>

\* A change into the region that was in force anyway takes nothing away.
Switch ==
    /\ saved # Nothing
    /\ region' = saved.temporary
    /\ owed' = IF saved.temporary = saved.original THEN NoRegion ELSE saved.original
    /\ UNCHANGED saved

PutBack ==
    /\ saved # Nothing
    /\ region' = saved.original
    /\ owed' = NoRegion
    /\ UNCHANGED saved

Forget ==
    /\ saved # Nothing
    /\ owed = NoRegion
    /\ saved' = Nothing
    /\ UNCHANGED <<region, owed>>

\* A region the user chose is the user's: nothing is owed any more.
UserMoves ==
    /\ region' \in Regions \ {region}
    /\ owed' = NoRegion
    /\ UNCHANGED saved

Next == Save \/ Switch \/ PutBack \/ Forget \/ UserMoves

Spec == Init /\ [][Next]_vars

\* Whatever is owed is on disk, together with the region that took its place.
OwedIsSaved ==
    owed # NoRegion => /\ saved # Nothing
                       /\ saved.original = owed
                       /\ saved.temporary = region
                       /\ region # owed
===============================================================================
