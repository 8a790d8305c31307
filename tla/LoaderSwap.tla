------------------------------ MODULE LoaderSwap ------------------------------
(***************************************************************************)
(* What the tools promise about a loader that is not theirs but lies where *)
(* they put their own: it is set aside whole before its place is written,  *)
(* the copy set aside is never changed, and it goes only when the loader   *)
(* is back in its place.                                                   *)
(***************************************************************************)
CONSTANTS
    Loader,     \* the loader of the machine
    Absent      \* no file

VARIABLES
    slot,       \* the place of the loader
    backup,     \* what was set aside
    seen        \* there was a loader, and no look at it ever failed

vars == <<slot, backup, seen>>

Init ==
    /\ seen \in BOOLEAN /\ backup = Absent
    /\ seen => slot = Loader

(* One renaming: the loader is never in both places, and never in neither. *)
SetAside ==
    /\ slot = Loader /\ backup = Absent
    /\ slot' = Absent /\ backup' = Loader

(* With the loader set aside its place takes anything, torn files too.     *)
Write == backup = Loader /\ UNCHANGED backup

Discard ==
    /\ slot = Loader /\ backup = Loader
    /\ UNCHANGED slot /\ backup' = Absent

(* Once a file that is there was taken for absent, nothing is promised.    *)
Overlooked == ~ seen'

Next == \/ seen /\ seen' = seen /\ (SetAside \/ Write \/ Discard)
        \/ Overlooked

Spec == Init /\ [][Next]_vars
=============================================================================
