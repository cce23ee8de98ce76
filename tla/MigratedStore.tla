--------------------------- MODULE MigratedStore ---------------------------
(***************************************************************************)
(* What the device manager promises of the settings it has taken over from *)
(* the AS, abstractly: a working copy, a saved copy, a durable flag        *)
(* "committed" that makes the saved copy the authority, and the flag       *)
(* "owned" that lets clients change settings.                              *)
(*                                                                         *)
(* The promises: the saved copy only ever becomes the whole working copy,  *)
(* never a mixture and never an older one; it becomes the authority only   *)
(* when it is the working copy; what is loaded at startup is the           *)
(* authority; while owned, settings change one device at a time; and       *)
(* ownership is given up in an order that leaves no committed flag behind  *)
(* a working copy already dropped.                                         *)
(***************************************************************************)
CONSTANTS
    Device,        \* the devices
    Contents,      \* what a working or saved copy may contain
    Nothing,       \* there is no saved copy
    Empty,         \* the empty copy
    Saved(_)       \* the part of a working copy that is saved

VARIABLES
    running,       \* startup is over
    working,       \* the working copy
    saved,         \* the saved copy, or Nothing
    committed,     \* the saved copy is the authority
    owned          \* clients may change settings

vars == <<running, working, saved, committed, owned>>

Init ==
    /\ ~running
    /\ working = Empty
    /\ saved \in Contents \cup {Nothing}
    /\ ~committed
    /\ ~owned

\* Startup.  A read error may keep the manager from owning what is committed.
Load ==
    /\ ~running
    /\ running' = TRUE
    /\ \/ owned' = FALSE /\ working' = Empty
       \/ owned' = TRUE /\ committed /\ working' = IF saved = Nothing THEN Empty ELSE saved
    /\ UNCHANGED <<saved, committed>>

\* Startup without a migration: the authority is whatever was saved, brought
\* up to date, and it is saved before startup is over.
LoadAndSave ==
    /\ ~running
    /\ running' = TRUE
    /\ owned' = TRUE
    /\ working' \in Contents
    /\ saved' = Saved(working')
    /\ UNCHANGED committed

\* The process dies, possibly during startup.
Die ==
    /\ running' = FALSE
    /\ working' = Empty
    /\ owned' = FALSE
    /\ UNCHANGED <<saved, committed>>

SameBut(d) ==
    /\ DOMAIN working' \ {d} = DOMAIN working \ {d}
    /\ \A e \in DOMAIN working \ {d} : working'[e] = working[e]

Edit ==
    /\ running
    /\ owned => \E d \in Device : SameBut(d)
    /\ working' \in Contents
    /\ UNCHANGED <<running, saved, committed, owned>>

Flush ==
    /\ running
    /\ owned \/ ~committed
    /\ saved' = Saved(working)
    /\ UNCHANGED <<running, working, committed, owned>>

Commit ==
    /\ running
    /\ saved = Saved(working)
    /\ committed' = TRUE
    /\ UNCHANGED <<running, working, saved, owned>>

Own ==
    /\ running
    /\ committed
    /\ owned' = TRUE
    /\ UNCHANGED <<running, working, saved, committed>>

Forget ==
    /\ running
    /\ saved' = Nothing
    /\ UNCHANGED <<running, working, committed, owned>>

Uncommit ==
    /\ running
    /\ saved = Nothing
    /\ committed' = FALSE
    /\ UNCHANGED <<running, working, saved, owned>>

Drop ==
    /\ running
    /\ ~committed
    /\ working' = Empty
    /\ UNCHANGED <<running, saved, committed, owned>>

Disown ==
    /\ running
    /\ ~committed
    /\ working = Empty
    /\ owned' = FALSE
    /\ UNCHANGED <<running, working, saved, committed>>

Next ==
    \/ Load \/ LoadAndSave \/ Die
    \/ Edit \/ Flush \/ Commit \/ Own \/ Forget \/ Uncommit \/ Drop \/ Disown

Spec == Init /\ [][Next]_vars
=============================================================================
