----------------------------- MODULE AtomicFile -----------------------------
(***************************************************************************)
(* What BluetoothPersistenceAdapter::Write promises of the AS file,        *)
(* abstractly: a reader always finds the whole of what one Write published *)
(* (or what was there before), and a power loss brings back one of the     *)
(* contents published since the last that is known to be durable.          *)
(*                                                                         *)
(* The one exception is a file system that does not do as it is told: when *)
(* it has refused to make a content durable ("torn"), a power loss may     *)
(* bring back pieces.  While the power stays, a Write publishes the whole  *)
(* even then.                                                              *)
(***************************************************************************)
CONSTANTS
    Contents,   \* what a Write may publish
    Nothing     \* there is no file

VARIABLES
    content,    \* what a reader finds
    survivors,  \* what a power loss may bring back
    torn        \* something that was to be made durable was not

vars == <<content, survivors, torn>>

Init ==
    /\ content \in Contents \cup {Nothing}
    /\ survivors = {content}
    /\ torn = FALSE

\* The new content takes the place of the old one at once, but not yet for good.
Replace ==
    /\ content' \in Contents
    /\ survivors \cup {content'} \subseteq survivors'
    /\ ~torn => survivors' = survivors \cup {content'}
    /\ UNCHANGED torn

\* ... and then for good.
Settle ==
    /\ content \in survivors' /\ survivors' \subseteq survivors
    /\ ~torn => survivors' = {content}
    /\ UNCHANGED <<content, torn>>

Tear ==
    /\ torn' = TRUE
    /\ UNCHANGED <<content, survivors>>

PowerLoss ==
    /\ content' \in survivors
    /\ survivors' = {content'}
    /\ UNCHANGED torn

Next == Replace \/ Settle \/ Tear \/ PowerLoss

Spec == Init /\ [][Next]_vars
=============================================================================
