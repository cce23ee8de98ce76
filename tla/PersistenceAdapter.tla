------------------------- MODULE PersistenceAdapter -------------------------
(***************************************************************************)
(* BluetoothPersistenceAdapter::Write and ReadRaw: how the AS file is      *)
(* replaced, step by step, while the process or the machine may stop at    *)
(* any of them.  DeviceManager takes the whole of Write as one action; this*)
(* module shows what that rests on.                                        *)
(*                                                                         *)
(* A payload is a value of Payloads and takes Chunks calls of write(2).  A *)
(* file is a payload and how many of its chunks are there.  What a power   *)
(* loss leaves of a file is what was synced, or more: the kernel writes    *)
(* back whenever it likes.  afterLoss is the set of contents the AS file   *)
(* may come back with.                                                     *)
(***************************************************************************)
EXTENDS Integers

CONSTANTS
    Writers,      \* threads that call Write
    NoWriter,     \* nobody holds gFilesystemPersistenceWriteMutex
    Payloads,     \* serialized contents
    Chunks,       \* calls of write(2) a payload takes
    NoFile,       \* there is no file under the name
    Unread,       \* a writer could not read the file it merges with
    Faults,       \* what may fail, see AllFaults
    MaxWrites,    \* bound: calls of Write
    MaxStops      \* bound: deaths of the process and power losses

AllFaults == {"read", "open", "write", "fsync", "fsyncDir", "rename", "remove"}

ASSUME AdapterAssumption ==
    /\ NoWriter \notin Writers
    /\ Payloads # {}
    /\ Chunks \in Nat \ {0}
    /\ Faults \subseteq AllFaults
    /\ MaxWrites \in Nat
    /\ MaxStops \in Nat

File == [payload : Payloads, size : 0 .. Chunks]

ASSUME NoFileAssumption == NoFile \notin File /\ Unread \notin File \cup {NoFile}

Whole(p) == [payload |-> p, size |-> Chunks]
WholeFiles == {Whole(p) : p \in Payloads} \cup {NoFile}

\* What a power loss may leave of file f when the first s chunks are synced.
Prefixes(f, s) == {[f EXCEPT !.size = n] : n \in s .. f.size}

VARIABLES
    main,       \* the AS file
    tmp,        \* the file under the name with ".tmp" appended
    tmpSynced,  \* how many chunks of tmp fsync has made durable
    mainSynced, \* the same of main: it came with the rename
    afterLoss,  \* the contents a power loss may leave under the name of main
    mutex,      \* the writer that holds gFilesystemPersistenceWriteMutex
    wpc,        \* the next step of each writer
    payload,    \* what it writes
    base,       \* the content of main it merged its payload with, or Unread
    ignored,    \* history: the failures Write has gone on after
    writes, stops

files   == <<main, tmp, tmpSynced, mainSynced, afterLoss>>
writers == <<mutex, wpc, payload, base>>
bounds  == <<writes, stops>>
history == <<ignored, bounds>>
vars    == <<files, writers, history>>

Steps == {"idle", "lock", "readExisting", "openTmp", "writeTmp", "removeTmp",
          "syncTmp", "rename", "syncDir"}

AnyPayload == CHOOSE p \in Payloads : TRUE

TypeOK ==
    /\ main \in File \cup {NoFile}
    /\ tmp \in File \cup {NoFile}
    /\ tmpSynced \in 0 .. Chunks
    /\ mainSynced \in 0 .. Chunks
    /\ afterLoss \in SUBSET (File \cup {NoFile})
    /\ mutex \in Writers \cup {NoWriter}
    /\ wpc \in [Writers -> Steps]
    /\ payload \in [Writers -> Payloads]
    /\ base \in [Writers -> File \cup {NoFile, Unread}]
    /\ ignored \in SUBSET {"fsync", "remove"}
    /\ writes \in Nat
    /\ stops \in Nat

Init ==
    /\ main \in WholeFiles
    /\ tmp = NoFile
    /\ tmpSynced = 0
    /\ mainSynced = Chunks
    /\ afterLoss = {main}
    /\ mutex = NoWriter
    /\ wpc = [w \in Writers |-> "idle"]
    /\ payload = [w \in Writers |-> AnyPayload]
    /\ base = [w \in Writers |-> NoFile]
    /\ ignored = {}
    /\ writes = 0
    /\ stops = 0

Goto(w, step) == wpc' = [wpc EXCEPT ![w] = step]

Fails(fault) == fault \in Faults

\* Seeded fault: the mutex stays locked.
ReturnLocked(w) ==
    /\ Goto(w, "idle")
    /\ payload' = [payload EXCEPT ![w] = AnyPayload]
    /\ base' = [base EXCEPT ![w] = NoFile]
    /\ UNCHANGED mutex

\* The lock_guard goes out of scope.
Return(w) ==
    /\ Goto(w, "idle")
    /\ mutex' = NoWriter
    /\ payload' = [payload EXCEPT ![w] = AnyPayload]
    /\ base' = [base EXCEPT ![w] = NoFile]

-----------------------------------------------------------------------------
(* Write                                                                   *)

CallWrite(w) ==
    /\ wpc[w] = "idle"
    /\ writes < MaxWrites
    /\ writes' = writes + 1
    /\ Goto(w, "lock")
    /\ UNCHANGED <<files, mutex, payload, base, ignored, stops>>

\* Seeded fault: the AS file is read before the mutex is taken.
ReadOutsideLock(w) ==
    /\ wpc[w] = "lock"
    /\ \/ base' = [base EXCEPT ![w] = main] /\ UNCHANGED <<mutex, wpc>>
       \/ /\ mutex = NoWriter
          /\ main = NoFile \/ base[w] # NoFile
          /\ mutex' = w
          /\ Goto(w, "openTmp")
          /\ UNCHANGED base
    /\ UNCHANGED <<files, payload, history>>

Lock(w) ==
    /\ wpc[w] = "lock"
    /\ mutex = NoWriter
    /\ mutex' = w
    /\ Goto(w, "readExisting")
    /\ UNCHANGED <<files, payload, base, history>>

\* Read main, merge its entries with the cache, and serialize.  Of a file that
\* cannot be opened, is too large or is read short there are no entries.
ReadExisting(w) ==
    /\ wpc[w] = "readExisting"
    /\ \/ base' = [base EXCEPT ![w] = main]
       \/ Fails("read") /\ base' = [base EXCEPT ![w] = Unread]
    /\ \E p \in Payloads : payload' = [payload EXCEPT ![w] = p]
    /\ Goto(w, "openTmp")
    /\ UNCHANGED <<files, mutex, history>>

\* Seeded fault: the AS file itself is opened and truncated.
OpenInPlace(w) ==
    /\ wpc[w] = "openTmp"
    /\ main' = [payload |-> payload[w], size |-> 0]
    /\ tmp' = main' /\ tmpSynced' = 0
    /\ Goto(w, "writeTmp")
    /\ UNCHANGED <<mainSynced, afterLoss, mutex, payload, base, history>>

\* O_CREAT | O_TRUNC: whatever a former writer left behind is gone.
OpenTmp(w) ==
    /\ wpc[w] = "openTmp"
    /\ \/ /\ tmp' = [payload |-> payload[w], size |-> 0]
          /\ tmpSynced' = 0
          /\ Goto(w, "writeTmp")
          /\ UNCHANGED <<mutex, payload, base>>
       \/ /\ Fails("open")
          /\ Return(w)
          /\ UNCHANGED <<tmp, tmpSynced>>
    /\ UNCHANGED <<main, mainSynced, afterLoss, history>>

\* Seeded faults: the loop runs once too often; a short write counts as the
\* whole.
WriteTmpTooFar(w) ==
    /\ wpc[w] = "writeTmp"
    /\ tmp' = [tmp EXCEPT !.size = @ + 1]
    /\ IF tmp'.size > Chunks THEN Goto(w, "syncTmp") ELSE UNCHANGED wpc
    /\ UNCHANGED <<main, tmpSynced, mainSynced, afterLoss, mutex, payload, base, history>>

WriteTmpOnce(w) ==
    /\ wpc[w] = "writeTmp"
    /\ tmp' = [tmp EXCEPT !.size = @ + 1]
    /\ Goto(w, "syncTmp")
    /\ UNCHANGED <<main, tmpSynced, mainSynced, afterLoss, mutex, payload, base, history>>

\* One round of the loop: a chunk is written, the loop ends with the last one,
\* or write(2) fails.  A call interrupted by a signal is repeated, and does
\* not show.
WriteTmp(w) ==
    /\ wpc[w] = "writeTmp"
    /\ \/ /\ tmp' = [tmp EXCEPT !.size = @ + 1]
          /\ IF tmp'.size = Chunks THEN Goto(w, "syncTmp") ELSE UNCHANGED wpc
       \/ /\ Fails("write")
          /\ Goto(w, "removeTmp")
          /\ UNCHANGED tmp
    /\ UNCHANGED <<main, tmpSynced, mainSynced, afterLoss, mutex, payload, base, history>>

\* Seeded fault: the temporary file stays.
RemoveTmpForgotten(w) ==
    /\ wpc[w] = "removeTmp"
    /\ Return(w)
    /\ UNCHANGED <<files, history>>

\* After a failed write or rename the temporary file goes.
RemoveTmp(w) ==
    /\ wpc[w] = "removeTmp"
    /\ \/ tmp' = NoFile /\ UNCHANGED ignored
       \/ Fails("remove") /\ ignored' = ignored \cup {"remove"} /\ UNCHANGED tmp
    /\ Return(w)
    /\ UNCHANGED <<main, tmpSynced, mainSynced, afterLoss, bounds>>

\* Seeded fault: no fsync before the rename.
SyncTmpSkipped(w) ==
    /\ wpc[w] = "syncTmp"
    /\ Goto(w, "rename")
    /\ UNCHANGED <<files, mutex, payload, base, history>>

\* A failing fsync is logged, and Write goes on.
SyncTmp(w) ==
    /\ wpc[w] = "syncTmp"
    /\ \/ tmpSynced' = tmp.size /\ UNCHANGED ignored
       \/ Fails("fsync") /\ ignored' = ignored \cup {"fsync"} /\ UNCHANGED tmpSynced
    /\ Goto(w, "rename")
    /\ UNCHANGED <<main, tmp, mainSynced, afterLoss, mutex, payload, base, bounds>>

Rename(w) ==
    /\ wpc[w] = "rename"
    /\ \/ /\ main' = tmp
          /\ mainSynced' = tmpSynced
          /\ afterLoss' = afterLoss \cup Prefixes(tmp, tmpSynced)
          /\ tmp' = NoFile
          /\ tmpSynced' = 0
          /\ Goto(w, "syncDir")
       \/ /\ Fails("rename")
          /\ Goto(w, "removeTmp")
          /\ UNCHANGED <<main, mainSynced, afterLoss, tmp, tmpSynced>>
    /\ UNCHANGED <<mutex, payload, base, history>>

\* Opening or syncing the directory may fail; Write still succeeds.
SyncDir(w) ==
    /\ wpc[w] = "syncDir"
    /\ \/ afterLoss' = Prefixes(main, mainSynced)
       \/ Fails("fsyncDir") /\ UNCHANGED afterLoss
    /\ Return(w)
    /\ UNCHANGED <<main, tmp, tmpSynced, mainSynced, history>>

-----------------------------------------------------------------------------
(* The process or the machine stops                                        *)

WritersGone ==
    /\ mutex' = NoWriter
    /\ wpc' = [w \in Writers |-> "idle"]
    /\ payload' = [w \in Writers |-> AnyPayload]
    /\ base' = [w \in Writers |-> NoFile]

ProcessDies ==
    /\ stops < MaxStops
    /\ stops' = stops + 1
    /\ WritersGone
    /\ UNCHANGED <<files, ignored, writes>>

PowerLoss ==
    /\ stops < MaxStops
    /\ stops' = stops + 1
    /\ main' \in afterLoss
    /\ afterLoss' = {main'}
    /\ mainSynced' = IF main' = NoFile THEN 0 ELSE main'.size
    /\ \/ tmp' = NoFile /\ tmpSynced' = 0
       \/ tmp # NoFile /\ tmp' \in Prefixes(tmp, tmpSynced) /\ tmpSynced' = tmp'.size
    /\ WritersGone
    /\ UNCHANGED <<ignored, writes>>

-----------------------------------------------------------------------------

Write(w) ==
    \/ Lock(w) \/ ReadExisting(w) \/ OpenTmp(w) \/ WriteTmp(w) \/ RemoveTmp(w)
    \/ SyncTmp(w) \/ Rename(w) \/ SyncDir(w)

Next ==
    \/ \E w \in Writers : CallWrite(w) \/ Write(w)
    \/ ProcessDies
    \/ PowerLoss

Spec == Init /\ [][Next]_vars

FairSpec == Spec /\ \A w \in Writers : WF_vars(Write(w))

-----------------------------------------------------------------------------
(* Properties                                                              *)

\* Whoever opens the AS file finds it missing or whole, now and after the
\* machine has lost power: no reader ever parses half a payload.  It takes an
\* fsync that failed, which Write only logs, to make it otherwise.
AlwaysWhole ==
    "fsync" \notin ignored => main \in WholeFiles /\ afterLoss \subseteq WholeFiles

\* The file a writer replaces is the one it has merged its payload with, if it
\* could read any: no other writer has put something there in between that the
\* merge lost.
MergeBaseIsCurrent ==
    [][\A w \in Writers :
        wpc[w] = "rename" /\ wpc'[w] = "syncDir" => base[w] \in {main, Unread}]_vars

\* A rename publishes the payload of the writer that does it, all of it.
RenamePublishesOwnPayload ==
    [][\A w \in Writers :
        wpc[w] = "rename" /\ wpc'[w] = "syncDir" => main' = Whole(payload[w])]_vars

\* A Write that fails leaves no temporary file for others to find, unless the
\* process stopped in it or the file could not be removed.
NoTmpLeftBehind ==
    /\ stops = 0 /\ "remove" \notin ignored
    /\ \A w \in Writers : wpc[w] \in {"idle", "lock"}
    => tmp = NoFile

\* What the properties rest on: the mutex is with the writer that is past it ...
MutexIsHeld == \A w \in Writers : wpc[w] \notin {"idle", "lock"} => mutex = w

\* ... which finds the files as its last step has left them ...
WritersAreOrderly ==
    \A w \in Writers :
        /\ wpc[w] \in {"openTmp", "writeTmp", "syncTmp", "rename"} =>
              base[w] \in {main, Unread}
        /\ wpc[w] = "writeTmp" =>
              tmp \in File /\ tmp.payload = payload[w] /\ tmp.size < Chunks
        /\ wpc[w] \in {"syncTmp", "rename"} => tmp = Whole(payload[w])
        /\ wpc[w] = "rename" /\ "fsync" \notin ignored => tmpSynced = Chunks
        /\ wpc[w] = "syncDir" => main \in File

\* ... and what is under the final name is durable, ...
MainIsDurable ==
    "fsync" \notin ignored =>
        /\ main \in WholeFiles /\ afterLoss \subseteq WholeFiles
        /\ main # NoFile => mainSynced = Chunks

\* ... and what is under the other is somebody's work.
TmpIsOwned ==
    /\ stops = 0 /\ "remove" \notin ignored
    /\ \A w \in Writers : wpc[w] \notin {"writeTmp", "removeTmp", "syncTmp", "rename"}
    => tmp = NoFile

AdapterInv == MutexIsHeld /\ WritersAreOrderly /\ MainIsDurable /\ TmpIsOwned

\* Every Write comes back, whether its system calls fail or not.
EveryWriteReturns == \A w \in Writers : wpc[w] # "idle" ~> wpc[w] = "idle"

-----------------------------------------------------------------------------
(* Write implements the atomic file that DeviceManager takes it for.       *)

AsFile == INSTANCE AtomicFile WITH
    Contents  <- {Whole(p) : p \in Payloads},
    Nothing   <- NoFile,
    content   <- main,
    survivors <- afterLoss,
    torn      <- "fsync" \in ignored

\* Step by step, whatever fails and whenever process or machine stop, what
\* writers do to the AS file looks like whole contents taking each other's
\* place at once.
ImplementsAtomicFile == AsFile!Spec

\* A writer that has published its payload and not yet synced the directory
\* finds what it published, and a power loss may bring it back.
PublishedInv ==
    \A w \in Writers :
        wpc[w] = "syncDir" =>
            \E p \in Payloads :
                main = Whole(p) /\ Prefixes(main, mainSynced) \subseteq afterLoss
=============================================================================
