---------------------- MODULE PersistenceAdapterProofs ----------------------
(***************************************************************************)
(* Theorems about PersistenceAdapter, for any number of writers, payloads  *)
(* of any length, any failures and any number of stops.                    *)
(***************************************************************************)
EXTENDS PersistenceAdapter, TLAPS

Inv == TypeOK /\ AdapterInv

-----------------------------------------------------------------------------
(* Files                                                                   *)

\* A whole payload is a file with all its chunks.
LEMMA WholeIsFile ==
  ASSUME NEW p \in Payloads
  PROVE  Whole(p) \in File /\ Whole(p).payload = p /\ Whole(p).size = Chunks
BY AdapterAssumption DEF Whole, File

\* ... so the whole files are files.
LEMMA WholeFilesAreFiles == WholeFiles \subseteq File \cup {NoFile}
BY WholeIsFile DEF WholeFiles

\* What a power loss leaves of a file is a file.
LEMMA PrefixesAreFiles ==
  ASSUME NEW f \in File, NEW s \in 0 .. Chunks
  PROVE  Prefixes(f, s) \subseteq File
BY AdapterAssumption DEF Prefixes, File

\* Of a file that is synced to its end it leaves the whole.
LEMMA SyncedIsKept ==
  ASSUME NEW f \in File, f.size = Chunks
  PROVE  Prefixes(f, Chunks) = {f}
<1>1. Chunks .. f.size = {Chunks}
  BY AdapterAssumption
<1>2. [f EXCEPT !.size = Chunks] = f
  BY DEF File
<1> QED
  BY <1>1, <1>2 DEF Prefixes

\* Nothing need be lost of a whole payload, however much of it is synced.
LEMMA WholeIsOwnPrefix ==
  ASSUME NEW p \in Payloads, NEW s \in 0 .. Chunks
  PROVE  Whole(p) \in Prefixes(Whole(p), s)
<1>1. Chunks \in s .. Whole(p).size
  BY AdapterAssumption, WholeIsFile
<1>2. Whole(p) = [Whole(p) EXCEPT !.size = Chunks]
  BY DEF Whole
<1> QED
  BY <1>1, <1>2 DEF Prefixes

-----------------------------------------------------------------------------
(* One step                                                                *)

\* A writer whose step this is, and that holds the mutex, is the only one past
\* it.
LEMMA OthersWait ==
  ASSUME TypeOK, MutexIsHeld, NEW w \in Writers, wpc[w] \notin {"idle", "lock"},
         NEW v \in Writers, v # w
  PROVE  wpc[v] \in {"idle", "lock"}
BY DEF MutexIsHeld

\* The files are whole and nobody writes when the process starts.
LEMMA InitInv == Init => Inv
<1> SUFFICES ASSUME Init PROVE Inv
  OBVIOUS
<1>0. \A w \in Writers : wpc[w] = "idle"
  BY DEF Init
<1>1. TypeOK
  <2>1. AnyPayload \in Payloads
    BY AdapterAssumption DEF AnyPayload
  <2> QED
    BY <2>1, AdapterAssumption, WholeFilesAreFiles DEF Init, TypeOK, Steps
<1> QED
  BY <1>0, <1>1 DEF Init, Inv, AdapterInv, MutexIsHeld, WritersAreOrderly, MainIsDurable, TmpIsOwned

\* The parts of the invariant after a step of a writer that keeps the mutex or
\* gives it back: the other writers are still at its door.
LEMMA HolderStep ==
  ASSUME Inv, NEW w \in Writers, wpc[w] \notin {"idle", "lock"},
         NEW step \in Steps, wpc' = [wpc EXCEPT ![w] = step],
         step = "idle" \/ mutex' = mutex
  PROVE  /\ wpc'[w] = step
         /\ \A v \in Writers \ {w} : wpc'[v] \in {"idle", "lock"}
         /\ MutexIsHeld'
<1>1. wpc'[w] = step /\ \A v \in Writers \ {w} : wpc'[v] = wpc[v]
  BY DEF Inv, TypeOK
<1>2. \A v \in Writers \ {w} : wpc'[v] \in {"idle", "lock"}
  BY <1>1, OthersWait DEF Inv, AdapterInv
<1>3. mutex = w
  BY DEF Inv, AdapterInv, MutexIsHeld
<1>4. MutexIsHeld'
  BY <1>1, <1>2, <1>3 DEF MutexIsHeld
<1> QED
  BY <1>1, <1>2, <1>4

\* After Return nobody has files in hand.
LEMMA ReturnStep ==
  ASSUME Inv, NEW w \in Writers, wpc[w] \notin {"idle", "lock"}, Return(w)
  PROVE  /\ \A v \in Writers : wpc'[v] \in {"idle", "lock"}
         /\ MutexIsHeld' /\ WritersAreOrderly'
         /\ wpc' \in [Writers -> Steps] /\ mutex' \in Writers \cup {NoWriter}
         /\ payload' \in [Writers -> Payloads] /\ base' \in [Writers -> File \cup {NoFile, Unread}]
<1>1. AnyPayload \in Payloads
  BY AdapterAssumption DEF AnyPayload
<1>2. "idle" \in Steps /\ wpc' = [wpc EXCEPT ![w] = "idle"]
  BY DEF Return, Goto, Steps
<1>3. (\A v \in Writers : wpc'[v] \in {"idle", "lock"}) /\ MutexIsHeld'
  BY <1>2, HolderStep
<1>4. WritersAreOrderly'
  BY <1>3 DEF WritersAreOrderly
<1>5. /\ wpc' \in [Writers -> Steps] /\ mutex' \in Writers \cup {NoWriter}
      /\ payload' \in [Writers -> Payloads] /\ base' \in [Writers -> File \cup {NoFile, Unread}]
  BY <1>1, <1>2 DEF Return, Inv, TypeOK
<1> QED
  BY <1>3, <1>4, <1>5

\* Calling Write touches no file.
LEMMA CallWriteStep == ASSUME Inv, NEW w \in Writers, CallWrite(w) PROVE Inv'
<1> USE DEF Inv, AdapterInv, files, history, bounds
<1>1. wpc' = [wpc EXCEPT ![w] = "lock"] /\ wpc[w] = "idle" /\ UNCHANGED <<files, mutex, payload, base, ignored, stops>>
  BY DEF CallWrite, Goto
<1>2. TypeOK'
  BY <1>1 DEF CallWrite, TypeOK, Steps
<1>3. \A v \in Writers : wpc'[v] = wpc[v] \/ (wpc[v] = "idle" /\ wpc'[v] = "lock")
  BY <1>1 DEF TypeOK
<1>4. MutexIsHeld' /\ WritersAreOrderly' /\ MainIsDurable'
  BY <1>1, <1>3 DEF MutexIsHeld, WritersAreOrderly, MainIsDurable
<1>5. TmpIsOwned'
  BY <1>1, <1>3 DEF TmpIsOwned
<1> QED
  BY <1>2, <1>4, <1>5

\* The mutex is taken only when it is free.
LEMMA LockStep == ASSUME Inv, NEW w \in Writers, Lock(w) PROVE Inv'
<1> USE DEF Inv, AdapterInv, files, history, bounds
<1>1. /\ wpc' = [wpc EXCEPT ![w] = "readExisting"] /\ wpc[w] = "lock"
      /\ mutex = NoWriter /\ mutex' = w
      /\ UNCHANGED <<files, payload, base, history>>
  BY DEF Lock, Goto
<1>2. TypeOK'
  BY <1>1 DEF TypeOK, Steps
<1>3. \A v \in Writers : wpc[v] \in {"idle", "lock"}
  BY <1>1, AdapterAssumption DEF MutexIsHeld
<1>4. wpc'[w] = "readExisting" /\ \A v \in Writers \ {w} : wpc'[v] \in {"idle", "lock"}
  BY <1>1, <1>3 DEF TypeOK
<1>5. MutexIsHeld' /\ WritersAreOrderly' /\ MainIsDurable'
  BY <1>1, <1>4 DEF MutexIsHeld, WritersAreOrderly, MainIsDurable
<1>6. TmpIsOwned'
  BY <1>1, <1>3 DEF TmpIsOwned
<1> QED
  BY <1>2, <1>5, <1>6

\* The merge is with the file as it is, or with none; who reads it holds the
\* mutex.
LEMMA ReadExistingStep == ASSUME Inv, NEW w \in Writers, ReadExisting(w) PROVE Inv'
<1> USE DEF Inv, AdapterInv, files, history, bounds
<1>1. /\ wpc' = [wpc EXCEPT ![w] = "openTmp"] /\ wpc[w] = "readExisting"
      /\ base' = [base EXCEPT ![w] = main] \/ base' = [base EXCEPT ![w] = Unread]
      /\ UNCHANGED <<files, mutex, history>>
  BY DEF ReadExisting, Goto
<1>2. PICK p \in Payloads : payload' = [payload EXCEPT ![w] = p]
  BY DEF ReadExisting
<1>3. TypeOK'
  BY <1>1, <1>2 DEF TypeOK, Steps
<1>4. wpc'[w] = "openTmp" /\ (\A v \in Writers \ {w} : wpc'[v] \in {"idle", "lock"}) /\ MutexIsHeld'
  BY <1>1, HolderStep DEF Steps
<1>5. base'[w] \in {main', Unread}
  BY <1>1 DEF TypeOK
<1>6. WritersAreOrderly' /\ MainIsDurable'
  BY <1>1, <1>4, <1>5 DEF WritersAreOrderly, MainIsDurable
<1>7. TmpIsOwned'
  <2>1. \A v \in Writers : wpc[v] \notin {"writeTmp", "removeTmp", "syncTmp", "rename"}
    BY <1>1, OthersWait
  <2> QED
    BY <1>1, <2>1 DEF TmpIsOwned
<1> QED
  BY <1>3, <1>4, <1>6, <1>7

\* The temporary file starts empty, and belongs to who opened it.
LEMMA OpenTmpStep == ASSUME Inv, NEW w \in Writers, OpenTmp(w) PROVE Inv'
<1> USE DEF Inv, AdapterInv, files, history, bounds
<1>1. wpc[w] = "openTmp" /\ UNCHANGED <<main, mainSynced, afterLoss, history>>
  BY DEF OpenTmp
<1>2. MainIsDurable'
  BY <1>1 DEF MainIsDurable
<1>3. CASE Return(w) /\ UNCHANGED <<tmp, tmpSynced>>
  <2>1. TypeOK' /\ MutexIsHeld' /\ WritersAreOrderly'
    BY <1>1, <1>3, ReturnStep DEF TypeOK
  <2>2. \A v \in Writers : wpc[v] \notin {"writeTmp", "removeTmp", "syncTmp", "rename"}
    BY <1>1, OthersWait
  <2>3. TmpIsOwned'
    BY <1>1, <1>3, <2>2 DEF TmpIsOwned
  <2> QED
    BY <1>2, <2>1, <2>3
<1>4. CASE /\ tmp' = [payload |-> payload[w], size |-> 0]
           /\ tmpSynced' = 0
           /\ wpc' = [wpc EXCEPT ![w] = "writeTmp"]
           /\ UNCHANGED <<mutex, payload, base>>
  <2>1. tmp' \in File /\ tmp'.payload = payload[w] /\ tmp'.size < Chunks
    BY <1>4, AdapterAssumption DEF TypeOK, File
  <2>2. TypeOK'
    BY <1>1, <1>4, <2>1, AdapterAssumption DEF TypeOK, Steps
  <2>3. wpc'[w] = "writeTmp" /\ (\A v \in Writers \ {w} : wpc'[v] \in {"idle", "lock"}) /\ MutexIsHeld'
    BY <1>1, <1>4, HolderStep DEF Steps
  <2>4. base[w] \in {main, Unread}
    BY <1>1 DEF WritersAreOrderly
  <2>5. WritersAreOrderly'
    BY <1>1, <1>4, <2>1, <2>3, <2>4 DEF WritersAreOrderly
  <2>6. TmpIsOwned'
    BY <2>3 DEF TmpIsOwned
  <2> QED
    BY <1>2, <2>2, <2>3, <2>5, <2>6
<1> QED
  BY <1>3, <1>4 DEF OpenTmp, Goto

\* A chunk goes to the temporary file, or a failure leaves it to be removed.
LEMMA WriteTmpStep == ASSUME Inv, NEW w \in Writers, WriteTmp(w) PROVE Inv'
<1> USE DEF Inv, AdapterInv, files, history, bounds
<1>1. /\ wpc[w] = "writeTmp"
      /\ UNCHANGED <<main, tmpSynced, mainSynced, afterLoss, mutex, payload, base, history>>
  BY DEF WriteTmp
<1>2. MainIsDurable'
  BY <1>1 DEF MainIsDurable
<1>3. tmp \in File /\ tmp.payload = payload[w] /\ tmp.size < Chunks /\ base[w] \in {main, Unread}
  BY <1>1 DEF WritersAreOrderly
<1>4. PICK step \in {"writeTmp", "syncTmp", "removeTmp"} : wpc' = [wpc EXCEPT ![w] = step]
  BY <1>1 DEF WriteTmp, Goto, TypeOK
<1>5. wpc'[w] = step /\ (\A v \in Writers \ {w} : wpc'[v] \in {"idle", "lock"}) /\ MutexIsHeld'
  BY <1>1, <1>4, HolderStep DEF Steps
<1>6. TmpIsOwned'
  BY <1>5 DEF TmpIsOwned
<1>7. CASE tmp' = [tmp EXCEPT !.size = @ + 1] /\ step \in {"writeTmp", "syncTmp"}
  <2>1. tmp' \in File /\ tmp'.payload = payload[w] /\ tmp'.size = tmp.size + 1
    BY <1>3, <1>7, AdapterAssumption DEF File
  <2>2. step = "syncTmp" => tmp'.size = Chunks
    BY <1>1, <1>4, <1>5, <1>7 DEF WriteTmp, Goto
  <2>3. step = "writeTmp" => tmp'.size < Chunks
    BY <1>1, <1>3, <1>4, <1>5, <1>7, <2>1, AdapterAssumption DEF WriteTmp, Goto, TypeOK, File
  <2>4. step = "syncTmp" => tmp' = Whole(payload[w])
    BY <2>1, <2>2 DEF Whole, File
  <2>5. TypeOK'
    BY <1>1, <1>4, <2>1 DEF TypeOK, Steps
  <2>6. WritersAreOrderly'
    BY <1>1, <1>3, <1>5, <1>7, <2>1, <2>3, <2>4 DEF WritersAreOrderly
  <2> QED
    BY <1>2, <1>5, <1>6, <2>5, <2>6
<1>8. CASE step = "removeTmp" /\ UNCHANGED tmp
  <2>1. TypeOK'
    BY <1>1, <1>4, <1>8 DEF TypeOK, Steps
  <2>2. WritersAreOrderly'
    BY <1>1, <1>5, <1>8 DEF WritersAreOrderly
  <2> QED
    BY <1>2, <1>5, <1>6, <2>1, <2>2
<1> QED
  BY <1>1, <1>4, <1>5, <1>7, <1>8 DEF WriteTmp, Goto, TypeOK

\* The temporary file is gone, or the history says that it could not be removed.
LEMMA RemoveTmpStep == ASSUME Inv, NEW w \in Writers, RemoveTmp(w) PROVE Inv'
<1> USE DEF Inv, AdapterInv, files, history, bounds
<1>1. /\ wpc[w] = "removeTmp" /\ Return(w)
      /\ UNCHANGED <<main, tmpSynced, mainSynced, afterLoss, bounds>>
  BY DEF RemoveTmp
<1>2. \/ tmp' = NoFile /\ UNCHANGED ignored
      \/ ignored' = ignored \cup {"remove"} /\ UNCHANGED tmp
  BY DEF RemoveTmp
<1>3. TypeOK' /\ MutexIsHeld' /\ WritersAreOrderly'
  BY <1>1, <1>2, ReturnStep DEF TypeOK
<1>4. MainIsDurable'
  BY <1>1, <1>2 DEF MainIsDurable
<1>5. TmpIsOwned'
  BY <1>2 DEF TmpIsOwned
<1> QED
  BY <1>3, <1>4, <1>5

\* The temporary file is durable, or the history says that its fsync failed.
LEMMA SyncTmpStep == ASSUME Inv, NEW w \in Writers, SyncTmp(w) PROVE Inv'
<1> USE DEF Inv, AdapterInv, files, history, bounds
<1>1. /\ wpc[w] = "syncTmp" /\ wpc' = [wpc EXCEPT ![w] = "rename"]
      /\ UNCHANGED <<main, tmp, mainSynced, afterLoss, mutex, payload, base, bounds>>
  BY DEF SyncTmp, Goto
<1>2. \/ tmpSynced' = tmp.size /\ UNCHANGED ignored
      \/ ignored' = ignored \cup {"fsync"} /\ UNCHANGED tmpSynced
  BY DEF SyncTmp
<1>3. tmp = Whole(payload[w]) /\ base[w] \in {main, Unread}
  BY <1>1 DEF WritersAreOrderly
<1>4. tmp.size = Chunks
  BY <1>3, WholeIsFile DEF TypeOK
<1>5. TypeOK'
  <2>1. tmpSynced' \in 0 .. Chunks
    BY <1>2, <1>4, AdapterAssumption DEF TypeOK
  <2>2. ignored' \in SUBSET {"fsync", "remove"}
    BY <1>2 DEF TypeOK
  <2> QED
    BY <1>1, <2>1, <2>2 DEF TypeOK, Steps
<1>6. wpc'[w] = "rename" /\ (\A v \in Writers \ {w} : wpc'[v] \in {"idle", "lock"}) /\ MutexIsHeld'
  BY <1>1, HolderStep DEF Steps
<1>7. WritersAreOrderly'
  BY <1>1, <1>2, <1>3, <1>4, <1>6 DEF WritersAreOrderly
<1>8. MainIsDurable'
  BY <1>1, <1>2 DEF MainIsDurable
<1>9. TmpIsOwned'
  BY <1>6 DEF TmpIsOwned
<1> QED
  BY <1>5, <1>6, <1>7, <1>8, <1>9

\* A whole and durable file takes the final name, before and after a power loss.
LEMMA RenameStep == ASSUME Inv, NEW w \in Writers, Rename(w) PROVE Inv'
<1> USE DEF Inv, AdapterInv, files, history, bounds
<1>1. wpc[w] = "rename" /\ UNCHANGED <<mutex, payload, base, history>>
  BY DEF Rename
<1>2. tmp = Whole(payload[w]) /\ ("fsync" \notin ignored => tmpSynced = Chunks)
  BY <1>1 DEF WritersAreOrderly
<1>3. tmp \in File /\ tmp.size = Chunks /\ tmp \in WholeFiles
  BY <1>2, WholeIsFile DEF TypeOK, WholeFiles
<1>4. CASE /\ main' = tmp /\ mainSynced' = tmpSynced
           /\ afterLoss' = afterLoss \cup Prefixes(tmp, tmpSynced)
           /\ tmp' = NoFile /\ tmpSynced' = 0
           /\ wpc' = [wpc EXCEPT ![w] = "syncDir"]
  <2>1. Prefixes(tmp, tmpSynced) \subseteq File
    BY <1>3, PrefixesAreFiles DEF TypeOK
  <2>2. TypeOK'
    BY <1>1, <1>3, <1>4, <2>1, AdapterAssumption DEF TypeOK, Steps
  <2>3. wpc'[w] = "syncDir" /\ (\A v \in Writers \ {w} : wpc'[v] \in {"idle", "lock"}) /\ MutexIsHeld'
    BY <1>1, <1>4, HolderStep DEF Steps
  <2>4. WritersAreOrderly'
    BY <1>3, <1>4, <2>3 DEF WritersAreOrderly
  <2>5. MainIsDurable'
    <3>1. "fsync" \notin ignored => Prefixes(tmp, tmpSynced) = {tmp}
      BY <1>2, <1>3, SyncedIsKept
    <3> QED
      BY <1>1, <1>2, <1>3, <1>4, <3>1 DEF MainIsDurable
  <2>6. TmpIsOwned'
    BY <1>4 DEF TmpIsOwned
  <2> QED
    BY <2>2, <2>3, <2>4, <2>5, <2>6
<1>5. CASE /\ wpc' = [wpc EXCEPT ![w] = "removeTmp"]
           /\ UNCHANGED <<main, mainSynced, afterLoss, tmp, tmpSynced>>
  <2>1. TypeOK'
    BY <1>1, <1>5 DEF TypeOK, Steps
  <2>2. wpc'[w] = "removeTmp" /\ (\A v \in Writers \ {w} : wpc'[v] \in {"idle", "lock"}) /\ MutexIsHeld'
    BY <1>1, <1>5, HolderStep DEF Steps
  <2>3. WritersAreOrderly' /\ MainIsDurable' /\ TmpIsOwned'
    BY <1>1, <1>5, <2>2 DEF WritersAreOrderly, MainIsDurable, TmpIsOwned
  <2> QED
    BY <2>1, <2>2, <2>3
<1> QED
  BY <1>4, <1>5 DEF Rename, Goto

\* Syncing the directory narrows what a power loss may leave.
LEMMA SyncDirStep == ASSUME Inv, NEW w \in Writers, SyncDir(w) PROVE Inv'
<1> USE DEF Inv, AdapterInv, files, history, bounds
<1>1. /\ wpc[w] = "syncDir" /\ Return(w)
      /\ UNCHANGED <<main, tmp, tmpSynced, mainSynced, history>>
  BY DEF SyncDir
<1>2. main \in File
  BY <1>1 DEF WritersAreOrderly
<1>3. afterLoss' = Prefixes(main, mainSynced) \/ afterLoss' = afterLoss
  BY DEF SyncDir
<1>4. TypeOK'
  <2>1. Prefixes(main, mainSynced) \subseteq File
    BY <1>2, PrefixesAreFiles DEF TypeOK
  <2> QED
    BY <1>1, <1>3, <2>1, ReturnStep DEF TypeOK
<1>5. MutexIsHeld' /\ WritersAreOrderly'
  BY <1>1, ReturnStep
<1>6. MainIsDurable'
  <2>1. CASE "fsync" \notin ignored
    <3>1. main # NoFile
      BY <1>2, NoFileAssumption
    <3>2. PICK p \in Payloads : main = Whole(p)
      BY <2>1, <3>1 DEF MainIsDurable, WholeFiles
    <3>3. Prefixes(main, mainSynced) = {main}
      BY <1>2, <2>1, <3>1, <3>2, WholeIsFile, SyncedIsKept DEF MainIsDurable
    <3> QED
      BY <1>1, <1>3, <2>1, <3>3 DEF MainIsDurable
  <2>2. CASE "fsync" \in ignored
    BY <1>1, <2>2 DEF MainIsDurable
  <2> QED
    BY <2>1, <2>2
<1>7. TmpIsOwned'
  <2>1. \A v \in Writers : wpc[v] \notin {"writeTmp", "removeTmp", "syncTmp", "rename"}
    BY <1>1, OthersWait
  <2> QED
    BY <1>1, <2>1 DEF TmpIsOwned
<1> QED
  BY <1>4, <1>5, <1>6, <1>7

\* A death of the process or a power loss, at any step of any writer.
LEMMA StopStep == ASSUME Inv, ProcessDies \/ PowerLoss PROVE Inv'
<1> USE DEF Inv, AdapterInv, files, history, bounds
<1>0. stops' = stops + 1 /\ stops \in Nat /\ WritersGone /\ UNCHANGED <<ignored, writes>>
  BY DEF ProcessDies, PowerLoss, TypeOK
<1>1. /\ \A w \in Writers : wpc'[w] = "idle"
      /\ wpc' \in [Writers -> Steps] /\ mutex' \in Writers \cup {NoWriter}
      /\ payload' \in [Writers -> Payloads] /\ base' \in [Writers -> File \cup {NoFile, Unread}]
  BY <1>0, AdapterAssumption DEF WritersGone, Steps, AnyPayload
<1>2. MutexIsHeld' /\ WritersAreOrderly' /\ TmpIsOwned'
  BY <1>0, <1>1 DEF MutexIsHeld, WritersAreOrderly, TmpIsOwned
<1>3. CASE ProcessDies
  <2>1. TypeOK' /\ MainIsDurable'
    BY <1>0, <1>1, <1>3 DEF ProcessDies, TypeOK, MainIsDurable
  <2> QED
    BY <1>2, <2>1
<1>4. CASE PowerLoss
  <2>1. /\ main' \in afterLoss /\ afterLoss' = {main'}
        /\ mainSynced' = IF main' = NoFile THEN 0 ELSE main'.size
    BY <1>4 DEF PowerLoss
  <2>2. main' \in File \cup {NoFile} /\ mainSynced' \in 0 .. Chunks
    BY <2>1, AdapterAssumption DEF TypeOK, File
  <2>3. tmp' \in File \cup {NoFile} /\ tmpSynced' \in 0 .. Chunks
    <3>1. CASE tmp' = NoFile /\ tmpSynced' = 0
      BY <3>1, AdapterAssumption
    <3>2. CASE tmp # NoFile /\ tmp' \in Prefixes(tmp, tmpSynced) /\ tmpSynced' = tmp'.size
      <4>1. tmp' \in File
        BY <3>2, PrefixesAreFiles DEF TypeOK
      <4> QED
        BY <3>2, <4>1 DEF File
    <3> QED
      BY <1>4, <3>1, <3>2 DEF PowerLoss
  <2>4. TypeOK'
    BY <1>0, <1>1, <2>1, <2>2, <2>3 DEF TypeOK
  <2>5. MainIsDurable'
    BY <1>0, <2>1, WholeIsFile DEF MainIsDurable, WholeFiles
  <2> QED
    BY <1>2, <2>4, <2>5
<1> QED
  BY <1>3, <1>4

\* The invariant holds whatever fails and whenever the machine stops.
THEOREM AdapterInvariant == Spec => []Inv
<1>1. Inv /\ [Next]_vars => Inv'
  <2> SUFFICES ASSUME Inv, [Next]_vars PROVE Inv'
    OBVIOUS
  <2>1. ASSUME NEW w \in Writers, CallWrite(w) \/ Write(w)
        PROVE  Inv'
    BY <2>1, CallWriteStep, LockStep, ReadExistingStep, OpenTmpStep, WriteTmpStep, RemoveTmpStep,
       SyncTmpStep, RenameStep, SyncDirStep DEF Write
  <2>2. CASE UNCHANGED vars
    BY <2>2 DEF vars, files, writers, history, bounds, Inv, TypeOK, AdapterInv, MutexIsHeld,
                WritersAreOrderly, MainIsDurable, TmpIsOwned
  <2> QED
    BY <2>1, <2>2, StopStep DEF Next
<1> QED
  BY <1>1, InitInv, PTL DEF Spec

-----------------------------------------------------------------------------
(* What follows                                                            *)

\* Every variable keeps its type; no writer ever counts past its payload.
THEOREM TypeCorrect == Spec => []TypeOK
<1>1. Inv => TypeOK
  BY DEF Inv
<1> QED
  BY <1>1, AdapterInvariant, PTL

\* The AS file is missing or whole, before and after any power loss, unless an
\* fsync failed.
THEOREM FileIsWhole == Spec => []AlwaysWhole
<1>1. Inv => AlwaysWhole
  BY DEF Inv, AdapterInv, MainIsDurable, AlwaysWhole
<1> QED
  BY <1>1, AdapterInvariant, PTL

\* A Write that has returned leaves no temporary file, unless the process was
\* stopped in one or the file could not be removed.
THEOREM TmpIsRemoved == Spec => []NoTmpLeftBehind
<1>1. Inv => NoTmpLeftBehind
  BY DEF Inv, AdapterInv, TmpIsOwned, NoTmpLeftBehind
<1> QED
  BY <1>1, AdapterInvariant, PTL

\* What a rename step is: which writer's, and what it finds.
LEMMA OnlyRenamePublishes ==
  ASSUME Inv, Next, NEW w \in Writers, wpc[w] = "rename", wpc'[w] = "syncDir"
  PROVE  base[w] \in {main, Unread} /\ main' = Whole(payload[w])
<1>1. base[w] \in {main, Unread} /\ tmp = Whole(payload[w]) /\ wpc \in [Writers -> Steps]
  BY DEF Inv, AdapterInv, WritersAreOrderly, TypeOK
<1>2. ASSUME NEW v \in Writers, CallWrite(v) \/ Write(v)
      PROVE  main' = tmp
  <2>1. v = w
    BY <1>1, <1>2 DEF CallWrite, Write, Lock, ReadExisting, OpenTmp, WriteTmp, RemoveTmp, SyncTmp,
                      Rename, SyncDir, Return, Goto
  <2> QED
    BY <1>1, <1>2, <2>1 DEF CallWrite, Write, Lock, ReadExisting, OpenTmp, WriteTmp, RemoveTmp,
                      SyncTmp, Rename, SyncDir, Goto
<1>3. ~ProcessDies /\ ~PowerLoss
  BY DEF ProcessDies, PowerLoss, WritersGone
<1> QED
  BY <1>1, <1>2, <1>3 DEF Next

\* A writer replaces the file it has merged with, unless it could read none.
THEOREM NothingIsOverwritten == Spec => MergeBaseIsCurrent
<1>1. Inv /\ [Next]_vars =>
        [\A w \in Writers : wpc[w] = "rename" /\ wpc'[w] = "syncDir" => base[w] \in {main, Unread}]_vars
  BY OnlyRenamePublishes
<1> QED
  BY <1>1, AdapterInvariant, PTL DEF Spec, MergeBaseIsCurrent

\* What a writer publishes is its own payload, all of it.
THEOREM WritersPublishTheirOwn == Spec => RenamePublishesOwnPayload
<1>1. Inv /\ [Next]_vars =>
        [\A w \in Writers : wpc[w] = "rename" /\ wpc'[w] = "syncDir" => main' = Whole(payload[w])]_vars
  BY OnlyRenamePublishes
<1> QED
  BY <1>1, AdapterInvariant, PTL DEF Spec, RenamePublishesOwnPayload

-----------------------------------------------------------------------------
(* The atomic file is implemented                                          *)

\* Only a rename makes a writer find its payload published, and until it has
\* synced the directory nobody else touches the AS file.
LEMMA PublishedInvariant == Spec => []PublishedInv
<1>1. Init => PublishedInv
  BY DEF Init, PublishedInv
<1>2. Inv /\ PublishedInv /\ [Next]_vars => PublishedInv'
  <2> SUFFICES ASSUME Inv, PublishedInv, [Next]_vars PROVE PublishedInv'
    OBVIOUS
  <2> USE DEF files, history, bounds
  <2>1. ASSUME NEW w \in Writers, CallWrite(w) \/ Write(w)
        PROVE  PublishedInv'
    <3>1. CASE Rename(w)
      <4>1. wpc[w] = "rename" /\ tmp = Whole(payload[w]) /\ payload[w] \in Payloads
        BY <3>1 DEF Rename, Inv, AdapterInv, WritersAreOrderly, TypeOK
      <4>2. \A v \in Writers \ {w} : wpc'[v] # "syncDir"
        BY <3>1, <4>1, OthersWait DEF Rename, Goto, Inv, AdapterInv, TypeOK
      <4>3. CASE wpc' = [wpc EXCEPT ![w] = "syncDir"]
        <5>1. /\ main' = tmp /\ mainSynced' = tmpSynced
              /\ afterLoss' = afterLoss \cup Prefixes(tmp, tmpSynced)
          BY <3>1, <4>3 DEF Rename, Goto, Inv, TypeOK
        <5> QED
          BY <4>1, <4>2, <5>1 DEF PublishedInv
      <4>4. CASE wpc' = [wpc EXCEPT ![w] = "removeTmp"]
        BY <4>2, <4>4 DEF PublishedInv, Inv, TypeOK
      <4> QED
        BY <3>1, <4>3, <4>4 DEF Rename, Goto
    <3>2. CASE ~Rename(w)
      <4>1. \A v \in Writers : wpc'[v] = "syncDir" => wpc[v] = "syncDir" /\ v # w
        BY <2>1, <3>2
        DEF CallWrite, Write, Lock, ReadExisting, OpenTmp, WriteTmp, RemoveTmp, SyncTmp, SyncDir,
            Return, Goto, Inv, TypeOK
      <4>2. (\E v \in Writers \ {w} : wpc[v] = "syncDir") => wpc[w] \in {"idle", "lock"}
        BY DEF Inv, AdapterInv, MutexIsHeld
      <4>3. wpc[w] \in {"idle", "lock"} => UNCHANGED files
        BY <2>1, <3>2
        DEF CallWrite, Write, Lock, ReadExisting, OpenTmp, WriteTmp, RemoveTmp, SyncTmp, SyncDir
      <4> QED
        BY <4>1, <4>2, <4>3 DEF PublishedInv
    <3> QED
      BY <3>1, <3>2
  <2>2. CASE ProcessDies \/ PowerLoss
    BY <2>2 DEF ProcessDies, PowerLoss, WritersGone, PublishedInv
  <2>3. CASE UNCHANGED vars
    BY <2>3 DEF vars, writers, PublishedInv
  <2> QED
    BY <2>1, <2>2, <2>3 DEF Next
<1> QED
  BY <1>1, <1>2, AdapterInvariant, PTL DEF Spec

\* The rename is the one step that replaces the content.
LEMMA RenameRefines ==
  ASSUME Inv, NEW w \in Writers, Rename(w), ~UNCHANGED AsFile!vars
  PROVE  AsFile!Replace
<1>1. /\ tmp = Whole(payload[w]) /\ payload[w] \in Payloads /\ tmpSynced \in 0 .. Chunks
      /\ "fsync" \notin ignored => tmpSynced = Chunks
  BY DEF Rename, Inv, AdapterInv, WritersAreOrderly, TypeOK
<1>2. /\ main' = tmp /\ afterLoss' = afterLoss \cup Prefixes(tmp, tmpSynced)
      /\ ignored' = ignored
  BY DEF Rename, AsFile!vars, history
<1>3. tmp \in Prefixes(tmp, tmpSynced)
  BY <1>1, WholeIsOwnPrefix
<1>4. "fsync" \notin ignored => Prefixes(tmp, tmpSynced) = {tmp}
  BY <1>1, WholeIsFile, SyncedIsKept
<1> QED
  BY <1>1, <1>2, <1>3, <1>4 DEF AsFile!Replace

\* Syncing the directory settles what was published.
LEMMA SyncDirRefines ==
  ASSUME Inv, PublishedInv, NEW w \in Writers, SyncDir(w), ~UNCHANGED AsFile!vars
  PROVE  AsFile!Settle
<1>1. PICK p \in Payloads : main = Whole(p) /\ Prefixes(main, mainSynced) \subseteq afterLoss
  BY DEF SyncDir, PublishedInv
<1>2. main' = main /\ afterLoss' = Prefixes(main, mainSynced) /\ ignored' = ignored
  BY DEF SyncDir, AsFile!vars, history
<1>3. main \in Prefixes(main, mainSynced)
  BY <1>1, WholeIsOwnPrefix DEF Inv, TypeOK
<1>4. "fsync" \notin ignored => Prefixes(main, mainSynced) = {main}
  BY <1>1, WholeIsFile, SyncedIsKept, NoFileAssumption DEF Inv, AdapterInv, MainIsDurable
<1> QED
  BY <1>1, <1>2, <1>3, <1>4 DEF AsFile!Settle

\* The adapter implements the atomic file: a rename replaces, a synced directory
\* settles, an fsync that is ignored tears, a power loss brings back a survivor,
\* and nothing else is visible.
THEOREM RefinesAtomicFile == Spec => ImplementsAtomicFile
<1>1. Init => AsFile!Init
  BY DEF Init, WholeFiles, AsFile!Init
<1>2. Inv /\ PublishedInv /\ [Next]_vars => [AsFile!Next]_AsFile!vars
  <2> SUFFICES ASSUME Inv, PublishedInv, [Next]_vars, ~UNCHANGED AsFile!vars
               PROVE  AsFile!Next
    OBVIOUS
  <2> USE DEF files, history, bounds
  <2>1. ASSUME NEW w \in Writers, CallWrite(w) \/ Write(w)
        PROVE  AsFile!Next
    <3>1. CASE Rename(w)
      BY <3>1, RenameRefines DEF AsFile!Next
    <3>2. CASE SyncDir(w)
      BY <3>2, SyncDirRefines DEF AsFile!Next
    <3>3. CASE SyncTmp(w)
      <4>1. AsFile!Tear
        BY <3>3 DEF SyncTmp, AsFile!Tear, AsFile!vars
      <4> QED
        BY <4>1 DEF AsFile!Next
    <3>4. CASE CallWrite(w) \/ Lock(w) \/ ReadExisting(w) \/ OpenTmp(w) \/ WriteTmp(w) \/ RemoveTmp(w)
      BY <3>4 DEF CallWrite, Lock, ReadExisting, OpenTmp, WriteTmp, RemoveTmp, AsFile!vars
    <3> QED
      BY <2>1, <3>1, <3>2, <3>3, <3>4 DEF Write
  <2>2. CASE ProcessDies
    BY <2>2 DEF ProcessDies, AsFile!vars
  <2>3. CASE PowerLoss
    <3>1. AsFile!PowerLoss
      BY <2>3 DEF PowerLoss, AsFile!PowerLoss
    <3> QED
      BY <3>1 DEF AsFile!Next
  <2>4. CASE UNCHANGED vars
    BY <2>4 DEF vars, AsFile!vars
  <2> QED
    BY <2>1, <2>2, <2>3, <2>4 DEF Next
<1> QED
  BY <1>1, <1>2, AdapterInvariant, PublishedInvariant, PTL
  DEF Spec, ImplementsAtomicFile, AsFile!Spec
=============================================================================
