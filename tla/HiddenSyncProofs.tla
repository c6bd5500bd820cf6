-------------------------- MODULE HiddenSyncProofs --------------------------
(***************************************************************************)
(* The shared hide file, for any number of instances, names and inodes.    *)
(* What a save in progress owes is followed from step to step: an instance *)
(* that alone is saving has the temporary file to itself, and an instance  *)
(* that disagrees with the file has a notification, or a rename, to come.  *)
(***************************************************************************)
EXTENDS HiddenSync, FiniteSetTheorems, FunctionTheorems, TLAPS

HiddenSyncTypeOK ==
    /\ file \in Inode \cup {None} /\ tmp \in Inode \cup {None}
    /\ data \in [Inode -> (SUBSET Name) \cup {Torn}]
    /\ pc \in [Instance -> {"off", "idle", "open", "write", "close", "rename"}]
    /\ matchers \in [Instance -> SUBSET Name]
    /\ fd \in [Instance -> Inode \cup {None}]
    /\ watching \subseteq Instance /\ missed \subseteq Instance
    /\ pending \in [Instance -> Nat]
    /\ overlapped \in BOOLEAN

(* An instance has a file open exactly while it writes, and what goes by   *)
(* the temporary name does not go by the final one.                        *)
FilesOK ==
    /\ \A i \in Instance : fd[i] # None <=> pc[i] \in {"write", "close"}
    /\ tmp # None => tmp # file

SavesOK == HiddenSyncTypeOK /\ FilesOK

(* While saves have not overlapped, the only one under way has written to  *)
(* the temporary file what it is to rename.                                *)
AloneOK ==
    ~overlapped =>
        /\ \A i, j \in Instance : Saving(i) /\ Saving(j) => i = j
        /\ \A i \in Instance :
              /\ pc[i] \in {"write", "close"} => fd[i] = tmp
              /\ pc[i] = "write" => data[tmp] = {}
              /\ pc[i] \in {"close", "rename"} => tmp # None /\ data[tmp] = matchers[i]
        /\ file # None => data[file] # Torn

(* An instance agrees with the file, or will be told: it has been notified,*)
(* will rename the temporary file (or find that another has), or the file  *)
(* is being written, by someone who will close it.                         *)
Agreed(i) ==
    \/ pending[i] > 0
    \/ pc[i] = "open"
    \/ Saving(i) /\ tmp # None
    \/ file = None
    \/ data[file] = Torn \/ matchers[i] = data[file]
    \/ \E j \in Instance : fd[j] = file

AgreedOK == \A i \in Instance : pc[i] # "off" /\ i \notin missed => Agreed(i)

-----------------------------------------------------------------------------
LEMMA FreeInodeExists ==
    ASSUME SavesOK, NEW i \in Instance, fd[i] = None
    PROVE  FreeInode \in Inode /\ FreeInode # file /\ \A j \in Instance : fd[j] # FreeInode
<1> DEFINE open == {fd[j] : j \in Instance \ {i}}
           used == open \cup {file}
<1>1. /\ IsFiniteSet(Instance \ {i})
      /\ Cardinality(Instance \ {i}) = Cardinality(Instance) - 1
      /\ Cardinality(Instance) \in Nat
  <2>1. IsFiniteSet(Instance)
    BY HiddenSyncAssumption
  <2>2. Cardinality(Instance) \in Nat
    BY <2>1, FS_CardinalityType
  <2>3. IsFiniteSet(Instance \ {i}) /\ Cardinality(Instance \ {i}) = Cardinality(Instance) - 1
    BY <2>1, FS_RemoveElement
  <2> QED
    BY <2>2, <2>3
<1>2. IsFiniteSet(open) /\ Cardinality(open) <= Cardinality(Instance \ {i})
  <2> DEFINE f == [j \in Instance \ {i} |-> fd[j]]
  <2>1. f \in Surjection(Instance \ {i}, open)
    BY Fun_IsSurj
  <2> QED
    BY <1>1, <2>1, FS_Surjection
<1>3. IsFiniteSet(used) /\ Cardinality(used) <= Cardinality(open) + 1
  <2>1. Cardinality(open) \in Nat
    BY <1>2, FS_CardinalityType
  <2>2. /\ IsFiniteSet(used)
        /\ Cardinality(used) = IF file \in open THEN Cardinality(open) ELSE Cardinality(open) + 1
    BY <1>2, FS_AddElement
  <2> QED
    BY <2>1, <2>2
<1>4. \E n \in Inode : n \notin used
  <2> SUFFICES ASSUME Inode \subseteq used PROVE FALSE
    OBVIOUS
  <2>1. Cardinality(Inode) <= Cardinality(used)
    BY <1>3, FS_Subset
  <2>2. Cardinality(Inode) \in Nat /\ Cardinality(used) \in Nat /\ Cardinality(open) \in Nat
    BY <1>2, <1>3, FS_CardinalityType, HiddenSyncAssumption
  <2> QED
    BY <1>1, <1>2, <1>3, <2>1, <2>2, HiddenSyncAssumption
<1>5. PICK n \in Inode : n # file /\ \A j \in Instance : fd[j] # n
  <2>1. PICK n \in Inode : n \notin used
    BY <1>4
  <2>2. \A j \in Instance \ {i} : fd[j] # n
    BY <2>1
  <2>3. n # fd[i]
    BY HiddenSyncAssumption
  <2> QED
    BY <2>1, <2>2, <2>3
<1> QED
  BY <1>5 DEF FreeInode

(* Opening, which truncates, never touches what the file names.            *)
LEMMA Opened ==
    ASSUME SavesOK, NEW i \in Instance, Open(i)
    PROVE  /\ tmp' \in Inode /\ tmp' # file /\ tmp' = fd'[i]
           /\ tmp # None => tmp' = tmp
           /\ data' = [data EXCEPT ![tmp'] = {}]
<1>1. fd[i] = None
  BY DEF Open, Create, SavesOK, FilesOK
<1>2. CASE tmp # None
  BY <1>2 DEF Open, Create, SavesOK, FilesOK, HiddenSyncTypeOK
<1>3. CASE tmp = None
  BY <1>1, <1>3, FreeInodeExists DEF Open, Create, SavesOK, HiddenSyncTypeOK
<1> QED
  BY <1>2, <1>3

LEMMA LoadedType ==
    ASSUME SavesOK, NEW old \in SUBSET Name
    PROVE  Loaded(old) \in SUBSET Name
<1>1. CASE file = None
  BY <1>1 DEF Loaded
<1>2. CASE file # None
  <2>1. data[file] \in (SUBSET Name) \cup {Torn}
    BY <1>2 DEF SavesOK, HiddenSyncTypeOK
  <2> QED
    BY <1>2, <2>1 DEF Loaded
<1> QED
  BY <1>1, <1>2

LEMMA SavesInit == HiddenSyncInit => SavesOK /\ AloneOK /\ AgreedOK
<1> SUFFICES ASSUME HiddenSyncInit PROVE SavesOK /\ AloneOK /\ AgreedOK
  OBVIOUS
<1>1. HiddenSyncTypeOK
  BY DEF HiddenSyncInit, HiddenSyncTypeOK
<1>2. FilesOK
  BY HiddenSyncAssumption DEF HiddenSyncInit, FilesOK
<1>3. AloneOK
  BY DEF HiddenSyncInit, AloneOK, Saving
<1>4. AgreedOK
  BY DEF HiddenSyncInit, AgreedOK
<1> QED
  BY <1>1, <1>2, <1>3, <1>4 DEF SavesOK

(* The bytes a write leaves are a list or no list. *)
LEMMA Written ==
    ASSUME SavesOK, NEW i \in Instance, Write(i)
    PROVE  /\ fd[i] \in Inode
           /\ \E bytes \in (SUBSET Name) \cup {Torn} :
                 /\ data' = [data EXCEPT ![fd[i]] = bytes]
                 /\ data[fd[i]] = {} => bytes = matchers[i]
<1>1. fd[i] \in Inode /\ matchers[i] \in SUBSET Name
  BY DEF Write, SavesOK, FilesOK, HiddenSyncTypeOK
<1>2. PICK bytes \in CASE data[fd[i]] = Torn -> {Torn, matchers[i]}
                       [] data[fd[i]] # Torn /\ Cardinality(data[fd[i]]) > Cardinality(matchers[i])
                            -> {Torn}
                       [] OTHER -> {matchers[i]} :
                data' = [data EXCEPT ![fd[i]] = bytes]
  BY DEF Write
<1>3. bytes \in (SUBSET Name) \cup {Torn}
  <2>1. CASE data[fd[i]] = Torn
    BY <1>1, <1>2, <2>1
  <2>2. CASE data[fd[i]] # Torn /\ Cardinality(data[fd[i]]) > Cardinality(matchers[i])
    BY <1>1, <1>2, <2>2
  <2>3. CASE data[fd[i]] # Torn /\ ~(Cardinality(data[fd[i]]) > Cardinality(matchers[i]))
    BY <1>1, <1>2, <2>3
  <2> QED
    BY <2>1, <2>2, <2>3
<1>4. ASSUME data[fd[i]] = {} PROVE bytes = matchers[i]
  <2>1. Cardinality({}) = 0 /\ Cardinality(matchers[i]) \in Nat
    <3>1. IsFiniteSet(matchers[i])
      BY <1>1, FS_Subset, HiddenSyncAssumption
    <3> QED
      BY <3>1, FS_CardinalityType, FS_EmptySet
  <2>2. {} # Torn
    BY HiddenSyncAssumption
  <2> QED
    BY <1>2, <1>4, <2>1, <2>2
<1> QED
  BY <1>1, <1>2, <1>3, <1>4

LEMMA SavesNext == SavesOK /\ [HiddenSyncNext]_syncVars => SavesOK'
<1> SUFFICES ASSUME SavesOK, [HiddenSyncNext]_syncVars PROVE SavesOK'
  OBVIOUS
<1> USE HiddenSyncAssumption DEF SavesOK, HiddenSyncTypeOK, FilesOK
<1>1. ASSUME NEW i \in Instance, Start(i) PROVE SavesOK'
  <2>1. Loaded({}) \in SUBSET Name
    BY LoadedType
  <2> QED
    BY <1>1, <2>1 DEF Start, fileVars
<1>2. ASSUME NEW i \in Instance, Watch(i) PROVE SavesOK'
  BY <1>2 DEF Watch, fileVars
<1>3. ASSUME NEW i \in Instance, Crash(i) PROVE SavesOK'
  BY <1>3 DEF Crash, fileVars
<1>4. ASSUME NEW i \in Instance, NEW name \in Name, Toggle(i, name) PROVE SavesOK'
  BY <1>4 DEF Toggle, fileVars
<1>5. ASSUME NEW i \in Instance, Open(i) PROVE SavesOK'
  <2>1. /\ tmp' \in Inode /\ tmp' # file /\ tmp' = fd'[i]
        /\ data' = [data EXCEPT ![tmp'] = {}]
    BY <1>5, Opened
  <2>2. /\ fd' = [fd EXCEPT ![i] = tmp'] /\ pc' = [pc EXCEPT ![i] = "write"]
        /\ UNCHANGED <<file, matchers, watching, pending, missed, overlapped>>
    BY <1>5, <2>1 DEF Open, Create
  <2> QED
    BY <2>1, <2>2
<1>6. ASSUME NEW i \in Instance, Write(i) PROVE SavesOK'
  <2>1. data' \in [Inode -> (SUBSET Name) \cup {Torn}]
    BY <1>6, Written
  <2> QED
    BY <1>6, <2>1 DEF Write
<1>7. ASSUME NEW i \in Instance, Close(i) PROVE SavesOK'
  BY <1>7 DEF Close, Closing, Notify, NoNotice, fileVars
<1>8. ASSUME NEW i \in Instance, Rename(i) PROVE SavesOK'
  BY <1>8 DEF Rename, Notify, NoNotice, fileVars
<1>9. ASSUME NEW i \in Instance, SaveFails(i) PROVE SavesOK'
  BY <1>9 DEF SaveFails, fileVars
<1>10. ASSUME NEW i \in Instance, Reload(i) PROVE SavesOK'
  <2>1. Loaded(matchers[i]) \in SUBSET Name
    BY LoadedType
  <2> QED
    BY <1>10, <2>1 DEF Reload, fileVars
<1>11. CASE UNCHANGED syncVars
  BY <1>11 DEF syncVars, fileVars
<1> QED
  BY <1>1, <1>2, <1>3, <1>4, <1>5, <1>6, <1>7, <1>8, <1>9, <1>10, <1>11
     DEF HiddenSyncNext, SaveStep

-----------------------------------------------------------------------------
LEMMA AloneNext == SavesOK /\ AloneOK /\ [HiddenSyncNext]_syncVars => AloneOK'
<1> SUFFICES ASSUME SavesOK, AloneOK, [HiddenSyncNext]_syncVars PROVE AloneOK'
  OBVIOUS
<1> USE HiddenSyncAssumption DEF SavesOK, HiddenSyncTypeOK, FilesOK, AloneOK, Saving
<1>1. ASSUME NEW i \in Instance, Start(i) PROVE AloneOK'
  BY <1>1 DEF Start, fileVars
<1>2. ASSUME NEW i \in Instance, Watch(i) PROVE AloneOK'
  BY <1>2 DEF Watch, fileVars
<1>3. ASSUME NEW i \in Instance, Crash(i) PROVE AloneOK'
  BY <1>3 DEF Crash, fileVars
<1>4. ASSUME NEW i \in Instance, NEW name \in Name, Toggle(i, name) PROVE AloneOK'
  BY <1>4 DEF Toggle, fileVars
<1>5. ASSUME NEW i \in Instance, Open(i) PROVE AloneOK'
  <2>1. /\ tmp' \in Inode /\ tmp' # file /\ tmp' = fd'[i]
        /\ data' = [data EXCEPT ![tmp'] = {}]
    BY <1>5, Opened
  <2>2. /\ pc[i] = "open" /\ pc' = [pc EXCEPT ![i] = "write"]
        /\ UNCHANGED <<file, matchers, overlapped>>
    BY <1>5 DEF Open, Create
  <2> QED
    BY <2>1, <2>2
<1>6. ASSUME NEW i \in Instance, Write(i) PROVE AloneOK'
  <2>1. PICK bytes : /\ data' = [data EXCEPT ![fd[i]] = bytes]
                     /\ data[fd[i]] = {} => bytes = matchers[i]
    BY <1>6, Written
  <2>2. ~overlapped => /\ fd[i] = tmp /\ tmp # file /\ tmp # None
                       /\ data' = [data EXCEPT ![tmp] = matchers[i]]
    BY <1>6, <2>1 DEF Write
  <2>3. /\ pc[i] = "write" /\ pc' = [pc EXCEPT ![i] = "close"]
        /\ UNCHANGED <<file, tmp, matchers, fd, overlapped>>
    BY <1>6 DEF Write
  <2> QED
    BY <2>2, <2>3
<1>7. ASSUME NEW i \in Instance, Close(i) PROVE AloneOK'
  BY <1>7 DEF Close, fileVars
<1>8. ASSUME NEW i \in Instance, Rename(i) PROVE AloneOK'
  BY <1>8 DEF Rename, fileVars
<1>9. ASSUME NEW i \in Instance, SaveFails(i) PROVE AloneOK'
  BY <1>9 DEF SaveFails, fileVars
<1>10. ASSUME NEW i \in Instance, Reload(i) PROVE AloneOK'
  BY <1>10 DEF Reload, fileVars
<1>11. CASE UNCHANGED syncVars
  BY <1>11 DEF syncVars, fileVars
<1> QED
  BY <1>1, <1>2, <1>3, <1>4, <1>5, <1>6, <1>7, <1>8, <1>9, <1>10, <1>11
     DEF HiddenSyncNext, SaveStep

-----------------------------------------------------------------------------
(* Who runs and has not missed a notice has one to handle.                 *)
LEMMA Notified ==
    ASSUME SavesOK, NEW k \in Instance, pc[k] # "off", k \notin missed', Notify
    PROVE  pending'[k] > 0
BY HiddenSyncAssumption DEF SavesOK, HiddenSyncTypeOK, Notify

(* Who has just loaded the file agrees with it.                            *)
LEMMA LoadedAgrees ==
    ASSUME NEW k \in Instance, NEW old, UNCHANGED fileVars, matchers'[k] = Loaded(old)
    PROVE  Agreed(k)'
BY DEF Loaded, Agreed, fileVars

LEMMA AgreedNext == SavesOK /\ AgreedOK /\ [HiddenSyncNext]_syncVars => AgreedOK'
<1> SUFFICES ASSUME SavesOK, AgreedOK, [HiddenSyncNext]_syncVars,
                    NEW k \in Instance, pc'[k] # "off", k \notin missed'
             PROVE  Agreed(k)'
  BY DEF AgreedOK
<1> USE HiddenSyncAssumption DEF SavesOK, HiddenSyncTypeOK, FilesOK
<1>1. ASSUME NEW i \in Instance, Start(i) PROVE Agreed(k)'
  <2>1. CASE k = i
    BY <1>1, <2>1, LoadedAgrees DEF Start
  <2>2. CASE k # i
    BY <1>1, <2>2 DEF Start, fileVars, AgreedOK, Agreed, Saving
  <2> QED
    BY <2>1, <2>2
<1>2. ASSUME NEW i \in Instance, Watch(i) PROVE Agreed(k)'
  BY <1>2 DEF Watch, fileVars, AgreedOK, Agreed, Saving
<1>3. ASSUME NEW i \in Instance, Crash(i) PROVE Agreed(k)'
  <2>1. k # i /\ pc[k] # "off"
    BY <1>3 DEF Crash
  <2>2. CASE fd[i] # None /\ fd[i] = file
    BY <1>3, <2>1, <2>2 DEF Crash, Agreed
  <2>3. CASE ~(fd[i] # None /\ fd[i] = file)
    BY <1>3, <2>1, <2>3 DEF Crash, fileVars, AgreedOK, Agreed, Saving
  <2> QED
    BY <2>2, <2>3
<1>4. ASSUME NEW i \in Instance, NEW name \in Name, Toggle(i, name) PROVE Agreed(k)'
  BY <1>4 DEF Toggle, fileVars, AgreedOK, Agreed, Saving
<1>5. ASSUME NEW i \in Instance, Open(i) PROVE Agreed(k)'
  <2>1. /\ tmp' \in Inode /\ tmp' # file /\ data' = [data EXCEPT ![tmp'] = {}]
    BY <1>5, Opened
  <2>2. /\ pc[i] = "open" /\ pc' = [pc EXCEPT ![i] = "write"] /\ fd[i] = None
        /\ \A j \in Instance \ {i} : fd'[j] = fd[j]
        /\ UNCHANGED <<file, matchers, pending, missed>>
    BY <1>5 DEF Open, Create
  <2> QED
    BY <2>1, <2>2 DEF AgreedOK, Agreed, Saving
<1>6. ASSUME NEW i \in Instance, Write(i) PROVE Agreed(k)'
  <2>1. /\ pc[i] = "write" /\ pc' = [pc EXCEPT ![i] = "close"]
        /\ UNCHANGED <<file, tmp, matchers, fd, pending, missed>>
    BY <1>6 DEF Write
  <2>2. CASE fd[i] = file
    BY <2>1, <2>2 DEF Agreed
  <2>3. CASE fd[i] # file
    <3>1. file # None => data'[file] = data[file]
      BY <1>6, <2>3, Written
    <3> QED
      BY <2>1, <3>1 DEF AgreedOK, Agreed, Saving
  <2> QED
    BY <2>2, <2>3
<1>7. ASSUME NEW i \in Instance, Close(i) PROVE Agreed(k)'
  <2>1. CASE fd[i] = file
    BY <1>7, <2>1, Notified DEF Close, Closing, Agreed
  <2>2. CASE fd[i] # file
    BY <1>7, <2>2 DEF Close, Closing, NoNotice, fileVars, AgreedOK, Agreed, Saving
  <2> QED
    BY <2>1, <2>2
<1>8. ASSUME NEW i \in Instance, Rename(i) PROVE Agreed(k)'
  <2>1. CASE tmp # None
    BY <1>8, <2>1, Notified DEF Rename, Agreed
  <2>2. CASE tmp = None
    BY <1>8, <2>2 DEF Rename, NoNotice, fileVars, AgreedOK, Agreed, Saving
  <2> QED
    BY <2>1, <2>2
<1>9. ASSUME NEW i \in Instance, SaveFails(i) PROVE Agreed(k)'
  <2>1. k # i /\ pc[k] # "off"
    BY <1>9 DEF SaveFails
  <2>2. CASE fd[i] # None /\ fd[i] = file
    BY <1>9, <2>1, <2>2 DEF SaveFails, Agreed
  <2>3. CASE ~(fd[i] # None /\ fd[i] = file)
    BY <1>9, <2>1, <2>3 DEF SaveFails, fileVars, AgreedOK, Agreed, Saving
  <2> QED
    BY <2>2, <2>3
<1>10. ASSUME NEW i \in Instance, Reload(i) PROVE Agreed(k)'
  <2>1. CASE k = i
    BY <1>10, <2>1, LoadedAgrees DEF Reload
  <2>2. CASE k # i
    BY <1>10, <2>2 DEF Reload, fileVars, AgreedOK, Agreed, Saving
  <2> QED
    BY <2>1, <2>2
<1>11. CASE UNCHANGED syncVars
  BY <1>11 DEF syncVars, fileVars, AgreedOK, Agreed, Saving
<1> QED
  BY <1>1, <1>2, <1>3, <1>4, <1>5, <1>6, <1>7, <1>8, <1>9, <1>10, <1>11
     DEF HiddenSyncNext, SaveStep

-----------------------------------------------------------------------------
(* The inductive invariant of any number of instances sharing the file.    *)
THEOREM HiddenSyncInductive == HiddenSyncSpec => [](SavesOK /\ AloneOK /\ AgreedOK)
<1> DEFINE Inv == SavesOK /\ AloneOK /\ AgreedOK
<1>1. HiddenSyncInit => Inv
  BY SavesInit
<1>2. Inv /\ [HiddenSyncNext]_syncVars => Inv'
  BY SavesNext, AloneNext, AgreedNext
<1> QED
  BY <1>1, <1>2, PTL DEF HiddenSyncSpec

(* A lone save replaces the list with a rename: whatever crashes or failed *)
(* writes interrupt it, hidden.toml names a whole list that nobody is      *)
(* writing to.                                                             *)
THEOREM AloneKeepsWhole == HiddenSyncSpec => []AloneNeverHalfWritten
<1>1. SavesOK /\ AloneOK => AloneNeverHalfWritten
  BY HiddenSyncAssumption
     DEF SavesOK, HiddenSyncTypeOK, FilesOK, AloneOK, AloneNeverHalfWritten
<1> QED
  BY <1>1, HiddenSyncInductive, PTL

(* Once nothing is being saved and every notification has been handled,    *)
(* each running instance shows the list of the file, save those that a     *)
(* change passed by.                                                       *)
THEOREM QuietInstancesAgree == HiddenSyncSpec => []InstancesAgree
<1>1. SavesOK /\ AgreedOK => InstancesAgree
  <2> SUFFICES ASSUME SavesOK, AgreedOK, Quiet, file # None, data[file] # Torn,
                      NEW i \in Instance, pc[i] # "off", i \notin missed
               PROVE  matchers[i] = data[file]
    BY DEF InstancesAgree
  <2>1. ~Saving(i) /\ ~(pending[i] > 0)
    BY DEF Quiet
  <2>2. \A j \in Instance : fd[j] = None
    BY DEF Quiet, Saving, SavesOK, FilesOK, HiddenSyncTypeOK
  <2> QED
    BY <2>1, <2>2 DEF AgreedOK, Agreed, Saving
<1> QED
  BY <1>1, HiddenSyncInductive, PTL
=============================================================================
