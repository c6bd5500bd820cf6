----------------------------- MODULE HiddenSync -----------------------------
(***************************************************************************)
(* The durable list of permanently hidden items, shared by every running   *)
(* wiremix through one file: HiddenState::load and save, the App's toggle, *)
(* save and reload, and the inotify watch of the session thread.           *)
(*                                                                         *)
(* The file system is external: an inode keeps its name-independent        *)
(* content, open(O_TRUNC) empties what the name holds, a writer's offset   *)
(* starts at zero, and rename moves the name only.  A matcher is the name  *)
(* it matches, all names taken to be equally long; a list is a set.        *)
(***************************************************************************)
EXTENDS Naturals, FiniteSets

CONSTANTS
    Instance,   \* running or runnable wiremix processes
    Name,       \* node names that may be hidden
    Inode,      \* inodes the temporary file may get
    None,
    Torn,       \* bytes that are no list: the head of a short one on the
                \* tail of a longer one
    MaxPending  \* bound on unhandled notifications of an instance

(* Beside the inode the file names and those that other instances have     *)
(* open, one is always free.                                               *)
ASSUME HiddenSyncAssumption ==
    /\ IsFiniteSet(Name) /\ \A list \in SUBSET Name : list # Torn
    /\ IsFiniteSet(Instance) /\ IsFiniteSet(Inode) /\ None \notin Inode
    /\ Cardinality(Inode) > Cardinality(Instance)
    /\ MaxPending \in Nat \ {0}

VARIABLES
    file,       \* inode named hidden.toml, or None
    tmp,        \* inode named hidden.toml.tmp, or None
    data,       \* content of each inode
    pc,         \* "off", "idle", or the next step of save
    matchers,   \* hidden_permanent_matchers of each instance
    fd,         \* inode each instance has open for writing, or None
    watching,   \* instances whose inotify watch exists
    pending,    \* HiddenStateChanged events on their way to each App
    missed,     \* instances a change passed by: before their watch, or unsaved
    overlapped  \* two instances have been in save at the same time

fileVars == <<file, tmp, data>>
syncVars == <<fileVars, pc, matchers, fd, watching, pending, missed, overlapped>>

HiddenSyncInit ==
    /\ file = None /\ tmp = None
    /\ data = [n \in Inode |-> {}]
    /\ pc = [i \in Instance |-> "off"]
    /\ matchers = [i \in Instance |-> {}]
    /\ fd = [i \in Instance |-> None]
    /\ watching = {} /\ missed = {}
    /\ pending = [i \in Instance |-> 0]
    /\ overlapped = FALSE

-----------------------------------------------------------------------------
(* HiddenState::load: an absent or empty file is an empty list, torn bytes *)
(* are an error, on which the caller keeps what it has.                    *)
Loaded(old) ==
    CASE file = None -> {}
      [] file # None /\ data[file] = Torn -> old
      [] file # None /\ data[file] # Torn -> data[file]

(* IN_MOVED_TO or IN_CLOSE_WRITE under the name hidden.toml reaches every  *)
(* instance with a watch; others miss it.  Two events behave as one that   *)
(* has not been handled yet, beyond the bound.                             *)
Notify ==
    /\ pending' = [i \in Instance |->
            IF i \in watching /\ pending[i] < MaxPending THEN pending[i] + 1 ELSE pending[i]]
    /\ missed' = missed \cup {i \in Instance : pc[i] # "off" /\ i \notin watching}

NoNotice == UNCHANGED <<pending, missed>>

(* Closing a written inode notifies under the name it has then.            *)
Closing(n) == IF n # None /\ n = file THEN Notify ELSE NoNotice

(* main: the session thread is spawned, and the App loads the file without *)
(* waiting for that thread to have set up its watch.                       *)
Start(i) ==
    /\ pc[i] = "off"
    /\ pc' = [pc EXCEPT ![i] = "idle"]
    /\ matchers' = [matchers EXCEPT ![i] = Loaded({})]
    /\ UNCHANGED <<fileVars, fd, watching, pending, missed, overlapped>>

Watch(i) ==
    /\ pc[i] # "off" /\ i \notin watching
    /\ watching' = watching \cup {i}
    /\ UNCHANGED <<fileVars, pc, matchers, fd, pending, missed, overlapped>>

(* A crash or a kill; the system closes what was open.  An exit between    *)
(* two handlers is the case in which nothing is.                           *)
Crash(i) ==
    /\ pc[i] # "off"
    /\ pc' = [pc EXCEPT ![i] = "off"]
    /\ matchers' = [matchers EXCEPT ![i] = {}]
    /\ fd' = [fd EXCEPT ![i] = None]
    /\ watching' = watching \ {i}
    /\ IF fd[i] # None /\ fd[i] = file
       THEN /\ pending' = [j \in Instance |->
                    IF j = i THEN 0
                    ELSE IF j \in watching /\ pending[j] < MaxPending THEN pending[j] + 1
                         ELSE pending[j]]
            /\ missed' = (missed \cup {j \in Instance : pc[j] # "off" /\ j \notin watching}) \ {i}
       ELSE /\ pending' = [pending EXCEPT ![i] = 0]
            /\ missed' = missed \ {i}
    /\ UNCHANGED <<fileVars, overlapped>>

(* Action::ToggleHiddenPermanent up to save_hidden_state.                  *)
Toggle(i, name) ==
    /\ pc[i] = "idle"
    /\ matchers' = [matchers EXCEPT ![i] = IF name \in @ THEN @ \ {name} ELSE @ \cup {name}]
    /\ pc' = [pc EXCEPT ![i] = "open"]
    /\ overlapped' = (overlapped \/ \E j \in Instance \ {i} : pc[j] \notin {"off", "idle"})
    /\ UNCHANGED <<fileVars, fd, watching, pending, missed>>

(* A free inode; which one makes no difference.                           *)
FreeInode == CHOOSE n \in Inode : n # file /\ \A i \in Instance : fd[i] # n

Create(i, n) ==
    /\ pc[i] = "open"
    /\ tmp' = n
    /\ data' = [data EXCEPT ![n] = {}]
    /\ fd' = [fd EXCEPT ![i] = n]
    /\ pc' = [pc EXCEPT ![i] = "write"]
    /\ UNCHANGED <<file, matchers, watching, pending, missed, overlapped>>

(* Mutant of Open: the file itself is written in place.                    *)
OpenInPlace(i) == Create(i, IF file # None THEN file ELSE FreeInode)

(* HiddenState::save, on the App thread: fs::write is open, write, close.  *)
Open(i) == Create(i, IF tmp # None THEN tmp ELSE FreeInode)

(* The bytes land over the first bytes of what the inode holds by then; of *)
(* a torn one the length is not known.                                     *)
Write(i) ==
    /\ pc[i] = "write"
    /\ \E new \in {matchers[i]}, old \in {data[fd[i]]} :
        \E bytes \in CASE old = Torn -> {Torn, new}
                       [] old # Torn /\ Cardinality(old) > Cardinality(new) -> {Torn}
                       [] OTHER -> {new} :
            data' = [data EXCEPT ![fd[i]] = bytes]
    /\ pc' = [pc EXCEPT ![i] = "close"]
    /\ UNCHANGED <<file, tmp, matchers, fd, watching, pending, missed, overlapped>>

Close(i) ==
    /\ pc[i] = "close"
    /\ Closing(fd[i])
    /\ fd' = [fd EXCEPT ![i] = None]
    /\ pc' = [pc EXCEPT ![i] = "rename"]
    /\ UNCHANGED <<fileVars, matchers, watching, overlapped>>

(* Another instance may have renamed the temporary file first: an error,   *)
(* which save_hidden_state swallows, and this instance's list is lost      *)
(* unless the other renamed an inode it had written to.                    *)
Rename(i) ==
    /\ pc[i] = "rename"
    /\ pc' = [pc EXCEPT ![i] = "idle"]
    /\ IF tmp # None
       THEN /\ file' = tmp /\ tmp' = None
            /\ data' = [n \in Inode |->     \* an inode nothing refers to is freed
                    IF n = tmp \/ \E j \in Instance : fd[j] = n THEN data[n] ELSE {}]
            /\ Notify
       ELSE UNCHANGED fileVars /\ NoNotice
    /\ UNCHANGED <<matchers, fd, watching, overlapped>>

(* open or write fails (no space, a read-only directory).                  *)
SaveFails(i) ==
    /\ pc[i] \in {"open", "write"}
    /\ pc' = [pc EXCEPT ![i] = "idle"]
    /\ IF fd[i] # None /\ fd[i] = file
       THEN /\ pending' = [j \in Instance |->
                    IF j \in watching /\ pending[j] < MaxPending THEN pending[j] + 1 ELSE pending[j]]
            /\ missed' = missed \cup {j \in Instance : pc[j] # "off" /\ j \notin watching} \cup {i}
       ELSE /\ UNCHANGED pending
            /\ missed' = missed \cup {i}
    /\ fd' = [fd EXCEPT ![i] = None]
    /\ UNCHANGED <<fileVars, matchers, watching, overlapped>>

(* Mutants of Reload: what was loaded is saved again; a file that changed  *)
(* under a list is not read.                                               *)
ReloadResaves(i) ==
    /\ pc[i] = "idle" /\ pending[i] > 0
    /\ pending' = [pending EXCEPT ![i] = @ - 1]
    /\ matchers' = [matchers EXCEPT ![i] = Loaded(@)]
    /\ pc' = [pc EXCEPT ![i] = "open"]
    /\ missed' = missed \ {i}
    /\ UNCHANGED <<fileVars, fd, watching, overlapped>>
ReloadIgnoresOwn(i) ==
    /\ pc[i] = "idle" /\ pending[i] > 0
    /\ pending' = [pending EXCEPT ![i] = 0]
    /\ matchers' = [matchers EXCEPT ![i] = IF @ = {} THEN Loaded(@) ELSE @]
    /\ missed' = missed \ {i}
    /\ UNCHANGED <<fileVars, pc, fd, watching, overlapped>>

(* PipewireEvent::HiddenStateChanged: apply_file_hidden_state_change reads *)
(* the file as it is now, and never saves.                                 *)
Reload(i) ==
    /\ pc[i] = "idle" /\ pending[i] > 0
    /\ pending' = [pending EXCEPT ![i] = @ - 1]
    /\ matchers' = [matchers EXCEPT ![i] = Loaded(@)]
    /\ missed' = missed \ {i}
    /\ UNCHANGED <<fileVars, pc, fd, watching, overlapped>>

SaveStep(i) == Open(i) \/ Write(i) \/ Close(i) \/ Rename(i)

HiddenSyncNext ==
    \E i \in Instance :
        \/ Start(i) \/ Watch(i) \/ Crash(i)
        \/ \E name \in Name : Toggle(i, name)
        \/ SaveStep(i) \/ SaveFails(i)
        \/ Reload(i)

HiddenSyncSpec == HiddenSyncInit /\ [][HiddenSyncNext]_syncVars

(* An App finishes the save it is in and comes back to its event channel,  *)
(* and a session thread sets up its watch.                                 *)
HiddenSyncFairness ==
    \A i \in Instance : /\ WF_syncVars(SaveStep(i))
                        /\ WF_syncVars(Reload(i))
                        /\ WF_syncVars(Watch(i))

FairHiddenSyncSpec == HiddenSyncSpec /\ HiddenSyncFairness

-----------------------------------------------------------------------------
Saving(i) == pc[i] \notin {"off", "idle"}

(* No save is under way and every notification has been handled.           *)
Quiet == \A i \in Instance : ~Saving(i) /\ pending[i] = 0

(* Instances that run agree with the file, and so with one another, once   *)
(* things are quiet, whatever saves, crashes and failed renames went before*)
(* ("takes effect live everywhere"): all but those whose own save failed,  *)
(* or that loaded before a change and began to watch after it.             *)
InstancesAgree ==
    Quiet /\ file # None /\ data[file] # Torn =>
        \A i \in Instance : pc[i] # "off" /\ i \notin missed => matchers[i] = data[file]

(* While saves have not overlapped, no crash and no failed write leaves or *)
(* shows a half-written file: what hidden.toml names is whole and closed.  *)
AloneNeverHalfWritten ==
    ~overlapped /\ file # None =>
        data[file] # Torn /\ \A i \in Instance : fd[i] # file

(* Reloading never answers a change with a change: once users leave the    *)
(* hides alone, notifications and saves die out (the doc of                *)
(* apply_file_hidden_state_change on what re-saving would do).             *)
SettlesDown ==
    <>[][\A i \in Instance :
            ~(Start(i) \/ Crash(i) \/ \E name \in Name : Toggle(i, name))]_syncVars
        => <>[]Quiet

(* What the code's documentation says, and the code does not do.  The doc  *)
(* of save: a crash, or another instance saving at the same moment, "can   *)
(* never leave a half-written file behind".                                *)
NeverLeftHalfWritten ==
    (\A i \in Instance : ~Saving(i)) /\ file # None => data[file] # Torn
=============================================================================
