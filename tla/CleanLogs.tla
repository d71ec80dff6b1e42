------------------------------ MODULE CleanLogs ------------------------------
(***************************************************************************)
(* `clean` beside starts and writers.  A clean goes through the projects   *)
(* it was asked for: it stops the processes it finds, asks the registry    *)
(* which names are in use now, lists the project's log files, deletes      *)
(* those of other names and removes the directory if nothing is left.      *)
(* Nothing is held in between.  Meanwhile processes are registered, and    *)
(* their writers make the directory and, some time later, open the file.   *)
(*                                                                         *)
(* A file is told from another of the same name by who created it: the     *)
(* first instance that opened it, or the name itself for a file that was   *)
(* there before.  The two streams of a process have a writer each, which   *)
(* do the same; one of them stands for both.  What is stopped, how, and    *)
(* what becomes of names is ProcessManager's; what is written LogPipeline's*)
(***************************************************************************)
CONSTANTS Ids,       \* instances of processes
          Names,     \* log files, one per project and process name
          Projects,
          ProjectOf, \* the project of a name
          Cleans,    \* clean requests
          NoName, NoFile, NoProject

Files == Ids \cup Names

ASSUME CleanAssumption ==
  /\ Ids \cap Names = {} /\ NoFile \notin Files
  /\ NoName \notin Names /\ NoProject \notin Projects
  /\ ProjectOf \in [Names -> Projects]

VARIABLES
  \* processes
  name,     \* what an instance was started as
  registry, \* instances that have an entry
  alive,    \* instances that run
  writer,   \* "none", "ready" (it has made the directory), "open", "closed" or "failed"
  fd,       \* the file a writer has open
  \* the log directory
  dirs,     \* projects that have a directory
  link,     \* the file a name leads to
  \* clean requests
  at,       \* where a clean is
  scope,    \* the projects it was asked for
  left,     \* those it has not come to
  project,  \* the one it is at
  toStop,   \* processes it found there and has not come to
  exclude,  \* names that were in use when it asked
  found,    \* files it is going to delete
  \* for the properties
  before,   \* what names led to when the clean began
  spared,   \* names it excluded, or whose files it could not see or delete
  exposed   \* instances that came in the way of a clean

procVars  == <<name, registry, alive>>
fileVars  == <<writer, fd, dirs, link>>
cleanVars == <<at, scope, left, project, toStop, exclude, found>>
obsVars   == <<before, spared, exposed>>
vars == <<procVars, fileVars, cleanVars, obsVars>>

Started == {i \in Ids : name[i] # NoName}
ProcessesOf(p) == {i \in registry : ProjectOf[name[i]] = p}
LogsOf(p) == {n \in Names : ProjectOf[n] = p /\ link[n] # NoFile}
ProjectsSeen == {ProjectOf[name[i]] : i \in registry} \cup dirs

(* Between the question which names are in use and the end of the project. *)
Deleting(c, p) == project[c] = p /\ at[c] \in {"list", "delete"}

To(c, label) == at' = [at EXCEPT ![c] = label]

(* On to the next project; what was found out about this one is dropped. *)
ToNext(c) ==
  /\ To(c, "next")
  /\ project' = [project EXCEPT ![c] = NoProject]
  /\ exclude' = [exclude EXCEPT ![c] = {}]
  /\ UNCHANGED <<scope, left, toStop, found>>

-----------------------------------------------------------------------------
(* Faulty variants, one plausible bug each; never part of Next.            *)

(* Takes it that every stop has worked and nothing was started since. *)
TakeExclude_None(c) ==
  /\ at[c] = "stop" /\ toStop[c] = {}
  /\ To(c, "list")
  /\ exposed' = exposed \cup {i \in ProcessesOf(project[c]) :
                                writer[i] \in {"none", "ready"} /\ link[name[i]] = NoFile}
  /\ UNCHANGED <<procVars, fileVars, scope, left, project, toStop, exclude, found, before, spared>>

(* Takes the projects from the registry only. *)
BeginCleanAll_Registered(c) ==
  /\ at[c] = "idle"
  /\ scope' = [scope EXCEPT ![c] = Projects]
  /\ left' = [left EXCEPT ![c] = {ProjectOf[name[i]] : i \in registry}]
  /\ before' = [before EXCEPT ![c] = link]
  /\ To(c, "next")
  /\ UNCHANGED <<procVars, fileVars, project, toStop, exclude, found, spared, exposed>>

(* Removes the directory of a project without processes, files or not. *)
RemoveDir_All(c) ==
  /\ at[c] = "delete" /\ found[c] = {}
  /\ dirs' = dirs \ {project[c]}
  /\ ToNext(c)
  /\ UNCHANGED <<procVars, writer, fd, link, obsVars>>

-----------------------------------------------------------------------------
(* Processes.                                                              *)

(* A start that found the name free, up to its entry in the registry. *)
Start(i, n) ==
  /\ i \notin Started /\ \A j \in registry : name[j] # n
  /\ name' = [name EXCEPT ![i] = n]
  /\ registry' = registry \cup {i}
  /\ alive' = alive \cup {i}
  /\ exposed' = IF \E c \in Cleans : Deleting(c, ProjectOf[n]) THEN exposed \cup {i} ELSE exposed
  /\ UNCHANGED <<fileVars, cleanVars, before, spared>>

Exit(i) ==
  /\ i \in alive
  /\ alive' = alive \ {i}
  /\ UNCHANGED <<name, registry, fileVars, cleanVars, obsVars>>

(* A start of the same name drops an entry whose process has ended. *)
Evict(i) ==
  /\ i \in registry \ alive
  /\ registry' = registry \ {i}
  /\ UNCHANGED <<name, alive, fileVars, cleanVars, obsVars>>

Stop(i) ==
  /\ i \in registry
  /\ registry' = registry \ {i}
  /\ alive' = alive \ {i}
  /\ UNCHANGED <<name, fileVars, cleanVars, obsVars>>

-----------------------------------------------------------------------------
(* Writers.  They outlive their process until they have drained its output.*)

MakeDir(i) ==
  /\ i \in Started /\ writer[i] = "none"
  /\ dirs' = dirs \cup {ProjectOf[name[i]]}
  /\ writer' = [writer EXCEPT ![i] = "ready"]
  /\ UNCHANGED <<procVars, fd, link, cleanVars, obsVars>>

(* In a task of its own: the file is created if need be, the directory not. *)
OpenLog(i) ==
  /\ writer[i] = "ready" /\ ProjectOf[name[i]] \in dirs
  /\ LET file == IF link[name[i]] = NoFile THEN i ELSE link[name[i]] IN
       /\ link' = [link EXCEPT ![name[i]] = file]
       /\ fd' = [fd EXCEPT ![i] = file]
  /\ writer' = [writer EXCEPT ![i] = "open"]
  /\ UNCHANGED <<procVars, dirs, cleanVars, obsVars>>

(* The process then runs without a log. *)
OpenFails(i) ==
  /\ writer[i] = "ready" /\ ProjectOf[name[i]] \notin dirs
  /\ writer' = [writer EXCEPT ![i] = "failed"]
  /\ UNCHANGED <<procVars, fd, dirs, link, cleanVars, obsVars>>

CloseLog(i) ==
  /\ writer[i] = "open" /\ i \notin alive
  /\ writer' = [writer EXCEPT ![i] = "closed"]
  /\ fd' = [fd EXCEPT ![i] = NoFile]
  /\ UNCHANGED <<procVars, dirs, link, cleanVars, obsVars>>

-----------------------------------------------------------------------------
(* clean_project and clean_all_projects.                                   *)

BeginClean(c, p) ==
  /\ at[c] = "idle"
  /\ scope' = [scope EXCEPT ![c] = {p}]
  /\ left' = [left EXCEPT ![c] = {p}]
  /\ before' = [before EXCEPT ![c] = link]
  /\ To(c, "next")
  /\ UNCHANGED <<procVars, fileVars, project, toStop, exclude, found, spared, exposed>>

(* Every project that has an entry or a directory. *)
BeginCleanAll(c) ==
  /\ at[c] = "idle"
  /\ scope' = [scope EXCEPT ![c] = Projects]
  /\ left' = [left EXCEPT ![c] = ProjectsSeen]
  /\ before' = [before EXCEPT ![c] = link]
  /\ To(c, "next")
  /\ UNCHANGED <<procVars, fileVars, project, toStop, exclude, found, spared, exposed>>

(* One project after another; their order does not matter here. *)
NextProject(c) ==
  /\ at[c] = "next"
  /\ \E p \in left[c] :
       /\ project' = [project EXCEPT ![c] = p]
       /\ left' = [left EXCEPT ![c] = @ \ {p}]
       /\ toStop' = [toStop EXCEPT ![c] = ProcessesOf(p)]
  /\ To(c, "stop")
  /\ UNCHANGED <<procVars, fileVars, scope, exclude, found, obsVars>>

(* By id, one after another. *)
StopOne(c, i) ==
  /\ at[c] = "stop" /\ i \in toStop[c] \cap registry
  /\ toStop' = [toStop EXCEPT ![c] = @ \ {i}]
  /\ registry' = registry \ {i}
  /\ alive' = alive \ {i}
  /\ UNCHANGED <<name, fileVars, at, scope, left, project, exclude, found, obsVars>>

(* It could not be stopped, or somebody else has removed it: on it goes. *)
StopFails(c, i) ==
  /\ at[c] = "stop" /\ i \in toStop[c]
  /\ toStop' = [toStop EXCEPT ![c] = @ \ {i}]
  /\ UNCHANGED <<procVars, fileVars, at, scope, left, project, exclude, found, obsVars>>

(* Exposed is who has an entry, but no file to keep the directory for. *)
TakeExclude(c) ==
  /\ at[c] = "stop" /\ toStop[c] = {}
  /\ exclude' = [exclude EXCEPT ![c] = {name[i] : i \in ProcessesOf(project[c])}]
  /\ spared' = [spared EXCEPT ![c] = @ \cup exclude'[c]]
  /\ exposed' = exposed \cup {i \in ProcessesOf(project[c]) :
                                writer[i] \in {"none", "ready"} /\ link[name[i]] = NoFile}
  /\ To(c, "list")
  /\ UNCHANGED <<procVars, fileVars, scope, left, project, toStop, found, before>>

ListFiles(c) ==
  /\ at[c] = "list" /\ project[c] \in dirs
  /\ found' = [found EXCEPT ![c] = LogsOf(project[c]) \ exclude[c]]
  /\ To(c, "delete")
  /\ UNCHANGED <<procVars, fileVars, scope, left, project, toStop, exclude, obsVars>>

(* There is no directory, or it cannot be read. *)
ListFails(c) ==
  /\ at[c] = "list"
  /\ spared' = [spared EXCEPT ![c] = @ \cup LogsOf(project[c])]
  /\ ToNext(c)
  /\ UNCHANGED <<procVars, fileVars, before, exposed>>

(* By path: whatever the name leads to by now. *)
DeleteFile(c, n) ==
  /\ at[c] = "delete" /\ n \in found[c]
  /\ found' = [found EXCEPT ![c] = @ \ {n}]
  /\ link' = [link EXCEPT ![n] = NoFile]
  /\ UNCHANGED <<procVars, writer, fd, dirs, at, scope, left, project, toStop, exclude, obsVars>>

(* An error is logged, and on it goes. *)
DeleteFails(c, n) ==
  /\ at[c] = "delete" /\ n \in found[c]
  /\ found' = [found EXCEPT ![c] = @ \ {n}]
  /\ spared' = [spared EXCEPT ![c] = @ \cup {n}]
  /\ UNCHANGED <<procVars, fileVars, at, scope, left, project, toStop, exclude, before, exposed>>

(* Files of other kinds keep the directory, and so may an error. *)
RemoveDir(c) ==
  /\ at[c] = "delete" /\ found[c] = {}
  /\ \/ LogsOf(project[c]) = {} /\ dirs' = dirs \ {project[c]}
     \/ UNCHANGED dirs
  /\ ToNext(c)
  /\ UNCHANGED <<procVars, writer, fd, link, obsVars>>

Finish(c) ==
  /\ at[c] = "next" /\ left[c] = {}
  /\ To(c, "done")
  /\ UNCHANGED <<procVars, fileVars, scope, left, project, toStop, exclude, found, obsVars>>

-----------------------------------------------------------------------------
Init ==
  /\ name = [i \in Ids |-> NoName] /\ registry = {} /\ alive = {}
  /\ writer = [i \in Ids |-> "none"] /\ fd = [i \in Ids |-> NoFile]
  /\ \E old \in SUBSET Names :
       /\ link = [n \in Names |-> IF n \in old THEN n ELSE NoFile]
       /\ dirs = {ProjectOf[n] : n \in old}
  /\ at = [c \in Cleans |-> "idle"]
  /\ scope = [c \in Cleans |-> {}] /\ left = [c \in Cleans |-> {}]
  /\ project = [c \in Cleans |-> NoProject]
  /\ toStop = [c \in Cleans |-> {}] /\ exclude = [c \in Cleans |-> {}]
  /\ found = [c \in Cleans |-> {}]
  /\ before = [c \in Cleans |-> link] /\ spared = [c \in Cleans |-> {}]
  /\ exposed = {}

Process(i) == (\E n \in Names : Start(i, n)) \/ Exit(i) \/ Evict(i) \/ Stop(i)

Writer(i) == MakeDir(i) \/ OpenLog(i) \/ OpenFails(i) \/ CloseLog(i)

Clean(c) ==
  \/ \E p \in Projects : BeginClean(c, p)
  \/ BeginCleanAll(c) \/ NextProject(c)
  \/ \E i \in Ids : StopOne(c, i) \/ StopFails(c, i)
  \/ TakeExclude(c) \/ ListFiles(c) \/ ListFails(c)
  \/ \E n \in Names : DeleteFile(c, n) \/ DeleteFails(c, n)
  \/ RemoveDir(c) \/ Finish(c)

Next ==
  \/ \E i \in Ids : Process(i) \/ Writer(i)
  \/ \E c \in Cleans : Clean(c)

Spec == Init /\ [][Next]_vars

-----------------------------------------------------------------------------
(* Correctness.                                                            *)

(* Every variable keeps its type, only instances that were started have
   entries or writers, and a file is in a directory that is there
   (batch_writer.rs:35-38, cleaner.rs:48-52). *)
TypeOK ==
  /\ name \in [Ids -> Names \cup {NoName}]
  /\ registry \subseteq Started /\ alive \subseteq Started
  /\ writer \in [Ids -> {"none", "ready", "open", "closed", "failed"}]
  /\ \A i \in Ids : writer[i] # "none" => i \in Started
  /\ fd \in [Ids -> Files \cup {NoFile}]
  /\ dirs \subseteq Projects
  /\ link \in [Names -> Files \cup {NoFile}]
  /\ \A n \in Names : link[n] # NoFile => ProjectOf[n] \in dirs
  /\ at \in [Cleans -> {"idle", "next", "stop", "list", "delete", "done"}]
  /\ scope \in [Cleans -> SUBSET Projects] /\ left \in [Cleans -> SUBSET Projects]
  /\ project \in [Cleans -> Projects \cup {NoProject}]
  /\ \A c \in Cleans : at[c] \in {"stop", "list", "delete"} => project[c] # NoProject
  /\ toStop \in [Cleans -> SUBSET Ids]
  /\ exclude \in [Cleans -> SUBSET Names] /\ found \in [Cleans -> SUBSET Names]
  /\ before \in [Cleans -> [Names -> Files \cup {NoFile}]]
  /\ spared \in [Cleans -> SUBSET Names] /\ exposed \subseteq Started

(* "Files listed in `exclude` are kept (logs of processes still running)"
   (cleaner.rs:8): a process that has its entry writes to the file its name
   leads to, whatever is cleaned, unless it was started while a clean of its
   project was deleting, or had not created its file when one began to
   (manager.rs:610-626, batch_writer.rs:33-41). *)
UnexposedKeepLog ==
  \A i \in registry \ exposed :
    /\ writer[i] = "open" => fd[i] = link[name[i]]
    /\ writer[i] # "failed"

(* When a clean is done, no file of its projects is left that was there when
   it began, but for those of names in use and those it could not delete,
   whoever else deletes and creates files meanwhile (manager.rs:631-664,
   cleaner.rs:9-54). *)
OldLogsGone ==
  \A c \in Cleans : at[c] = "done" =>
    \A n \in Names :
      ProjectOf[n] \in scope[c] /\ before[c][n] # NoFile /\ link[n] = before[c][n]
        => n \in spared[c]

=============================================================================
