--------------------------- MODULE SocketInstall ---------------------------
(***************************************************************************)
(* What one installation of a socket does to its files, scripts, endpoint  *)
(* and event handler (apps/sockets/importer.py, processor.py, tasks.py).   *)
(*                                                                         *)
(* SocketLifecycle has the statuses and tasks around it; here an upload    *)
(* and the task that processes it are one step, as the socket is locked in *)
(* between and the task saves all or nothing.  A zip with a specification  *)
(* is a full installation, one without it a partial one.  A checksum       *)
(* stands for the content; Empty is the one of a file without content.     *)
(***************************************************************************)
EXTENDS Integers

CONSTANTS
    Paths,
    Contents,       \* checksums
    Empty,
    Absent,         \* no such file
    NoPath,         \* the specification has no endpoint, or no handler
    NoList,         \* zip_file_list is None
    AnyFile         \* zip_file_list is ['*']

ASSUME SocketInstallAssumption ==
    /\ Empty \in Contents
    /\ Absent \notin Contents
    /\ NoPath \notin Paths
    /\ NoList # AnyFile

VARIABLES
    spec,         \* socket.yml in the file list: "none" or "installed"
    files,        \* the other entries of file_list: checksum, stored content, helper flag
    scripts,      \* paths of the CodeBox rows of the socket
    endpoint,     \* the script the SocketEndpoint calls
    handler,      \* the script `installed' names for the SocketHandler
    trigger,      \* the script of the Trigger or CodeBoxSchedule behind it
    latest,       \* history: what was installed last at a path
    emptied,      \* history: paths that got an empty file
    misfiled,     \* history: scripts whose file was filed as a helper
    moved         \* history: the last installation moved the handler

installVars == <<spec, files, scripts, endpoint, handler, trigger, latest, emptied, misfiled, moved>>

Zips == [Paths -> Contents \cup {Absent}]
NoFile == [sum |-> Absent, stored |-> Absent, helper |-> "no"]
Lists == SUBSET Paths \cup {NoList, AnyFile}
Targets == Paths \cup {NoPath}

InstallInit ==
    /\ spec = "none"
    /\ files = [p \in Paths |-> NoFile]
    /\ scripts = {} /\ endpoint = NoPath /\ handler = NoPath /\ trigger = NoPath
    /\ latest = [p \in Paths |-> Absent]
    /\ emptied = {} /\ misfiled = {} /\ moved = "no"

In(zip) == {p \in Paths : zip[p] # Absent}
Filed == {p \in Paths : files[p].sum # Absent}

(* The sum of what is in the zip, or else of what is installed. *)
SumOf(zip, p) == IF zip[p] # Absent THEN zip[p] ELSE files[p].sum

(* add_file: a file that changed replaces the stored one.  An empty one is  *)
(* not stored, but the old one goes and its entry stays.                    *)
Added(f, sum, helper) ==
    IF f.sum = sum THEN f
    ELSE IF sum = Empty THEN [f EXCEPT !.stored = Absent]
    ELSE [sum |-> sum, stored |-> sum, helper |-> helper]

(* process_script_dependency: a script that is not in the zip stops being a *)
(* helper.                                                                  *)
AsScript(zip, p) ==
    Added(IF zip[p] = Absent THEN [files[p] EXCEPT !.helper = "no"] ELSE files[p], SumOf(zip, p), "no")

FaultUnwanted(list, partial, kept) ==
    IF list = AnyFile \/ (partial /\ list = NoList) THEN {}
    ELSE Filed \ (kept \cup (IF list = NoList THEN {} ELSE list))

(* cleanup: entries to delete.  A partial one wants a list of files and     *)
(* leaves scripts alone.  A PATCH without zip_file_list keeps the one of an *)
(* earlier upload, so any list may go with any zip.                         *)
Unwanted(list, partial, kept) ==
    IF list = AnyFile \/ (partial /\ list = NoList) THEN {}
    ELSE {p \in Filed \ (kept \cup (IF list = NoList THEN {} ELSE list)) :
            partial => files[p].helper = "yes"}

(* The file list after the paths of `kept' were added. *)
FilesSaved(partial, kept, added) ==
    \E gone \in {Unwanted(list, partial, kept) : list \in Lists} :
        files' = [p \in Paths |-> IF p \in gone THEN NoFile ELSE IF p \in kept THEN added[p] ELSE files[p]]

(* History.  A script is misfiled from when its file is filed as a helper   *)
(* until a full installation has other content for it.                      *)
Noted(zip, used) ==
    LET rewritten == {p \in In(zip) : zip[p] \notin {Empty, files[p].sum}}
    IN  /\ latest' = [p \in Paths |-> SumOf(zip, p)]
        /\ emptied' = (emptied \ rewritten) \cup {p \in Paths : zip[p] = Empty}
        /\ misfiled' = (misfiled \ (used \cap rewritten)) \cup {p \in scripts' : files'[p].helper = "yes"}

(* The paths endpoints and event handlers name, and the rest of the zip. *)
EndpointPaths(e) == {e} \ {NoPath}
HandlerPaths(h) == {h} \ {NoPath}
HelperPaths(zip, used) == In(zip) \ used

(* A trigger that exists is given its script but not saved (update_trigger, *)
(* update_schedule): it keeps the one it had.                               *)
TriggerInstalled(h) == IF h = NoPath THEN NoPath ELSE IF trigger = NoPath THEN h ELSE trigger

(* A CodeBox that was not installed is deleted, a trigger of it as well. *)
Cascaded(t, used) == IF t \in used THEN t ELSE NoPath

(* The row of an endpoint or of a handler is made or updated by its name,   *)
(* and deleted when the specification has it no more.                       *)
EndpointInstalled(e) == endpoint' = e
HandlerInstalled(h) == handler' = h

SpecFiled == spec' = "installed"
HelperFiled(zip, p) == Added(files[p], zip[p], "yes")

(* Each dependency goes to its processor: what becomes of the files. *)
Processed(zip, used) ==
    [p \in used \cup In(zip) |-> IF p \in HelperPaths(zip, used) THEN HelperFiled(zip, p) ELSE AsScript(zip, p)]

(* process_socket and install_socket with a specification: scripts first,   *)
(* helpers last, then everything that was not installed is deleted.         *)
InstallFull(zip, e, h) ==
    LET used == EndpointPaths(e) \cup HandlerPaths(h)
    IN  /\ used \subseteq In(zip) \cup Filed
        /\ SpecFiled
        /\ FilesSaved(FALSE, used \cup In(zip), Processed(zip, used))
        /\ scripts' = used
        /\ EndpointInstalled(e) /\ HandlerInstalled(h)
        /\ trigger' = Cascaded(TriggerInstalled(h), used)
        /\ moved' = IF h # NoPath /\ trigger \notin {NoPath, h} THEN "yes" ELSE "no"
        /\ Noted(zip, used)

(* partial_process_socket: a path that is installed and no helper is a      *)
(* script, any other a helper.                                              *)
InstallPartial(zip) ==
    LET code == {p \in In(zip) \cap Filed : files[p].helper = "no"}
    IN  /\ spec = "installed"
        /\ FilesSaved(TRUE, In(zip), [p \in In(zip) |-> Added(files[p], zip[p], IF p \in code THEN "no" ELSE "yes")])
        /\ scripts' = scripts \cup code
        /\ UNCHANGED <<spec, endpoint, handler, trigger, moved>>
        /\ Noted(zip, {})

(* Anything that goes wrong - a missing file, a limit, a bad schedule -     *)
(* rolls all of it back: handle_exception saves the status and no more.     *)
InstallNext ==
    \/ \E zip \in Zips :
        \/ InstallPartial(zip)
        \/ \E e, h \in Targets : InstallFull(zip, e, h)

-----------------------------------------------------------------------------
(* What the socket reports as installed is there: each script has its row   *)
(* and its file with what was installed last, and the handler is behind a   *)
(* trigger that runs its script - except for files that were emptied or     *)
(* filed as helpers, and a handler that was just moved.                     *)
InstalledIsThere ==
    LET good(p) == files[p].stored = latest[p]
    IN  /\ \A p \in Filed \ emptied : good(p)
        /\ \A p \in {endpoint, handler} \ {NoPath} :
            p \in scripts /\ (p \notin emptied \cup misfiled => good(p) /\ p \in Filed)
        /\ handler # NoPath /\ moved = "no" => trigger = handler
=============================================================================
