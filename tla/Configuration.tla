---------------------------- MODULE Configuration ----------------------------
(***************************************************************************)
(* The configuration file, its hot reload and the white list file          *)
(* (src/src/settings.rs, src/src/settings/, src/src/backend.rs).           *)
(*                                                                         *)
(* SETTING_CONFIG holds the settings behind a mutex.  update_settings      *)
(* reads the file again under that mutex, and still holding it announces   *)
(* the settings to the clients and to the dialog; a client that reads the  *)
(* settings is answered after the mutex is released.  Two tasks update:    *)
(* the start-up once, and async_watch for every event of a watch on the    *)
(* directory $XDG_CONFIG_HOME/xdg-desktop-portal-luminous.  Which file is  *)
(* read, the one in that directory or the one in /etc, is settled once, at *)
(* the first read.                                                         *)
(*                                                                         *)
(* The white list is kept in memory behind a mutex of its own and written  *)
(* as a whole to the same directory at every grant, so its writes wake the *)
(* watcher too.                                                            *)
(*                                                                         *)
(* The user edits the file in place or by renaming a new one over it, and  *)
(* the portal may crash and be started again at any moment; the files stay.*)
(***************************************************************************)
EXTENDS Naturals, Sequences

CONSTANTS
  Config,      \* contents of a configuration file
  Default,     \* SettingsConfig::default()
  EtcConfig,   \* what the file under /etc says, Default if there is none
  App,         \* applications that are granted something
  None, Torn,  \* no file; a file that does not parse, which loads as a default
  Stale,       \* settings that were read before others were announced
  MaxEdits,    \* bound: steps of the user, who edits files and grants
  MaxFaults    \* bound: crashes and file operations that fail, together

VARIABLES
  dir,         \* the directory exists
  homeFile,    \* config.toml in it
  draft,       \* what the user is writing into it, in place
  listFile,    \* whitelist.json in it
  path,        \* PORTAL_CONFIG_FILE: home or etc, None until the first use
  config,      \* SETTING_CONFIG, None until the first use
  lock,        \* the task that holds its mutex
  at, dark,    \* where the tasks start-up and watcher stand in update_settings,
               \* and their prefers_dark
  watch,       \* the watch of the directory
  events,      \* its events on their way to async_watch
  client,      \* the settings as a client knows them, None until it reads them
  reply,       \* the reply to a read on its way to it, if any
  dialog,      \* the settings as the dialog knows them
  list,        \* WHITE_LIST_MAINTAINER, None until the first use
  saving,      \* where save_to_file stands
  unread,      \* history: the list was loaded without what its file holds,
               \* and not written since
  unsaved,     \* history: the last save failed
  durable,     \* history: grants that a completed write has put into the file
  missed,      \* history: config.toml changed since it was read, unwatched
  edits, faults

files == <<dir, homeFile, draft, listFile>>
settings == <<path, config, lock, at, dark>>
watcher == <<watch, events>>
heard == <<client, reply, dialog>>
whitelist == <<list, saving, unread, unsaved, durable>>
vars == <<files, settings, watcher, heard, whitelist, missed, edits, faults>>

Task == {"start-up", "watcher"}

\* Entries of the white list.
Grant == App \X {"screen_shot", "remote"}

ASSUME ConfigAssumption ==
  /\ Default \in Config /\ EtcConfig \in Config
  /\ {None, Torn, Stale} \cap (Config \cup Task) = {}
  /\ None # Torn /\ None # Stale /\ \A grants \in SUBSET Grant : grants \notin {None, Torn}
  /\ MaxEdits \in Nat /\ MaxFaults \in Nat

Event == {"Create", "Modify", "Remove"}

TypeOK ==
  /\ dir \in BOOLEAN /\ homeFile \in Config \cup {None, Torn}
  /\ draft \in Config \cup {None}
  /\ (listFile \in {None, Torn} \/ listFile \subseteq Grant)
  /\ path \in {None, "home", "etc"} /\ config \in Config \cup {None}
  /\ lock \in Task \cup {None}
  /\ at \in [Task -> {"idle", "lock", "announce", "tell"}]
  /\ dark \in [Task -> Config \cup {None}]
  /\ watch \in {"starting", "watching", "failed"} /\ events \in Seq(Event)
  /\ {client, reply} \subseteq Config \cup {None, Stale}
  /\ dialog \in Config \cup {None}
  /\ (list = None \/ list \subseteq Grant)
  /\ saving \in {"no", "mkdir", "truncate", "write"}
  /\ unread \in BOOLEAN /\ unsaved \in BOOLEAN
  /\ durable \subseteq Grant /\ missed \in BOOLEAN
  /\ edits \in 0 .. MaxEdits /\ faults \in 0 .. MaxFaults

\* A portal that starts: nothing is loaded, start-up is about to update the
\* settings and async_watch to watch.
AtBoot == [t \in Task |-> IF t = "start-up" THEN "lock" ELSE "idle"]
DarkAtBoot == [t \in Task |-> None]

\* The files are those of earlier runs of the portal.
Init ==
  /\ dir \in BOOLEAN /\ homeFile \in Config \cup {None}
  /\ listFile \in {None} \cup SUBSET Grant
  /\ durable = IF listFile = None THEN {} ELSE listFile
  /\ homeFile # None \/ listFile # None => dir
  /\ draft = None
  /\ path = None /\ config = None /\ lock = None /\ at = AtBoot /\ dark = DarkAtBoot
  /\ watch = "starting" /\ events = <<>>
  /\ client = None /\ reply = None /\ dialog = None
  /\ list = None /\ saving = "no"
  /\ unread = FALSE /\ unsaved = FALSE
  /\ missed = FALSE
  /\ edits = 0 /\ faults = 0

Faulty == faults < MaxFaults /\ faults' = faults + 1

-----------------------------------------------------------------------------
(* Files *)

\* notify: what happens in the directory, while it is watched.
Notify(e) == events' = IF watch = "watching" THEN Append(events, e) ELSE events

WriteEvent(file) == IF file = None THEN "Create" ELSE "Modify"

\* The user changes config.toml; a change that nobody watches is missed if
\* the file has been read before.
Edit(content, e) ==
  /\ dir /\ edits < MaxEdits /\ edits' = edits + 1
  /\ homeFile' = content
  /\ Notify(e)
  /\ missed' = (missed \/ (config # None /\ watch # "watching"))
  /\ UNCHANGED <<dir, listFile, settings, watch, heard, whitelist, faults>>

StartWriting(c) ==
  Edit(Torn, WriteEvent(homeFile)) /\ draft' = c

FinishWriting ==
  draft # None /\ homeFile # None /\ Edit(draft, "Modify") /\ draft' = None

RenameOver(c) ==
  Edit(c, "Modify") /\ draft' = None

RemoveFile ==
  homeFile # None /\ Edit(None, "Remove") /\ draft' = None

MakeDirectory ==
  /\ ~dir /\ dir' = TRUE
  /\ edits < MaxEdits /\ edits' = edits + 1
  /\ UNCHANGED <<homeFile, draft, listFile, settings, watcher, heard, whitelist,
                 missed, faults>>

-----------------------------------------------------------------------------
(* SETTING_CONFIG *)

\* PORTAL_CONFIG_FILE, a LazyLock: the file is chosen at its first use.
PathAt(p) == IF p # None THEN p ELSE IF homeFile # None THEN "home" ELSE "etc"

\* config_from_file: whatever cannot be read or parsed is a default.
Content(file) == IF file \in Config THEN file ELSE Default
ConfigFromFile(p) == IF p = "home" THEN Content(homeFile) ELSE EtcConfig

\* The settings are read from the file; they are what it says now.
Load ==
  /\ path' = PathAt(path)
  /\ config' = ConfigFromFile(path')
  /\ missed' = FALSE

Goto(t, from, to) == at[t] = from /\ at' = [at EXCEPT ![t] = to]

BeginUpdate(t) ==
  /\ Goto(t, "lock", "announce")
  /\ lock = None /\ lock' = t
  /\ Load
  /\ dark' = [dark EXCEPT ![t] = config']
  /\ UNCHANGED <<files, watcher, heard, whitelist, edits, faults>>

\* A client that has read the settings follows the signals, which overtake a
\* reply on its way.
Hear(c) ==
  /\ client' = IF client = None THEN None ELSE c
  /\ reply' = IF reply = None THEN None ELSE Stale

LockDropped == lock' = None   \* mutant: the dialog is told without the mutex
LockHeld == UNCHANGED lock

\* Four times setting_changed.
AnnounceSettings(t) ==
  /\ Goto(t, "announce", "tell")
  /\ Hear(config)
  /\ LockHeld
  /\ UNCHANGED <<files, path, config, dark, watcher, dialog, whitelist, missed,
                 edits, faults>>

\* ColorSchemeChanged, and the mutex is released.
TellDialog(t) ==
  /\ Goto(t, "tell", "idle")
  /\ dialog' = dark[t] /\ dark' = [dark EXCEPT ![t] = None]
  /\ lock' = None
  /\ UNCHANGED <<files, path, config, watcher, client, reply, whitelist, missed, edits,
                 faults>>

\* Read and ReadAll: the first use of SETTING_CONFIG loads it.  The mutex is
\* released when the method returns, and the reply sent after that.
ReadAll ==
  /\ lock = None /\ reply = None
  /\ IF config = None THEN Load ELSE UNCHANGED <<path, config, missed>>
  /\ reply' = config'
  /\ UNCHANGED <<files, lock, at, dark, watcher, client, dialog, whitelist, edits,
                 faults>>

SendReply ==
  /\ reply # None /\ reply' = None
  /\ client' = reply
  /\ UNCHANGED <<files, settings, watcher, dialog, whitelist, missed, edits, faults>>

-----------------------------------------------------------------------------
(* async_watch *)

\* watch fails for a directory that does not exist, and is not tried again.
StartWatch ==
  /\ watch = "starting" /\ watch' = IF dir THEN "watching" ELSE "failed"
  /\ UNCHANGED <<files, settings, events, heard, whitelist, missed, edits, faults>>

ReloadsOnModify == {"Modify"}   \* mutant: a file that is made anew is ignored

Reloads == {"Modify", "Create"}

TakeEvent ==
  /\ events # <<>> /\ events' = Tail(events)
  /\ IF Head(events) \in Reloads THEN Goto("watcher", "idle", "lock")
                                 ELSE at["watcher"] = "idle" /\ UNCHANGED at
  /\ UNCHANGED <<files, path, config, lock, dark, watch, heard, whitelist, missed, edits,
                 faults>>

-----------------------------------------------------------------------------
(* The white list *)

\* WhiteList::config_from_file: a file that does not parse holds nothing.
ListFromFile == IF listFile \in {None, Torn} THEN {} ELSE listFile
LoadedEmpty == IF list = None THEN {} ELSE list   \* mutant: the file is not read

\* The first use of the list loads it.  A file that cannot be opened or read
\* loads as an empty list, whatever it holds.
Loaded == IF list = None THEN ListFromFile ELSE list
Use(found) ==
  \/ found = Loaded /\ UNCHANGED <<unread, faults>>
  \/ list = None /\ found = {} /\ Faulty /\ unread' = TRUE

\* add_screenshot_whitelist, add_remote_whitelist, called for a grant that the
\* list did not have; save_to_file begins under its mutex.
AddToWhitelist(g) ==
  \E found \in {Loaded, {}} :
    /\ Use(found) /\ g \notin found
    /\ saving = "no" /\ saving' = "mkdir"
    /\ list' = found \cup {g}
    /\ edits < MaxEdits /\ edits' = edits + 1
    /\ UNCHANGED <<files, settings, watcher, heard, unsaved, durable, missed>>

\* check_shot, check_remote
CheckWhitelist ==
  \E found \in {Loaded, {}} :
    /\ Use(found)
    /\ saving = "no" /\ list = None /\ list' = found
    /\ UNCHANGED <<files, settings, watcher, heard, saving, unsaved, durable, missed, edits>>

\* create_dir_all, the truncation of File::create and the write of fs::write.
CreateDirectory ==
  /\ saving = "mkdir" /\ saving' = "truncate" /\ dir' = TRUE
  /\ UNCHANGED <<homeFile, draft, listFile, events, unread, unsaved, durable>>

TruncateList ==
  /\ saving = "truncate" /\ saving' = "write"
  /\ listFile' = Torn /\ Notify(WriteEvent(listFile))
  /\ durable' = {}
  /\ UNCHANGED <<dir, homeFile, draft, unread, unsaved>>

Data == list

WriteList ==
  /\ saving = "write" /\ saving' = "no"
  /\ listFile' = Data /\ Notify("Modify")
  /\ durable' = list /\ unread' = FALSE /\ unsaved' = FALSE
  /\ UNCHANGED <<dir, homeFile, draft>>

Save ==
  /\ CreateDirectory \/ TruncateList \/ WriteList
  /\ UNCHANGED <<settings, watch, heard, list, missed, edits, faults>>

\* Any of the three fails: the result is ignored.
SaveFails ==
  /\ saving # "no" /\ saving' = "no"
  /\ Faulty /\ unsaved' = TRUE
  /\ UNCHANGED <<files, settings, watcher, heard, list, unread, durable, missed, edits>>

-----------------------------------------------------------------------------
Crash ==
  /\ Faulty
  /\ path' = None /\ config' = None /\ lock' = None
  /\ at' = AtBoot /\ dark' = DarkAtBoot
  /\ watch' = "starting" /\ events' = <<>> /\ dialog' = None
  /\ reply' = None
  /\ list' = None /\ saving' = "no" /\ unread' = FALSE /\ unsaved' = FALSE
  /\ missed' = FALSE
  /\ UNCHANGED <<files, client, durable, edits>>

Update(t) == BeginUpdate(t) \/ AnnounceSettings(t) \/ TellDialog(t)

Next ==
  \/ \E c \in Config : StartWriting(c) \/ RenameOver(c)
  \/ FinishWriting \/ RemoveFile \/ MakeDirectory
  \/ \E t \in Task : Update(t)
  \/ ReadAll \/ SendReply
  \/ StartWatch \/ TakeEvent
  \/ \E g \in Grant : AddToWhitelist(g)
  \/ CheckWhitelist \/ Save \/ SaveFails
  \/ Crash

\* Tasks that can run are run.  The user, the clients, faults and grants owe
\* nothing.
Spec == Init /\ [][Next]_vars
FairSpec ==
  /\ Spec
  /\ \A t \in Task : WF_vars(Update(t))
  /\ WF_vars(StartWatch) /\ WF_vars(TakeEvent) /\ WF_vars(Save)

-----------------------------------------------------------------------------
(* Properties *)

\* Whenever the settings can be read, the dialog and every client that has
\* read them know what they are: an update announces what it read before the
\* next one reads, though start-up and watcher update at the same time.  But for
\* a client whose reply was overtaken by a newer announcement: it keeps what the
\* reply said until the next one.
HeardIsCurrent ==
  lock = None /\ at["start-up"] = "idle" =>
    dialog = config /\ client \in {None, Stale, config}

\* The watch works, on the directory of the file that is read.
Watched == watch = "watching" /\ path = "home" /\ ~missed

InStep == homeFile # None => config = Content(homeFile)

\* An edit is picked up and told to everyone without being asked.
ReloadCatchesUp ==
  <>[](Watched => InStep /\ dialog = config /\ client \in {None, Stale, config})

\* README.md: the configuration file is hot-reloaded.
HotReloaded == <>[](homeFile \in Config => config = homeFile)

\* A grant that a completed write has put into the file is never forgotten,
\* neither by the next write, which writes the whole list, nor by a restart.  Two
\* faults are excepted: a crash or a failed write while the file is truncated, and
\* a file that cannot be read when the list is loaded: the list is empty then, and
\* the next grant is written over those that the file still has.
GrantsSurvive == list # None /\ ~unread => durable \subseteq list

\* Whenever no save is in progress the file holds the list, unless the last
\* save failed; the next that succeeds makes up for it.
FileHoldsGrants ==
  saving = "no" /\ ~unsaved /\ list # None /\ list # {} => listFile = list
=============================================================================
