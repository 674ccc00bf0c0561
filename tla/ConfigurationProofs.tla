------------------------ MODULE ConfigurationProofs ------------------------
(***************************************************************************)
(* Theorems about Configuration: who has heard of which settings, and what *)
(* becomes of a grant, for any number of edits, crashes, failed writes,    *)
(* contents and applications.                                              *)
(***************************************************************************)
EXTENDS Configuration, TLAPS

-----------------------------------------------------------------------------
(***************************************************************************)
(* The settings.  A task that has begun its update holds the mutex, and    *)
(* what it is going to tell is what is in there.  A reply on its way is    *)
(* that too, until others are announced.                                   *)
(***************************************************************************)
Busy(t) == at[t] \in {"announce", "tell"}

SettingsType ==
  /\ homeFile \in Config \cup {None, Torn}
  /\ path \in {None, "home", "etc"} /\ config \in Config \cup {None}
  /\ lock \in Task \cup {None}
  /\ at \in [Task -> {"idle", "lock", "announce", "tell"}]
  /\ dark \in [Task -> Config \cup {None}]
  /\ client \in Config \cup {None, Stale} /\ reply \in Config \cup {None, Stale}

\* The settings have been read again, and are about to be announced.
Renewed == \E t \in Task : lock = t /\ at[t] = "announce"

SettingsInv ==
  /\ SettingsType
  /\ \A t \in Task : Busy(t) <=> lock = t
  /\ \A t \in Task : lock = t => config # None /\ dark[t] = config
  /\ \A t \in Task : at[t] = "tell" => client \in {None, Stale, config}
  /\ reply \in {None, Stale, config} \/ Renewed
  /\ config = None => at["start-up"] # "idle"
  /\ HeardIsCurrent

LEMMA NotNone ==
  /\ None \notin Config /\ None \notin Task /\ Torn \notin Config
  /\ Stale \notin Config /\ Stale # None
BY ConfigAssumption DEF ConfigAssumption

\* What is read from any file is a configuration.
LEMMA LoadType ==
  ASSUME SettingsType, Load
  PROVE  path' \in {"home", "etc"} /\ config' \in Config
<1>1. path' \in {"home", "etc"}
  BY DEF Load, PathAt, SettingsType
<1>2. config' \in Config
  BY ConfigAssumption DEF Load, ConfigFromFile, Content, ConfigAssumption
<1> QED BY <1>1, <1>2

LEMMA BeginUpdateSettings ==
  ASSUME SettingsInv, NEW t \in Task, BeginUpdate(t)
  PROVE  SettingsInv'
<1>1. /\ at[t] = "lock" /\ lock = None /\ lock' = t
      /\ at' = [at EXCEPT ![t] = "announce"] /\ dark' = [dark EXCEPT ![t] = config']
      /\ UNCHANGED <<homeFile, client, reply>>
  BY DEF BeginUpdate, Goto, files, heard
<1>2. path' \in {"home", "etc"} /\ config' \in Config
  BY LoadType DEF BeginUpdate, SettingsInv
<1>3. SettingsType'
  BY <1>1, <1>2 DEF SettingsInv, SettingsType
<1>4. /\ at'[t] = "announce" /\ dark'[t] = config' /\ config' # None
      /\ \A u \in Task : u # t => at'[u] = at[u] /\ ~Busy(u)
  BY <1>1, <1>2, NotNone DEF SettingsInv, SettingsType
<1>5. HeardIsCurrent' /\ Renewed'
  BY <1>1, <1>4, NotNone DEF HeardIsCurrent, Renewed
<1> QED BY <1>1, <1>3, <1>4, <1>5 DEF SettingsInv, Busy

LEMMA AnnounceSettingsStep ==
  ASSUME SettingsInv, NEW t \in Task, AnnounceSettings(t)
  PROVE  SettingsInv'
<1>1. /\ at[t] = "announce" /\ at' = [at EXCEPT ![t] = "tell"]
      /\ client' = (IF client = None THEN None ELSE config)
      /\ reply' = (IF reply = None THEN None ELSE Stale)
      /\ UNCHANGED <<homeFile, path, config, dark, lock, dialog>>
  BY DEF AnnounceSettings, Goto, Hear, LockHeld, files
<1>2. lock = t
  BY <1>1 DEF SettingsInv, Busy
<1>3. SettingsType'
  BY <1>1 DEF SettingsInv, SettingsType
<1>4. at'[t] = "tell" /\ \A u \in Task : u # t => at'[u] = at[u] /\ ~Busy(u)
  BY <1>1, <1>2 DEF SettingsInv, SettingsType
<1>5. HeardIsCurrent'
  BY <1>1, <1>2, NotNone DEF HeardIsCurrent
<1> QED BY <1>1, <1>2, <1>3, <1>4, <1>5 DEF SettingsInv, Busy

LEMMA TellDialogStep ==
  ASSUME SettingsInv, NEW t \in Task, TellDialog(t)
  PROVE  SettingsInv'
<1>1. /\ at[t] = "tell" /\ at' = [at EXCEPT ![t] = "idle"]
      /\ dialog' = dark[t] /\ dark' = [dark EXCEPT ![t] = None] /\ lock' = None
      /\ UNCHANGED <<homeFile, path, config, client, reply>>
  BY DEF TellDialog, Goto, files
<1>2. /\ lock = t /\ config # None /\ dark[t] = config
      /\ client \in {None, Stale, config} /\ reply \in {None, Stale, config}
  BY <1>1 DEF SettingsInv, Busy, Renewed
<1>3. SettingsType'
  BY <1>1 DEF SettingsInv, SettingsType
<1>4. at'[t] = "idle" /\ \A u \in Task : u # t => at'[u] = at[u] /\ ~Busy(u)
  BY <1>1, <1>2 DEF SettingsInv, SettingsType
<1>5. \A u \in Task : ~Busy(u)' /\ lock' # u
  BY <1>1, <1>4, NotNone DEF Busy
<1>6. HeardIsCurrent'
  BY <1>1, <1>2 DEF HeardIsCurrent
<1> QED BY <1>1, <1>2, <1>3, <1>5, <1>6 DEF SettingsInv, Busy

LEMMA ReadAllStep == ASSUME SettingsInv, ReadAll PROVE SettingsInv'
<1>1. /\ lock = None /\ reply' = config'
      /\ UNCHANGED <<homeFile, lock, at, dark, client, dialog>>
  BY DEF ReadAll, files
<1>2. \A t \in Task : ~Busy(t) /\ lock # t
  BY <1>1, NotNone DEF SettingsInv
<1>3. CASE config = None
  <2>1. path' \in {"home", "etc"} /\ config' \in Config
    BY <1>3, LoadType DEF ReadAll, SettingsInv
  <2>2. at["start-up"] # "idle"
    BY <1>3 DEF SettingsInv
  <2> QED BY <1>1, <1>2, <2>1, <2>2, NotNone DEF SettingsInv, SettingsType, Busy, HeardIsCurrent
<1>4. CASE config # None
  <2>1. UNCHANGED <<path, config>>
    BY <1>4 DEF ReadAll
  <2> QED BY <1>1, <1>2, <1>4, <2>1 DEF SettingsInv, SettingsType, Busy, HeardIsCurrent
<1> QED BY <1>3, <1>4

LEMMA SendReplyStep == ASSUME SettingsInv, SendReply PROVE SettingsInv'
<1>1. /\ reply' = None /\ client' = reply
      /\ UNCHANGED <<homeFile, path, config, lock, at, dark, dialog>>
  BY DEF SendReply, files, settings
<1>2. SettingsType'
  BY <1>1 DEF SettingsInv, SettingsType
<1>3. \A t \in Task : at[t] = "tell" => lock = t
  BY DEF SettingsInv, Busy
<1>4. \A t \in Task : at[t] = "tell" => client' \in {None, Stale, config}
  <2>1. SUFFICES ASSUME NEW t \in Task, at[t] = "tell" PROVE ~Renewed
    BY <1>1 DEF SettingsInv
  <2> QED BY <1>3, <2>1 DEF Renewed
<1>5. HeardIsCurrent'
  <2>1. lock = None => ~Renewed
    BY NotNone DEF Renewed
  <2> QED BY <1>1, <2>1 DEF SettingsInv, HeardIsCurrent
<1> QED BY <1>1, <1>2, <1>4, <1>5 DEF SettingsInv, Busy

LEMMA TakeEventStep == ASSUME SettingsInv, TakeEvent PROVE SettingsInv'
<1>1. /\ UNCHANGED <<homeFile, path, config, lock, dark, client, reply, dialog>>
      /\ at["watcher"] = "idle"
      /\ at' = at \/ at' = [at EXCEPT !["watcher"] = "lock"]
  BY DEF TakeEvent, Goto, files, heard
<1>2. at' \in [Task -> {"idle", "lock", "announce", "tell"}]
  BY <1>1 DEF SettingsInv, SettingsType
<1>3. /\ at'["start-up"] = at["start-up"]
      /\ \A t \in Task : at'[t] = at[t] \/ ({at[t], at'[t]} \cap {"announce", "tell"} = {})
  BY <1>1 DEF SettingsInv, SettingsType, Task
<1>4. /\ \A t \in Task : (Busy(t)' <=> Busy(t)) /\ (at'[t] = "tell" => at[t] = "tell")
      /\ Renewed => Renewed'
  BY <1>1, <1>3 DEF Busy, Renewed
<1>5. HeardIsCurrent'
  BY <1>1, <1>3 DEF SettingsInv, HeardIsCurrent
<1> QED BY <1>1, <1>2, <1>3, <1>4, <1>5 DEF SettingsInv, SettingsType

LEMMA CrashSettings == ASSUME SettingsInv, Crash PROVE SettingsInv'
<1>1. /\ path' = None /\ config' = None /\ lock' = None
      /\ at' = AtBoot /\ dark' = DarkAtBoot
      /\ homeFile' = homeFile /\ client' = client /\ reply' = None
  BY DEF Crash, files
<1>2. /\ at' \in [Task -> {"idle", "lock", "announce", "tell"}]
      /\ at'["start-up"] = "lock" /\ \A t \in Task : at'[t] \in {"lock", "idle"}
  BY <1>1 DEF AtBoot, Task
<1>3. SettingsType'
  BY <1>1, <1>2 DEF SettingsInv, SettingsType, DarkAtBoot
<1> QED BY <1>1, <1>2, <1>3, NotNone DEF SettingsInv, Busy, HeardIsCurrent

\* The user's edits and the white list do not touch the settings.
LEMMA OtherSettings ==
  ASSUME SettingsInv, UNCHANGED <<settings, heard>>,
         homeFile' \in Config \cup {None, Torn}
  PROVE  SettingsInv'
<1>1. UNCHANGED <<path, config, lock, at, dark, client, reply, dialog>>
  BY DEF settings, heard
<1> QED BY <1>1 DEF SettingsInv, SettingsType, Busy, Renewed, HeardIsCurrent

-----------------------------------------------------------------------------
(***************************************************************************)
(* The white list.  A save in progress has a list to write, and what has   *)
(* been written is still in the file, and in the list if that was read.    *)
(***************************************************************************)
GrantsInv ==
  /\ listFile \in {None, Torn} \/ listFile \subseteq Grant
  /\ list = None \/ list \subseteq Grant
  /\ saving # "no" => list # None
  /\ list = None => unread = FALSE
  /\ durable \subseteq ListFromFile
  /\ GrantsSurvive
  /\ FileHoldsGrants

LEMMA SetsOfGrants == \A S \in SUBSET Grant : S # None /\ S # Torn
BY ConfigAssumption DEF ConfigAssumption

LEMMA LoadedType ==
  ASSUME GrantsInv, NEW found, Use(found)
  PROVE  found \subseteq Grant /\ (unread' \/ durable \subseteq found)
BY DEF GrantsInv, Use, Loaded, ListFromFile, GrantsSurvive

LEMMA AddGrants ==
  ASSUME GrantsInv, NEW g \in Grant, AddToWhitelist(g)
  PROVE  GrantsInv'
<1>1. PICK found \in {Loaded, {}} : Use(found) /\ list' = found \cup {g}
  BY DEF AddToWhitelist
<1>2. saving' = "mkdir" /\ UNCHANGED <<listFile, durable>>
  BY DEF AddToWhitelist, files
<1>3. list' \subseteq Grant /\ (unread' \/ durable \subseteq list') /\ list' # None
  BY <1>1, LoadedType, SetsOfGrants
<1> QED BY <1>2, <1>3 DEF GrantsInv, ListFromFile, GrantsSurvive, FileHoldsGrants

LEMMA CheckGrants == ASSUME GrantsInv, CheckWhitelist PROVE GrantsInv'
<1>1. PICK found \in {Loaded, {}} : Use(found) /\ list' = found
  BY DEF CheckWhitelist
<1>2. list = None /\ saving = "no" /\ UNCHANGED <<listFile, saving, durable>>
  BY DEF CheckWhitelist, files
<1>3. list' \subseteq Grant /\ (unread' \/ durable \subseteq list') /\ list' # None
  BY <1>1, LoadedType, SetsOfGrants
<1>4. list' # {} => listFile = list'
  BY <1>1, <1>2 DEF Loaded, ListFromFile
<1> QED BY <1>2, <1>3, <1>4 DEF GrantsInv, ListFromFile, GrantsSurvive, FileHoldsGrants

LEMMA SaveGrants == ASSUME GrantsInv, Save PROVE GrantsInv'
<1>1. list' = list
  BY DEF Save
<1>2. CASE CreateDirectory
  BY <1>1, <1>2 DEF CreateDirectory, GrantsInv, ListFromFile, GrantsSurvive, FileHoldsGrants
<1>3. CASE TruncateList
  BY <1>1, <1>3 DEF TruncateList, GrantsInv, ListFromFile, GrantsSurvive, FileHoldsGrants
<1>4. CASE WriteList
  <2>1. /\ saving = "write" /\ saving' = "no" /\ listFile' = list /\ durable' = list
        /\ unread' = FALSE
    BY <1>4 DEF WriteList, Data
  <2>2. list \subseteq Grant /\ list # None /\ list # Torn
    BY <2>1, SetsOfGrants DEF GrantsInv
  <2> QED BY <1>1, <2>1, <2>2 DEF GrantsInv, ListFromFile, GrantsSurvive, FileHoldsGrants
<1> QED BY <1>2, <1>3, <1>4 DEF Save

LEMMA FailGrants == ASSUME GrantsInv, SaveFails PROVE GrantsInv'
BY DEF SaveFails, files, GrantsInv, ListFromFile, GrantsSurvive, FileHoldsGrants

LEMMA CrashGrants == ASSUME GrantsInv, Crash PROVE GrantsInv'
BY DEF Crash, files, GrantsInv, ListFromFile, GrantsSurvive, FileHoldsGrants

LEMMA OtherGrants ==
  ASSUME GrantsInv, UNCHANGED <<listFile, whitelist>>
  PROVE  GrantsInv'
BY DEF whitelist, GrantsInv, ListFromFile, GrantsSurvive, FileHoldsGrants

-----------------------------------------------------------------------------
Inv == SettingsInv /\ GrantsInv

\* What the user does to the files.
LEMMA EditStep ==
  ASSUME Inv, NEW content \in Config \cup {None, Torn}, NEW e, Edit(content, e)
  PROVE  Inv'
<1>1. /\ homeFile' = content /\ UNCHANGED <<settings, heard>>
      /\ UNCHANGED <<listFile, whitelist>>
  BY DEF Edit
<1> QED BY <1>1, OtherSettings, OtherGrants DEF Inv

LEMMA FinishWritingStep ==
  ASSUME Inv, draft \in Config \cup {None}, FinishWriting
  PROVE  Inv'
BY EditStep DEF FinishWriting

\* An unfinished file has a content.
DraftInv == draft \in Config \cup {None}

LEMMA DraftStep == ASSUME DraftInv, [Next]_vars PROVE DraftInv'
<1>1. CASE UNCHANGED draft
  BY <1>1 DEF DraftInv
<1>2. ASSUME NEW c \in Config, StartWriting(c) \/ RenameOver(c) PROVE DraftInv'
  BY <1>2 DEF StartWriting, RenameOver, DraftInv
<1>3. CASE FinishWriting \/ RemoveFile
  BY <1>3 DEF FinishWriting, RemoveFile, DraftInv
<1>4. CASE MakeDirectory \/ ReadAll \/ SendReply \/ StartWatch \/ TakeEvent \/ CheckWhitelist
  BY <1>1, <1>4 DEF MakeDirectory, ReadAll, SendReply, StartWatch, TakeEvent, CheckWhitelist, files
<1>5. CASE Save \/ SaveFails \/ Crash
  BY <1>1, <1>5 DEF Save, CreateDirectory, TruncateList, WriteList, SaveFails, Crash, files
<1>6. ASSUME NEW t \in Task, Update(t) PROVE UNCHANGED draft
  BY <1>6 DEF Update, BeginUpdate, AnnounceSettings, TellDialog, files
<1>7. ASSUME NEW g \in Grant, AddToWhitelist(g) PROVE UNCHANGED draft
  BY <1>7 DEF AddToWhitelist, files
<1>8. CASE UNCHANGED vars
  BY <1>1, <1>8 DEF vars, files
<1> QED BY <1>1, <1>2, <1>3, <1>4, <1>5, <1>6, <1>7, <1>8 DEF Next

LEMMA InitInv == Init => Inv /\ DraftInv
<1> SUFFICES ASSUME Init PROVE Inv /\ DraftInv
  OBVIOUS
<1>1. /\ at["start-up"] = "lock" /\ \A t \in Task : at[t] \in {"lock", "idle"}
      /\ at \in [Task -> {"idle", "lock", "announce", "tell"}]
  BY DEF Init, AtBoot, Task
<1>2. SettingsInv
  BY <1>1, NotNone DEF Init, SettingsInv, SettingsType, Busy, HeardIsCurrent, DarkAtBoot
<1>3. GrantsInv
  BY SetsOfGrants DEF Init, GrantsInv, ListFromFile, GrantsSurvive, FileHoldsGrants
<1> QED BY <1>2, <1>3 DEF Inv, Init, DraftInv

LEMMA NextInv == ASSUME Inv, DraftInv, [Next]_vars PROVE Inv'
<1>1. ASSUME NEW c \in Config, StartWriting(c) \/ RenameOver(c) PROVE Inv'
  BY <1>1, EditStep DEF StartWriting, RenameOver
<1>2. CASE FinishWriting \/ RemoveFile
  BY <1>2, FinishWritingStep, EditStep DEF RemoveFile, DraftInv
<1>3. ASSUME NEW t \in Task, Update(t) PROVE Inv'
  <2>1. SettingsInv'
    BY <1>3, BeginUpdateSettings, AnnounceSettingsStep, TellDialogStep DEF Update, Inv
  <2>2. UNCHANGED <<listFile, whitelist>>
    BY <1>3 DEF Update, BeginUpdate, AnnounceSettings, TellDialog, files
  <2> QED BY <2>1, <2>2, OtherGrants DEF Inv
<1>4. CASE ReadAll \/ SendReply \/ TakeEvent
  <2>1. SettingsInv'
    BY <1>4, ReadAllStep, SendReplyStep, TakeEventStep DEF Inv
  <2>2. UNCHANGED <<listFile, whitelist>>
    BY <1>4 DEF ReadAll, SendReply, TakeEvent, files
  <2> QED BY <2>1, <2>2, OtherGrants DEF Inv
<1>5. CASE MakeDirectory \/ StartWatch
  <2>1. homeFile' = homeFile /\ UNCHANGED <<settings, heard>> /\ UNCHANGED <<listFile, whitelist>>
    BY <1>5 DEF MakeDirectory, StartWatch, files
  <2> QED BY <2>1, OtherSettings, OtherGrants DEF Inv, SettingsInv, SettingsType
<1>6. CASE CheckWhitelist \/ Save \/ SaveFails
  <2>1. GrantsInv'
    BY <1>6, CheckGrants, SaveGrants, FailGrants DEF Inv
  <2>2. homeFile' = homeFile /\ UNCHANGED <<settings, heard>>
    BY <1>6 DEF CheckWhitelist, Save, CreateDirectory, TruncateList, WriteList, SaveFails, files
  <2> QED BY <2>1, <2>2, OtherSettings DEF Inv, SettingsInv, SettingsType
<1>7. ASSUME NEW g \in Grant, AddToWhitelist(g) PROVE Inv'
  <2>1. homeFile' = homeFile /\ UNCHANGED <<settings, heard>>
    BY <1>7 DEF AddToWhitelist, files
  <2> QED BY <1>7, <2>1, AddGrants, OtherSettings DEF Inv, SettingsInv, SettingsType
<1>8. CASE Crash
  BY <1>8, CrashSettings, CrashGrants DEF Inv
<1>9. CASE UNCHANGED vars
  <2>1. homeFile' = homeFile /\ UNCHANGED <<settings, heard>> /\ UNCHANGED <<listFile, whitelist>>
    BY <1>9 DEF vars, files
  <2> QED BY <2>1, OtherSettings, OtherGrants DEF Inv, SettingsInv, SettingsType
<1> QED BY <1>1, <1>2, <1>3, <1>4, <1>5, <1>6, <1>7, <1>8, <1>9 DEF Next

\* The strengthening on which the three theorems rest is an invariant: what the
\* mutex of SETTING_CONFIG and the one of the white list protect between two
\* steps of their holders (update_settings, save_to_file).
THEOREM Invariance == Spec => [](Inv /\ DraftInv)
<1>1. Inv /\ DraftInv /\ [Next]_vars => (Inv /\ DraftInv)'
  BY NextInv, DraftStep
<1> QED BY <1>1, InitInv, PTL DEF Spec

\* update_settings tells the clients and the dialog the same settings, and the
\* latest, whoever runs it and whatever crashes; only a client whose reply was
\* overtaken by an announcement is left with older ones.
THEOREM EveryoneHearsTheSame == Spec => []HeardIsCurrent
<1>1. Inv => HeardIsCurrent
  BY DEF Inv, SettingsInv
<1> QED BY <1>1, Invariance, PTL

\* No write of the white list and no restart forgets a grant that the file has,
\* unless the file could not be read when the list was loaded.
THEOREM GrantsAreKept == Spec => []GrantsSurvive
<1>1. Inv => GrantsSurvive
  BY DEF Inv, GrantsInv
<1> QED BY <1>1, Invariance, PTL

\* The file lags behind the list only during a save or after one that failed.
THEOREM FileFollowsList == Spec => []FileHoldsGrants
<1>1. Inv => FileHoldsGrants
  BY DEF Inv, GrantsInv
<1> QED BY <1>1, Invariance, PTL
=============================================================================
