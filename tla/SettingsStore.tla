--------------------------- MODULE SettingsStore ----------------------------
(***************************************************************************)
(* Settings that are edited in the web UI (settings_store.py, the settings *)
(* page of web/routes/infra.py): the setting table, and the overrides that *)
(* the web server holds in memory (config.py).                             *)
(*                                                                         *)
(* Saving flushes, applies what was flushed, and leaves the commit to the  *)
(* end of the request.  Other requests load the table in between.  Only    *)
(* the web server calls load: the worker and a standalone MCP server run   *)
(* on the environment alone.                                               *)
(***************************************************************************)
CONSTANTS
    Flags,    \* settings that are check boxes
    Boxes,    \* settings that are text, numbers or a choice
    Menus,    \* those of them with a list of values: CHOICES
    Secrets,  \* those of them whose value is not rendered: SECRETISH
    Requests  \* requests of the web server

VARIABLES
    env,    \* what the environment says
    table,  \* the setting table, committed
    over,   \* _OVERRIDES of the web server
    page,   \* the form the settings page last rendered, or NoPage
    save,   \* each request that saves
    stray   \* history: over was left with what was not, or not yet, committed

settings == <<env, table, over, page, save, stray>>

Unset == "unset"
Blank == ""
NoPage == [k \in {} |-> Blank]
Keys == Flags \cup Boxes
Values(k) == IF k \in Flags THEN {"on", "off"} ELSE {"a", "b"}
Overrides == [Keys -> {Unset, "on", "off", "a", "b"}]

\* What a person can put into the field of k: another value, nothing, or (a typo, in
\* a choice) something that is on no list.
Raw(k) == Values(k) \cup (IF k \in Flags THEN {} ELSE {Blank})
                    \cup (IF k \in Menus THEN {"unknown"} ELSE {})

SaveBegun(changes, edited) ==
    [at |-> "loaded", changes |-> changes, before |-> table, writes |-> {}, edited |-> edited]
NoSave == [at |-> "idle", changes |-> {}, before |-> [k \in Keys |-> Unset], writes |-> {}, edited |-> ""]

\* get_settings: the overrides before the environment.
InForce(o) == [k \in Keys |-> IF o[k] # Unset THEN o[k] ELSE env[k]]

\* Writes are pairs of a key and what its row becomes.
Apply(o, writes) == [k \in Keys |-> IF \E v \in {Unset} \cup Values(k) : <<k, v>> \in writes
                                      THEN CHOOSE v \in {Unset} \cup Values(k) : <<k, v>> \in writes
                                      ELSE o[k]]

Flushed == {r \in Requests : save[r].at = "flushed"}

-----------------------------------------------------------------------------
SettingsInit ==
    /\ env \in [Keys -> {"on", "a"}] /\ \A k \in Keys : env[k] \in Values(k)
    /\ table = [k \in Keys |-> Unset]
    /\ over = table
    /\ page = NoPage
    /\ save = [r \in Requests |-> NoSave]
    /\ stray = FALSE

\* load: the overrides become what the table holds, other requests' flushes excepted.
Load == over' = table /\ stray' = (Flushed # {})

\* The settings page: it loads, and renders current_view, secrets left empty.
View ==
    /\ Load
    /\ page' = [k \in Keys |-> IF k \in Secrets THEN Blank ELSE InForce(table)[k]]
    /\ UNCHANGED <<env, table, save>>

\* coerce, and the first checks of save: what a form asks for.  A flag that the form
\* did not render is left alone, and so is a value that is on no list; a blank box
\* asks for no override.
Changes(form, present) ==
    {<<k, IF form[k] = Blank THEN Unset ELSE form[k]>> :
        k \in {b \in DOMAIN form : form[b] # "unknown" /\ (b \in Flags => b \in present)}}

\* A person edits one field of the page and posts it, all fields with it.  (A number
\* that is none is refused before anything else, and changes nothing.)
PostPage(r) == \E k \in Keys : \E raw \in Raw(k) :
    /\ save[r].at = "idle" /\ page # NoPage
    /\ save' = [save EXCEPT ![r] = SaveBegun(Changes([page EXCEPT ![k] = raw], Keys), k)]
    /\ Load
    /\ UNCHANGED <<env, table, page>>

\* Somebody posts one box, and no list of the fields that were rendered.
PostBox(r) == \E k \in Boxes : \E raw \in Raw(k) :
    /\ save[r].at = "idle"
    /\ save' = [save EXCEPT ![r] = SaveBegun(Changes([b \in {k} |-> raw], {}), k)]
    /\ Load
    /\ UNCHANGED <<env, table, page>>

\* What save writes: a row goes when no override is asked for; it stays as it is
\* when it holds the value that was in force when the request began.
Writes(s) ==
    {w \in s.changes :
        LET k == w[1] IN
        IF w[2] = Unset THEN table[k] # Unset
        ELSE ~(InForce(s.before)[k] = w[2] /\ table[k] # Unset)}

\* A mutation: what was flushed is not loaded.
FlushOnly(r) ==
    /\ save[r].at = "loaded" /\ Flushed = {}
    /\ save' = [save EXCEPT ![r] = IF Writes(@) = {} THEN NoSave
                                   ELSE [@ EXCEPT !.at = "flushed", !.writes = Writes(save[r])]]
    /\ UNCHANGED <<env, table, over, page, stray>>

\* The flush takes the write lock of the database; then the request, which sees what
\* it flushed, loads once more.
Flush(r) ==
    /\ save[r].at = "loaded" /\ Flushed = {}
    /\ IF Writes(save[r]) = {}
         THEN save' = [save EXCEPT ![r] = NoSave] /\ UNCHANGED <<over, stray>>
         ELSE /\ save' = [save EXCEPT ![r].at = "flushed", ![r].writes = Writes(save[r])]
              /\ over' = Apply(table, Writes(save[r]))
              /\ stray' = FALSE
    /\ UNCHANGED <<env, table, page>>

\* The end of the request: get_db commits, or the commit fails and it rolls back.
Commit(r) ==
    /\ save[r].at = "flushed"
    /\ table' = Apply(table, save[r].writes)
    /\ save' = [save EXCEPT ![r] = NoSave]
    /\ UNCHANGED <<env, over, page, stray>>

Rollback(r) ==
    /\ save[r].at # "idle"
    /\ stray' = (stray \/ save[r].at = "flushed")
    /\ save' = [save EXCEPT ![r] = NoSave]
    /\ UNCHANGED <<env, table, over, page>>

\* The web server starts again: load in its lifespan, or, when that fails, nothing.
Restart ==
    /\ save' = [r \in Requests |-> NoSave]
    /\ page' = NoPage
    /\ \/ over' = table /\ stray' = FALSE
       \/ over' = [k \in Keys |-> Unset] /\ stray' = TRUE
    /\ UNCHANGED <<env, table>>

SettingsNext ==
    \/ View \/ Restart
    \/ \E r \in Requests : PostPage(r) \/ PostBox(r) \/ Flush(r) \/ Commit(r) \/ Rollback(r)

SettingsSpec == SettingsInit /\ [][SettingsNext]_settings

-----------------------------------------------------------------------------
SettingsTypeOK ==
    /\ table \in Overrides /\ over \in Overrides
    /\ page = NoPage \/ page \in [Keys -> {Blank, "on", "off", "a", "b"}]
    /\ \A r \in Requests : save[r].at \in {"idle", "loaded", "flushed"}
    /\ stray \in BOOLEAN

\* The web server runs on what is saved: on what is committed, and on what is about
\* to be while a save is between its flush and its commit.  Only a commit that failed,
\* a load that fell between a flush and its commit, and a failed load at the start
\* leave it with something else, and only until the next load.
InForceIsSaved ==
    stray \/ over = IF Flushed = {} THEN table
                    ELSE Apply(table, save[CHOOSE r \in Flushed : TRUE].writes)

(***************************************************************************)
(* What the documentation says and the code does not keep.                 *)
(***************************************************************************)
\* web/templates/settings.html:66, of a secret: "set, leave blank to keep".  A key
\* that is saved is changed by an edit of its own box, and by nothing else.
SecretsStay ==
    \A k \in Secrets : table[k] # Unset /\ table'[k] # table[k] =>
        \E r \in Flushed : save[r].edited = k
SecretIsKept == [][SecretsStay]_settings
=============================================================================
