---------------------------- MODULE SettingsPage ----------------------------
(***************************************************************************)
(* The settings page.  Row 1 is the organisation's platform settings, row  *)
(* 2 one of its users; the last row stands for the user the page invents   *)
(* when a load fails.  The platform form is always open and follows every  *)
(* load; a user is changed by a menu in the list, without a flag that      *)
(* keeps two changes apart.  readOnly is "not an administrator": the page  *)
(* looks the role up once, and the backend lets only administrators write. *)
(***************************************************************************)
EXTENDS Screen

Platform == 1
Member == 2
LocalUser == MaxRows

SettingsRows ==
    [r \in Rows |-> CASE r = Platform -> Row("live", 0, "stored")
                      [] r = Member -> Row("live", 0, "active")
                      [] OTHER -> Row("absent", 0, "active")]

\* fallbackSettings: what the build knows, and one local user.
FallbackRows ==
    [r \in Rows |-> CASE r = Platform -> Row("live", 0, "fallback")
                      [] r = LocalUser -> Row("live", 0, "active")
                      [] OTHER -> Row("absent", 0, "active")]

\* The page shows nothing until a first load has ended.
ThemeControls == {c \in {"type", "save"} : ~ui.readOnly /\ (c = "save" => ~ui.submitting)}
PlatformControls == ThemeControls
UserControls == {c \in {"user"} : ~ui.readOnly}

SettingsControls ==
    IF ui.form = NoForm THEN {}
    ELSE {"refresh"} \cup PlatformControls \cup ThemeControls \cup UserControls

SettingsMount == Mounted("settings", SettingsRows, NoFilter)

SettingsRefresh == "refresh" \in SettingsControls /\ Refresh

UpdatePlatformField ==
    /\ "type" \in SettingsControls
    /\ ui' = [ui EXCEPT !.form.tag = "typed"]
    /\ Still

SavePlatform ==
    /\ "save" \in SettingsControls
    /\ Submit(Call("platform", Platform, ui.form, "save"))

UserMenu == {"active", "suspended"}

UpdateUser ==
    /\ "user" \in SettingsControls
    /\ \E r \in Rows \ {Platform}, status \in UserMenu :
        LET shown == ui.list.rows[r]
        IN  /\ Live(ui.list.rows, r)
            /\ status # shown.tag
            /\ ui' = [ui EXCEPT !.error = FALSE]
            /\ Send(Call("user", r, Form(r, 0, shown.tag, status), "act"))

SettingsUser ==
    \/ SettingsRefresh
    \/ UpdatePlatformField
    \/ SavePlatform
    \/ UpdateUser

-----------------------------------------------------------------------------
(* The answers *)

PlatformForm(rows) == Form(Platform, 0, rows[Platform].tag, rows[Platform].tag)

\* Mutant: the fallback is shown as if it had been loaded.
LoadedSilently(i) ==
    IF calls[i].state = "ok"
    THEN [ui EXCEPT !.list = Listed(i), !.form = PlatformForm(calls[i].got)]
    ELSE [ui EXCEPT !.list.rows = FallbackRows, !.form = PlatformForm(FallbackRows)]

\* A failed load is shown as the fallback under an error.
LoadedSettings(i) ==
    IF calls[i].state = "ok"
    THEN [ui EXCEPT !.list = Listed(i), !.form = PlatformForm(calls[i].got)]
    ELSE [ui EXCEPT !.list.rows = FallbackRows, !.form = PlatformForm(FallbackRows),
                    !.error = TRUE]

SettingsArrive(i) ==
    /\ calls[i].op = "list"
    /\ ui' = [LoadedSettings(i) EXCEPT !.loading = FALSE]
    /\ calls' = RemoveAt(Overtaken(i), i)
    /\ Done

\* The answer replaces the form, whatever was typed since, and the row.
PlatformSaved(i) ==
    /\ calls[i].op = "platform"
    /\ calls[i].state = "ok"
    /\ LET tag == calls[i].body.tag
       IN  ui' = [ui EXCEPT !.form = Form(Platform, 0, tag, tag),
                            !.list.rows[Platform].tag = tag,
                            !.submitting = FALSE]
    /\ calls' = RemoveAt(Overtaken(Len(calls) + 1), i)
    /\ Done

\* The answer replaces the row of that user, if the list still has it.
UserUpdated(i) ==
    /\ calls[i].op = "user"
    /\ calls[i].state = "ok"
    /\ LET r == calls[i].row
       IN  ui' = IF Live(ui.list.rows, r)
                 THEN [ui EXCEPT !.list.rows[r].tag = calls[i].body.tag]
                 ELSE ui
    /\ calls' = RemoveAt(Overtaken(Len(calls) + 1), i)
    /\ Done

SettingsAnswer(i) ==
    /\ Answered(i)
    /\ \/ SettingsArrive(i)
       \/ PlatformSaved(i)
       \/ UserUpdated(i)
       \/ calls[i].op = "platform" /\ SaveFails(i)
       \/ calls[i].op = "user" /\ ActFails(i)

-----------------------------------------------------------------------------
(* The backend: an update of the whole settings row, or of one user.  The *)
(* invented user is unknown there. *)

ServeSetting(i) ==
    /\ Served(i)
    /\ calls[i].op \in {"platform", "user"}
    /\ Live(db, calls[i].row)
    /\ ServeWrite(i, Tagged(calls[i].row, calls[i].body.tag))

\* Another administrator saves the settings.
AdministratorSaves == OtherWrite(Platform, "typed")

-----------------------------------------------------------------------------
\* At rest, without an error, the platform form that nobody typed into holds
\* what the backend stores, although a failed load fills it with values of
\* the build that the next save would store: the fallback is never shown
\* without its error, and a saved fallback is no fallback any more.
\* Three cases are not spoken of: a load that was in flight when a save or a
\* later load was answered ("late": a refresh executed before a save and
\* answered after it puts the old values back, without an error, and the next
\* save stores them), a save whose answer was lost, and another administrator's
\* save (both untold).
ShownSettingsAreStored ==
    page = "settings" /\ calls = <<>> /\ ~ui.error /\ ~untold
        /\ ui.list.kind # "late" /\ ui.form.tag = ui.form.base =>
            ui.form.tag = db[Platform].tag
=============================================================================
