------------------------------ MODULE ConfigFile ------------------------------
(***************************************************************************)
(* config.toml (face_service/config.py) and those who write it: the        *)
(* settings window of presence_monitor/gui.py and the language menu of     *)
(* tray.py, two threads of one process that share config.toml.tmp, and the *)
(* user's editor. Settings are told apart by how they can be changed.      *)
(***************************************************************************)
EXTENDS Naturals

CONSTANT MaxEdits   \* bound: edits by hand

ASSUME ConfigFileAssumption == MaxEdits \in Nat

\* The language, which window and menu change, and what the menu leaves alone, such
\* as paranoid mode.
Settings == [language : BOOLEAN, guarded : BOOLEAN]
Defaults == [language |-> FALSE, guarded |-> FALSE]
Names == {"language", "guarded"}

Savers == {"window", "menu"}

\* A file is absent, whole and valid, or not: by someone's hand, or by a save.
Whole(doc) == [kind |-> "whole", doc |-> doc]
Absent == [kind |-> "absent"]
Broken == [kind |-> "broken"]
Torn == [kind |-> "torn"]
Files == {Whole(s) : s \in Settings} \cup {Absent, Broken, Torn}

VARIABLES
  file,      \* config.toml
  spare,     \* config.toml.tmp
  saving,    \* where each save is
  draft,     \* what it is about to write
  shown,     \* what the window shows
  touched,   \* the settings changed in the window since it read the file
  edits,
  meant,     \* history: what the user has asked for
  mixed,     \* did the other thread write to config.toml.tmp since this one opened it?
  moved,     \* history: either file changed since this save read its settings
  excused    \* history: why file and meant may differ

configVars == <<file, spare, saving, draft, shown, touched, edits, meant, mixed, moved, excused>>
Other(w) == IF w = "window" THEN "menu" ELSE "window"
With(doc, changes, names) ==
  [n \in Names |-> IF n \in names THEN changes[n] ELSE doc[n]]
Disturb(w) == moved' = [moved EXCEPT ![Other(w)] = saving[Other(w)] # "idle"]

\* Config.load without strict: anything but a whole, valid, readable file is
\* answered with the defaults.
Loads(result) ==
  \/ file.kind = "whole" /\ result = file.doc
  \/ result = Defaults   \* also for a file that cannot be read this time
Misread(result) == file.kind # "absent" /\ file # Whole(result)

-----------------------------------------------------------------------------
(* The settings window *)

\* It opens, or Reload is pressed.
WindowReads ==
  /\ saving["window"] = "idle"
  /\ Loads(shown')
  /\ touched' = {}
  /\ UNCHANGED <<file, spare, saving, draft, edits, meant, mixed, moved, excused>>

WindowChanges ==
  /\ saving["window"] = "idle"
  /\ \E n \in Names :
       /\ shown' = [shown EXCEPT ![n] = ~shown[n]]
       /\ touched' = touched \cup {n}
  /\ UNCHANGED <<file, spare, saving, draft, edits, meant, mixed, moved, excused>>

\* What it does to the settings it has just loaded: every widget goes in,
\* whether the user touched it or not.
StartsSave(w, result, changes, names) ==
  /\ saving[w] = "idle"
  /\ saving' = [saving EXCEPT ![w] = "loaded"]
  /\ draft' = [draft EXCEPT ![w] = With(result, changes, names)]

WindowSaves ==
  \E result \in Settings :
    /\ Loads(result)
    /\ StartsSave("window", result, shown, Names)
    /\ excused' = (excused \cup (IF Misread(result) THEN {"misread"} ELSE {})
         \cup (IF \E n \in Names \ touched : shown[n] # result[n] THEN {"stale"} ELSE {}))
    /\ UNCHANGED <<file, spare, shown, touched, edits, meant, mixed, moved>>

\* A language is chosen from the menu.
MenuSaves ==
  \E result \in Settings, chosen \in BOOLEAN :
    /\ Loads(result)
    /\ StartsSave("menu", result, [language |-> chosen], {"language"})
    /\ excused' = (excused \cup (IF Misread(result) THEN {"misread"} ELSE {}))
    /\ UNCHANGED <<file, spare, shown, touched, edits, meant, mixed, moved>>

-----------------------------------------------------------------------------
(* save() *)

Reaches(w, where) ==
  /\ saving' = [saving EXCEPT ![w] = where]
  /\ draft' = IF where = "idle" THEN [draft EXCEPT ![w] = Defaults] ELSE draft

\* As before F-45: config.toml itself is emptied and written.
OpensInPlace(w) ==
  /\ saving[w] = "loaded" /\ Reaches(w, "open")
  /\ file' = Torn /\ spare' = Torn
  /\ Disturb(w)
  /\ UNCHANGED <<mixed, shown, touched, edits, meant, excused>>

\* write_text empties config.toml.tmp first; validation or the open may fail.
Opens(w) ==
  /\ saving[w] = "loaded"
  /\ \/ /\ Reaches(w, "idle") /\ moved' = [moved EXCEPT ![w] = FALSE]
        /\ UNCHANGED <<spare, mixed>>
     \/ /\ Reaches(w, "open") /\ Disturb(w)
        /\ spare' = Torn
        /\ mixed' = [v \in Savers |-> v # w /\ saving[v] = "open"]
  /\ UNCHANGED <<file, shown, touched, edits, meant, excused>>

\* Two texts of different lengths at the same offset do not make a whole one; a
\* full disk leaves a part of one.
Writes(w) ==
  /\ saving[w] = "open"
  /\ mixed' = [v \in Savers |-> v # w /\ saving[v] = "open"]
  /\ \/ /\ Reaches(w, "written") /\ Disturb(w)
        /\ spare' \in {Whole(draft[w])} \cup (IF mixed[w] THEN {Torn} ELSE {})
     \/ /\ Reaches(w, "idle") /\ spare' = Torn
        /\ moved' = [v \in Savers |-> v # w /\ saving[v] # "idle"]
  /\ UNCHANGED <<file, shown, touched, edits, meant, excused>>

\* os.replace fails while another has either file open, or when it is gone.
Replaces(w) ==
  /\ saving[w] = "written"
  /\ Reaches(w, "idle")
  /\ \/ /\ saving[Other(w)] # "open" /\ spare # Absent
        /\ file' = spare /\ spare' = Absent
        /\ meant' = With(meant, draft[w], IF w = "window" THEN touched ELSE {"language"})
        /\ touched' = IF w = "window" THEN {} ELSE touched
        /\ excused' = (excused \cup (IF moved[w] THEN {"overlap"} ELSE {}))
        /\ moved' = [v \in Savers |-> v # w /\ saving[v] # "idle"]
     \/ /\ moved' = [moved EXCEPT ![w] = FALSE]
        /\ UNCHANGED <<file, spare, meant, touched, excused>>
  /\ UNCHANGED <<mixed, shown, edits>>

\* The process ends wherever it is.  (Not a loss of power: save() does not flush,
\* and a rename may reach the disk before the text does.)
TrayDies ==
  /\ saving' = [w \in Savers |-> "idle"] /\ draft' = [w \in Savers |-> Defaults]
  /\ shown' = Defaults /\ touched' = {}
  /\ mixed' = [w \in Savers |-> FALSE] /\ moved' = mixed'
  /\ UNCHANGED <<file, spare, edits, meant, excused>>

\* Someone edits the file, perhaps so that it is no longer valid.
EditedByHand ==
  /\ edits < MaxEdits /\ edits' = edits + 1
  /\ \/ file' = Broken /\ UNCHANGED meant
     \/ \E doc \in Settings : file' = Whole(doc) /\ meant' = doc
  /\ moved' = [w \in Savers |-> saving[w] # "idle"]
  /\ UNCHANGED <<spare, saving, draft, shown, touched, mixed, excused>>

-----------------------------------------------------------------------------
ConfigFileInit ==
  /\ file \in {Absent, Whole(Defaults)} /\ spare = Absent
  /\ saving = [w \in Savers |-> "idle"] /\ draft = [w \in Savers |-> Defaults]
  /\ shown = Defaults /\ touched = {} /\ edits = 0
  /\ meant = Defaults /\ excused = {}
  /\ mixed = [w \in Savers |-> FALSE] /\ moved = [w \in Savers |-> FALSE]

ConfigFileNext ==
  \/ WindowReads \/ WindowChanges \/ WindowSaves \/ MenuSaves
  \/ \E w \in Savers : Opens(w) \/ Writes(w) \/ Replaces(w)
  \/ TrayDies \/ EditedByHand

ConfigFileSpec == ConfigFileInit /\ [][ConfigFileNext]_configVars

\* Everything in it has its type.
ConfigFileTypeOK ==
  /\ {file, spare} \subseteq Files /\ edits \in 0..MaxEdits
  /\ saving \in [Savers -> {"idle", "loaded", "open", "written"}]
  /\ draft \in [Savers -> Settings]
  /\ {shown, meant} \subseteq Settings /\ touched \subseteq Names
  /\ {mixed, moved} \subseteq [Savers -> BOOLEAN]
  /\ excused \subseteq {"misread", "stale", "overlap"}

\* What the user asked for is what config.toml says: saves that fail at any step, a
\* tray that dies in one and leftovers of earlier ones neither tear the file nor lose
\* a setting. What loses one is named: two saves at the same time, a window that
\* shows what the file no longer says, and a load that took a broken or unreadable
\* file for the defaults.
ConfigKept ==
  /\ file.kind = "torn" => "overlap" \in excused
  /\ file.kind = "whole" /\ excused = {} => file.doc = meant
  /\ file.kind = "absent" => meant = Defaults
=============================================================================
