------------------------------- MODULE MCParts --------------------------------
(***************************************************************************)
(* The modules with safety properties alone, which share no variable: a    *)
(* behaviour exercises one of them and leaves the others in an initial     *)
(* state, so that their states add up instead of multiplying.              *)
(***************************************************************************)
EXTENDS FaceJudge, Gallery, CredentialStore, Wizard, Setup,
  PipeCall, ConfigFile, ReplyParser, Custody, Traces

CONSTANTS service, passwordWindow, watchdog

VARIABLE part  \* the one this behaviour exercises

MCUsers == {service, passwordWindow}
MCWriters == {passwordWindow}

Sight(face, screen, shut, light) ==
  [face |-> face, screen |-> screen, shut |-> shut, light |-> light]

\* Bursts: near, far and flagged faces, open and shut eyes, in every light.
MCSights ==
  {Sight(0, "no", FALSE, 3), Sight(0, "no", TRUE, 3), Sight(1, "no", FALSE, 3),
   Sight(0, "yes", FALSE, 3), Sight(2, "unusable", FALSE, 2),
   Sight(3, "no", FALSE, 2), Sight(0, "no", FALSE, 0), Sight(3, "no", FALSE, 1),
   Sight(0, "no", TRUE, 2)}

Turn(owner, screen, shut, pitch, yaw) ==
  [owner |-> owner, screen |-> screen, shut |-> shut, pitch |-> pitch, yaw |-> yaw]

\* Rounds: the enrolled face, its picture on a screen and someone else, each
\* with every gesture.
MCTurns ==
  {Turn(TRUE, FALSE, shut, 0, 0) : shut \in BOOLEAN}
    \cup {Turn(owner, screen, FALSE, 0, yaw) :
            owner \in BOOLEAN, screen \in BOOLEAN, yaw \in {-3, 3}}
    \cup {Turn(owner, FALSE, FALSE, -2, 0) : owner \in BOOLEAN}
    \cup {Turn(FALSE, FALSE, TRUE, 0, 0)}

MCJudgeConfigs ==
  {[paranoid |-> FALSE, onDoubt |-> TRUE, boost |-> TRUE, persistent |-> TRUE],
   [paranoid |-> FALSE, onDoubt |-> FALSE, boost |-> TRUE, persistent |-> FALSE],
   [paranoid |-> TRUE, onDoubt |-> TRUE, boost |-> FALSE, persistent |-> FALSE]}

\* Texts up to two characters of every kind, and every meeting of three halves.
Letters == {"a", "quote", "backslash", "newline", "nul", "accent", "high", "low", "astral"}
MCWords ==
  {<<>>} \cup {<<c>> : c \in Letters} \cup {<<c, d>> : c \in Letters, d \in Letters}
    \cup {<<c, d, e>> : c \in {"a", "high", "low"}, d \in {"high", "low"},
                       e \in {"accent", "high", "low"}}
MCAccounts == {<<>>, <<"a">>, <<"a", "nul">>}
MCReply == CHOOSE r \in Replies : r.kind = "refusal"

\* The data directory: settings and their next version, photos, a secret.
MCTree == [root |-> <<"config.toml", "config.toml.tmp", "credentials.bin", "enroll">>,
           enroll |-> <<"photo">>]
MCTemporary == [p \in {"config.toml"} |-> "config.toml.tmp"]
Entry(k, ours, acl) == [kind |-> k, ours |-> ours, acl |-> acl]
Nil == Entry("none", TRUE, "own")
\* A new one, one as the service leaves it but for its settings' next version,
\* an old one open to others, and the same with an entry not to be changed.
MCNew == [p \in {"root", "config.toml", "config.toml.tmp", "credentials.bin",
                 "enroll", "photo"} |-> Nil]
MCKept == [MCNew EXCEPT !["root"] = Entry("dir", TRUE, "sealed"),
  !["config.toml"] = Entry("file", TRUE, "inherited"),
  !["config.toml.tmp"] = Entry("file", TRUE, "own"),
  !["credentials.bin"] = Entry("file", TRUE, "locked")]
MCOld == [MCNew EXCEPT !["root"] = Entry("dir", TRUE, "foreign"),
  !["credentials.bin"] = Entry("file", TRUE, "null"),
  !["enroll"] = Entry("dir", TRUE, "foreign"),
  !["photo"] = Entry("file", TRUE, "foreign")]
MCTrees == {MCNew, MCKept, MCOld, [MCOld EXCEPT !["photo"].kind = "twin"],
  [MCOld EXCEPT !["enroll"].kind = "link", !["photo"] = Nil],
  [MCOld EXCEPT !["config.toml"] = Entry("file", FALSE, "foreign")],
  [MCNew EXCEPT !["root"] = Entry("link", TRUE, "own")]}

WizardParts == {"lease", "session"}
Parts == {"gallery", "credentials", "judge", "setup", "call", "config", "reply",
          "custody", "audit", "dumps"} \cup WizardParts

\* Only the part exercised has a choice of initial states.  (Bound: a task that is no
\* longer declared is Setup's.)
Init ==
  /\ part \in Parts
  /\ GalleryInit
  /\ part # "gallery" => on
  /\ CredInit
  /\ part # "credentials" => creds = NoFile
  /\ JudgeInit
  /\ part # "judge" => asked = CHOOSE c \in JudgeConfigs : TRUE
  /\ WizardInit
  /\ part \notin WizardParts => enrolled
  /\ SetupInit
  /\ part # "setup" => tasks = {} /\ layout = "Installed"
  /\ orphan => part = "setup" /\ layout = "Installed"
  /\ PipeCallInit
  /\ part # "call" => caller = "cp" /\ holder = "nobody"
  /\ ConfigFileInit
  /\ part # "config" => file = Absent
  /\ part = "reply" \/ (part # "reply" /\ sent = MCReply)
  /\ ReplyInit
  /\ CustodyInit
  /\ part # "custody" => disk = MCNew
  /\ AuditInit
  /\ part # "audit" => limit = 0
  /\ DumpsInit

\* Bounds: a wizard's session is followed, until the window is closed, neither
\* beyond a directory it could not empty nor beyond a wipe that reset a replace; and
\* no further once a wipe ended during a build, the line shows the advice of a frame
\* caught by a build, a wipe left embeddings without photographs, or the window went
\* without its camera thread.
Followed ==
  /\ ~crossed /\ line # "late" /\ (embedded => enrolled)
  /\ stuck \/ forsaken => window # "open"
  /\ ~(window = "gone" /\ lapsed)

\* Bounds: a lease is followed until a replace is chosen; one task at a time is not stopped without anybody's notice; the settings
\* are not followed once one is lost for a reason that is named.
Exercised ==
  \/ part = "gallery" /\ GalleryNext
  \/ part = "credentials" /\ CredNext
  \/ part = "judge" /\ JudgeNext
  \/ part = "lease" /\ mode # "replace" /\ LeaseNext
  \/ part = "session" /\ Followed /\ SessionNext
  \/ part = "setup" /\ (\A t, u \in unstopped : t = u) /\ SetupNext
  \/ part = "call" /\ PipeCallNext
  \/ part = "config" /\ excused = {} /\ ConfigFileNext
  \/ part = "reply" /\ ReplyNext
  \/ part = "custody" /\ CustodyNext
  \/ part = "audit" /\ AuditNext
  \/ part = "dumps" /\ DumpsNext

Next ==
  /\ UNCHANGED part
  /\ part = "gallery" \/ (part # "gallery" /\ UNCHANGED galleryVars)
  /\ part = "credentials" \/ (part # "credentials" /\ UNCHANGED credVars)
  /\ part = "judge" \/ (part # "judge" /\ UNCHANGED judgeVars)
  /\ part \in WizardParts \/ (part \notin WizardParts /\ UNCHANGED wizardVars)
  /\ part = "setup" \/ (part # "setup" /\ UNCHANGED setupVars)
  /\ part = "call" \/ (part # "call" /\ UNCHANGED callVars)
  /\ part = "config" \/ (part # "config" /\ UNCHANGED configVars)
  /\ part = "reply" \/ (part # "reply" /\ UNCHANGED replyVars)
  /\ part = "custody" \/ (part # "custody" /\ UNCHANGED custodyVars)
  /\ part = "audit" \/ (part # "audit" /\ UNCHANGED auditVars)
  /\ part = "dumps" \/ (part # "dumps" /\ UNCHANGED dumpVars)
  /\ Exercised

Spec == Init /\ [][Next]_<<part, galleryVars, credVars, judgeVars, wizardVars,
                        setupVars, callVars, configVars, replyVars, custodyVars,
                        auditVars, dumpVars>>
=============================================================================
