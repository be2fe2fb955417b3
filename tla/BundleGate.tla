----------------------------- MODULE BundleGate ------------------------------
(***************************************************************************)
(* tools/verify_frozen_entrypoints.py: what the gate asks of a PyInstaller *)
(* bundle, pass by pass, beside what the bundle's EXEs need at run time.   *)
(* A bundle is what PyInstaller laid down; the interpreter that built it   *)
(* is given by the constants.                                              *)
(***************************************************************************)
EXTENDS FiniteSets

CONSTANTS
  Exes,         \* ENTRIES: the EXEs the spec builds
  serviceExe,   \* SERVICE_EXE, the one that runs recognition
  Targets,      \* [Exes -> names]: what each entry point imports by name
  Lazy,         \* PYWIN32_LAZY_IMPORTS
  Anchors,      \* mine 2: the scipy._external tree, and the reader of mine 3
  Objects,      \* mine 3: the data files insightface ships
  numpyExt, cyutility,  \* _multiarray_umath and scipy._cyutility, extensions
  \* the build interpreter
  Root,         \* [names -> roots]: the first part of a dotted name
  Ours,         \* roots of the project, of the stdlib and of PyInstaller
  Sources,      \* [names -> kinds of hit in the source in site-packages]
  Natives,      \* site-packages' other importable names: its extensions
  Embeds,       \* [extensions -> dotted names they hold]
  \* the review tables
  Exact,        \* REVIEWED, module by module: [names -> kinds]
  Wild,         \* REVIEWED's "pkg.*": [roots -> kinds]
  NativeReviewed

Required == UNION {Targets[x] : x \in Exes}  \* REQUIRED_MODULES
FrozenKinds == {"frozen", "_MEIPASS"}
Kinds == FrozenKinds \cup {"__import__", "import_module", "unparseable"}
Names == DOMAIN Root

ASSUME BundleGateAssumption ==
  /\ serviceExe \in Exes /\ DOMAIN Targets = Exes
  /\ Required \cup Lazy \cup Anchors \cup {numpyExt, cyutility} \subseteq Names
  /\ DOMAIN Embeds \subseteq Names /\ \A p \in DOMAIN Embeds : Embeds[p] \subseteq Names
  /\ DOMAIN Sources \subseteq Names /\ DOMAIN Exact \subseteq Names

\* The EXEs that can be read, each with its entry script, whether that has a
\* relative import, and the names in its archive; the extensions and the
\* sources on disk; the data files against the interpreter's; the BLAS
\* libraries, pywintypes*.dll and how the built service judges a directory.
ExeType == [own : BOOLEAN, relative : BOOLEAN, archive : SUBSET Names]
IsBundle(b) ==
  /\ DOMAIN b.exes \subseteq Exes /\ \A x \in DOMAIN b.exes : b.exes[x] \in ExeType
  /\ b.exts \subseteq DOMAIN Embeds
  /\ DOMAIN b.shipped \subseteq Names
  /\ DOMAIN b.objects \subseteq Objects
  /\ b.numpySame \in BOOLEAN /\ b.libs \in BOOLEAN /\ b.pywintypes \in BOOLEAN

Built(b) == DOMAIN b.exes = Exes
Archived(b) == UNION {b.exes[x].archive : x \in DOMAIN b.exes}
Known(b) == Archived(b) \cup b.exts \cup DOMAIN b.shipped
Vendor(n) == Root[n] \notin Ours
Installed(n) == n \in DOMAIN Sources \cup Natives

-----------------------------------------------------------------------------
(* The passes *)

PassFrozen(b) ==
  Built(b) /\ \A x \in Exes : ~b.exes[x].relative /\ b.exes[x].own

PassPyz(b) ==
  /\ Built(b) /\ \A x \in Exes : b.exes[x].archive # {}
  /\ Required \subseteq Archived(b)

\* The modules that exist among the names numpy's extension holds.
NumpyImports ==
  {n \in Embeds[numpyExt] : n # numpyExt /\ Root[n] = Root[numpyExt] /\ n \in DOMAIN Sources}
PassNative(b) ==
  numpyExt \in b.exts /\ b.numpySame /\ b.libs /\ NumpyImports \subseteq Archived(b)

PassMines(b) ==
  /\ cyutility \in b.exts
  /\ serviceExe \in DOMAIN b.exes
  /\ Anchors \subseteq b.exes[serviceExe].archive
  /\ \A x \in DOMAIN b.exes :
       (\E n \in b.exes[x].archive : Root[n] = Root[cyutility]) => Anchors \subseteq b.exes[x].archive
  /\ \A o \in Objects : o \in DOMAIN b.objects /\ b.objects[o] = "same"

\* 6a: every name an extension holds that is a module of site-packages.
NamedNatively(b) ==
  {n \in UNION {Embeds[p] : p \in b.exts} : Vendor(n) /\ Installed(n)}
ReviewedKinds(n) ==
  (IF n \in DOMAIN Exact THEN Exact[n] ELSE {})
    \cup (IF Root[n] \in DOMAIN Wild THEN Wild[Root[n]] ELSE {})
\* 6b: the copy that ships is the one that is read.
Hits(b, n) ==
  IF n \in DOMAIN b.shipped THEN b.shipped[n]
  ELSE IF n \in DOMAIN Sources THEN Sources[n] ELSE {}
PassClass(b) ==
  /\ \A r \in DOMAIN Wild : Wild[r] \cap FrozenKinds = {}
  /\ NamedNatively(b) \subseteq Known(b) \cup NativeReviewed
  /\ \A n \in Archived(b) \cup DOMAIN b.shipped : Vendor(n) => Hits(b, n) \subseteq ReviewedKinds(n)

\* Mutant: some EXE holds what pywin32 imports lazily.
PassLazyAnywhere(b) ==
  b.pywintypes /\ Built(b) /\ Lazy \subseteq Archived(b)

PassLazy(b) ==
  b.pywintypes /\ Built(b) /\ \A x \in Exes : Lazy \subseteq b.exes[x].archive

\* Exit code 0 on a bundle, beside pass 1, which reads the scripts themselves.
Passed(b) ==
  PassFrozen(b) /\ PassPyz(b) /\ PassNative(b) /\ PassMines(b) /\ PassClass(b) /\ PassLazy(b)

-----------------------------------------------------------------------------
(* What an EXE needs once it runs *)

\* An EXE imports from its own archive and from what lies on disk; the one that
\* runs recognition loads the extensions.
Found(b, x) == b.exes[x].archive \cup b.exts \cup DOMAIN b.shipped
Imported(b) == NumpyImports \cup (NamedNatively(b) \ NativeReviewed)
Runs(b) ==
  /\ \A x \in Exes : x \in DOMAIN b.exes /\ ~b.exes[x].relative
  /\ \A x \in Exes : Targets[x] \cup Lazy \subseteq Found(b, x)
  /\ Imported(b) \subseteq Found(b, serviceExe)
  /\ Anchors \subseteq b.exes[serviceExe].archive
  /\ \A o \in Objects : o \in DOMAIN b.objects /\ b.objects[o] = "same"

\* The hidden imports of windows_face_unlock.spec go to every EXE alike, and no
\* EXE holds more of the vendors' code than the service.
HiddenAlike(b) ==
  \A x, y \in DOMAIN b.exes :
    /\ b.exes[x].archive \cap Required \subseteq b.exes[y].archive
    /\ b.exes[x].archive \cap Imported(b) \subseteq b.exes[serviceExe].archive
=============================================================================
