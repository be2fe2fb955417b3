------------------------------- MODULE Release --------------------------------
(***************************************************************************)
(* installer/build.py on one machine, with what it runs: the model pack    *)
(* and the credential provider's DLL, PyInstaller, staging, the gate and   *)
(* its stamp, Inno Setup and the checksum, in one run or in two halves.    *)
(* Between any two steps a run may fail or die, and whoever builds may     *)
(* change the pack, the DLL, the bundle, the script or the version.        *)
(***************************************************************************)
EXTENDS Naturals, BundleGate

CONSTANTS
  Bundles,     \* what PyInstaller may lay down
  Versions,    \* as written in _version.py and in installer.iss
  Rank,        \* [Versions -> Nat]: where the name of an installer sorts
  Signers,     \* thumbprints of certificates
  Codes,       \* what a DLL was compiled from
  fresh,       \* the sources of the provider as they are
  Nothing,     \* no file, or no thumbprint
  MaxRuns, MaxEdits  \* bounds

Dlls == [code : Codes, signer : Signers \cup {Nothing}]
Scripts == [version : Versions, sound : BOOLEAN]
Packs == {"pinned", "other", "missing"}
Dists == [bundle : Bundles, version : Versions, models : Packs, dll : Dlls \cup {Nothing}]
Policies == {p \in [mode : {"skip_cp", "unsigned-allowed", "pinned"}, signer : Signers \cup {Nothing}] :
               p.mode = "pinned" <=> p.signer # Nothing}
Installers == [content : Dists, iss : Scripts, cp : Policies, asked : Signers \cup {Nothing},
               raced : SUBSET {"gate", "pack"}]
Modes == {"half1", "half2", "full", "gate"}

ASSUME ReleaseAssumption ==
  /\ \A b \in Bundles : IsBundle(b) /\ b.heals \in BOOLEAN
  /\ fresh \in Codes
  /\ Rank \in [Versions -> Nat]
  /\ \E w \in Versions : \A v \in Versions : Rank[v] <= Rank[w]
  /\ \A v, w \in Versions : Rank[v] = Rank[w] => v = w
  /\ Nothing \notin Signers \cup Versions \cup Dlls \cup Dists \cup Installers
  /\ {MaxRuns, MaxEdits} \subseteq Nat

VARIABLES
  version,  \* _version.py's
  iss,      \* installer.iss: its version, and is it as packaging_selftest wants?
  pack,     \* the build machine's buffalo_l
  built,    \* build-cp's DLL
  dist,     \* dist\WindowsFaceUnlock
  stamp,    \* WindowsFaceUnlock.gate.json, when it can be read
  output,   \* the installers of installer_output, by version
  sums,     \* the installer whose digest stands beside each of them
  build,    \* the run of build.py
  raced,    \* history: was something changed while the gate read it, or
            \* between the stamp's check and the end of ISCC?
  runs, edits

releaseVars == <<version, iss, pack, built, dist, stamp, output, sums, build, raced, runs, edits>>

Idle == [pc |-> "idle", mode |-> "gate", skip |-> FALSE, sign |-> Nothing,
         cp |-> [mode |-> "skip_cp", signer |-> Nothing], compiled |-> Nothing, path |-> Nothing]

At(pc) == build.pc = pc
Goto(pc) == build' = [build EXCEPT !.pc = pc]

\* What a run was told of the DLL's signature.
Policy ==
  IF build.skip THEN [mode |-> "skip_cp", signer |-> Nothing]
  ELSE IF build.sign = Nothing THEN [mode |-> "unsigned-allowed", signer |-> Nothing]
  ELSE [mode |-> "pinned", signer |-> build.sign]

-----------------------------------------------------------------------------
(* A run *)

First == [half1 |-> "pack", full |-> "pack", gate |-> "gate", half2 |-> "inno"]

\* SIGN_CP, or --allow-unsigned-cp, or no provider at all: exactly one of them,
\* but for the second half, which asks nothing yet.
StartRun(mode, skip, sign, allow) ==
  /\ At("idle") /\ runs < MaxRuns
  /\ mode # "half2" => skip \/ (allow <=> sign = Nothing)
  /\ build' = [Idle EXCEPT !.pc = First[mode], !.mode = mode, !.skip = skip, !.sign = sign]
  /\ runs' = runs + 1
  /\ UNCHANGED <<version, iss, pack, built, dist, stamp, output, sums, raced, edits>>

CheckModels ==
  /\ At("pack") /\ pack = "pinned"
  /\ Goto(IF build.skip THEN "wipe" ELSE "cmake")
  /\ UNCHANGED <<version, iss, pack, built, dist, stamp, output, sums, raced, runs, edits>>

\* Incremental: a DLL that is up to date stays as it is, signature included.
BuildCp ==
  /\ At("cmake")
  /\ built' \in {[code |-> fresh, signer |-> Nothing]} \cup {d \in {built} : d # Nothing /\ d.code = fresh}
  /\ Goto("sign")
  /\ UNCHANGED <<version, iss, pack, dist, stamp, output, sums, raced, runs, edits>>

SignCp ==
  /\ At("sign")
  /\ built' = IF build.sign = Nothing THEN built ELSE [built EXCEPT !.signer = build.sign]
  /\ Goto("wipe")
  /\ UNCHANGED <<version, iss, pack, dist, stamp, output, sums, raced, runs, edits>>

\* rmtree with ignore_errors: of the bundle and the stamp beside it, either may
\* survive; PyInstaller then lays its bundle down, or fails.
Wipe ==
  /\ At("wipe")
  /\ dist' \in {dist, Nothing} /\ stamp' \in {stamp, Nothing}
  /\ Goto("freeze")
  /\ UNCHANGED <<version, iss, pack, built, output, sums, raced, runs, edits>>

Freeze ==
  /\ At("freeze") /\ pack # "missing"
  /\ \E b \in Bundles :
       dist' = [bundle |-> b, version |-> version, models |-> pack, dll |-> Nothing]
  /\ Goto("staging")
  /\ UNCHANGED <<version, iss, pack, built, stamp, output, sums, raced, runs, edits>>

Stage ==
  /\ At("staging")
  /\ dist' = IF build.skip \/ built = Nothing THEN dist ELSE [dist EXCEPT !.dll = built]
  /\ Goto("gate")
  /\ UNCHANGED <<version, iss, pack, built, stamp, output, sums, raced, runs, edits>>

\* A failed gate must never leave an old stamp behind.
OpenGate ==
  /\ At("gate") /\ dist # Nothing
  /\ stamp' = Nothing
  /\ raced' = raced \ {"gate"}
  /\ Goto("frozen")
  /\ UNCHANGED <<version, iss, pack, built, dist, output, sums, runs, edits>>

\* The stations of the gate: each lets the run pass or ends it.
Asks(pc) ==
  CASE pc = "frozen" -> Passed(dist.bundle)
    [] pc = "selftest" -> iss.sound /\ iss.version = version
    [] pc = "custody" -> dist.bundle.heals
    [] pc = "models" -> dist.models = "pinned"
    [] pc = "provider" ->
         build.skip \/ /\ dist.dll # Nothing
                       /\ built # Nothing => built = dist.dll
                       /\ build.sign # Nothing => dist.dll.signer = build.sign
Following == [frozen |-> "selftest", selftest |-> "custody", custody |-> "models",
              models |-> "provider", provider |-> "stamp"]
PassStation ==
  /\ build.pc \in DOMAIN Following /\ Asks(build.pc)
  /\ Goto(Following[build.pc])
  /\ UNCHANGED <<version, iss, pack, built, dist, stamp, output, sums, raced, runs, edits>>

WriteStamp ==
  /\ At("stamp")
  /\ stamp' = [manifest |-> dist, iss |-> iss, cp |-> Policy]
  /\ IF build.mode = "full" THEN Goto("inno") ELSE build' = Idle
  /\ UNCHANGED <<version, iss, pack, built, dist, output, sums, raced, runs, edits>>

CheckStamp ==
  /\ At("inno") /\ stamp # Nothing
  /\ stamp.iss = iss
  /\ build.sign # Nothing => build.sign = stamp.cp.signer
  /\ dist = stamp.manifest
  /\ build' = [build EXCEPT !.pc = "iscc", !.cp = stamp.cp]
  /\ raced' = raced \ {"pack"}
  /\ UNCHANGED <<version, iss, pack, built, dist, stamp, output, sums, runs, edits>>

\* The last installer of the folder, by name.
LastOf(installers) ==
  CHOOSE v \in Versions :
    /\ installers[v] # Nothing
    /\ \A w \in Versions : installers[w] # Nothing => Rank[w] <= Rank[v]
Compile ==
  /\ At("iscc")
  /\ output' = [output EXCEPT ![iss.version] =
       [content |-> dist, iss |-> iss, cp |-> build.cp, asked |-> build.sign, raced |-> raced]]
  /\ build' = [build EXCEPT !.pc = "checksums", !.compiled = iss.version, !.path = LastOf(output')]
  /\ UNCHANGED <<version, iss, pack, built, dist, stamp, sums, raced, runs, edits>>

Checksum ==
  /\ At("checksums")
  /\ sums' = [sums EXCEPT ![build.path] = output[build.path]]
  /\ build' = Idle
  /\ UNCHANGED <<version, iss, pack, built, dist, stamp, output, raced, runs, edits>>

\* A refusal, a command that fails, Ctrl-C or a power cut.  A stamp torn by it
\* is refused as a missing one is.
RunEnds ==
  /\ ~At("idle")
  /\ build' = Idle
  /\ UNCHANGED <<version, iss, pack, built, dist, stamp, output, sums, raced, runs, edits>>

-----------------------------------------------------------------------------
(* Whoever builds *)

Edits == edits < MaxEdits /\ edits' = edits + 1
Races ==
  raced' = raced \cup (IF build.pc \in DOMAIN Following \cup {"stamp"} THEN {"gate"} ELSE {})
                 \cup (IF At("iscc") THEN {"pack"} ELSE {})

EditPack ==
  /\ Edits /\ pack' \in Packs \ {pack}
  /\ UNCHANGED <<version, iss, built, dist, stamp, output, sums, build, raced, runs>>
EditDll ==
  /\ Edits /\ built' \in Dlls \ {built}
  /\ UNCHANGED <<version, iss, pack, dist, stamp, output, sums, build, raced, runs>>
EditDist ==
  /\ Edits /\ Races /\ dist # Nothing
  /\ \/ \E b \in Bundles : dist' = [dist EXCEPT !.bundle = b]
     \/ \E m \in Packs : dist' = [dist EXCEPT !.models = m]
     \/ \E d \in Dlls \cup {Nothing} : dist' = [dist EXCEPT !.dll = d]
  /\ UNCHANGED <<version, iss, pack, built, stamp, output, sums, build, runs>>
EditScript ==
  /\ Edits /\ Races
  /\ \/ iss' \in Scripts /\ UNCHANGED version
     \* a new version, in both places that name it
     \/ \E v \in Versions : version' = v /\ iss' = [iss EXCEPT !.version = v]
  /\ UNCHANGED <<pack, built, dist, stamp, output, sums, build, runs>>

ReleaseInit ==
  /\ version \in Versions /\ iss = [version |-> version, sound |-> TRUE]
  /\ pack = "pinned" /\ built = Nothing
  /\ dist = Nothing /\ stamp = Nothing
  /\ output = [v \in Versions |-> Nothing] /\ sums = [v \in Versions |-> Nothing]
  /\ build = Idle /\ raced = {} /\ runs = 0 /\ edits = 0

ReleaseNext ==
  \/ \E mode \in Modes, skip, allow \in BOOLEAN, sign \in Signers \cup {Nothing} :
       StartRun(mode, skip, sign, allow)
  \/ CheckModels \/ BuildCp \/ SignCp \/ Wipe \/ Freeze \/ Stage
  \/ OpenGate \/ PassStation \/ WriteStamp \/ CheckStamp \/ Compile \/ Checksum \/ RunEnds
  \/ EditPack \/ EditDll \/ EditDist \/ EditScript

ReleaseSpec == ReleaseInit /\ [][ReleaseNext]_releaseVars

-----------------------------------------------------------------------------
(* Correctness *)

Stamps == [manifest : Dists, iss : Scripts, cp : Policies]
BuildSteps ==
  {"idle", "pack", "cmake", "sign", "wipe", "freeze", "staging", "gate", "frozen", "selftest",
   "custody", "models", "provider", "stamp", "inno", "iscc", "checksums"}
Builds == [pc : BuildSteps, mode : Modes, skip : BOOLEAN, sign : Signers \cup {Nothing},
           cp : Policies, compiled : Versions \cup {Nothing}, path : Versions \cup {Nothing}]

ReleaseTypeOK ==
  /\ version \in Versions /\ iss \in Scripts /\ pack \in Packs
  /\ built \in Dlls \cup {Nothing}
  /\ dist \in Dists \cup {Nothing}
  /\ stamp \in Stamps \cup {Nothing}
  /\ output \in [Versions -> Installers \cup {Nothing}]
  /\ sums \in [Versions -> Installers \cup {Nothing}]
  /\ build \in Builds
  /\ raced \subseteq {"gate", "pack"}
  /\ runs \in Nat /\ edits \in Nat

\* Every installer holds what the gate let pass, unless something was changed
\* while the gate was reading it or while ISCC was packing it: EXEs that can
\* import what they name, a service that heals its directory, the pinned models,
\* the script the self-test read, and the provider it was stamped with, signed by
\* whom this half was told to ask for.
ReleaseGated ==
  \A v \in Versions : output[v] # Nothing /\ output[v].raced = {} =>
    LET held == output[v].content
        cp == output[v].cp IN
    /\ HiddenAlike(held.bundle) => Runs(held.bundle)
    /\ held.bundle.heals /\ held.models = "pinned"
    /\ output[v].iss.sound /\ output[v].iss.version = v
    /\ cp.mode # "skip_cp" => held.dll # Nothing
    /\ cp.mode = "pinned" => held.dll.signer = cp.signer
    /\ output[v].asked # Nothing => held.dll # Nothing /\ held.dll.signer = output[v].asked
=============================================================================
