---------------------------- MODULE CredentialStore ----------------------------
(***************************************************************************)
(* face_service/credentials.py: the encrypted credential, the file of the  *)
(* secret it is encrypted with, and the processes that use them at the     *)
(* same time: the service, which migrates a blob of the first version when *)
(* it reads one, and the window that saves, reads back and clears.         *)
(***************************************************************************)
EXTENDS Naturals

CONSTANTS
  Users,     \* processes that use the store
  Writers,   \* those among them that save and clear
  MaxSaves,  \* bound: passwords ever saved
  MaxKeys    \* bound: secrets ever generated

ASSUME CredAssumption ==
  Writers \subseteq Users /\ MaxSaves \in Nat /\ MaxKeys \in Nat

VARIABLES
  key,     \* pipe_entropy.bin: the secret it holds, NoKey if absent or empty
  creds,   \* credentials.bin
  tmp,     \* credentials.bin.tmp, which every writer uses
  doing,   \* per process, the step of its save or migration
  with,    \* per process, the secret it uses
  secret,  \* per process, the password it is about to store
  saves, made,  \* history: passwords and secrets so far
  clash    \* history: two processes held different secrets, or the file of the
           \* secret could not be read while it held one

works == <<doing, with, secret>>
credVars == <<key, creds, tmp, works, saves, made, clash>>

NoKey == 0
Keys == 0 .. MaxKeys
Passwords == 0 .. MaxSaves
NoFile == [version |-> "none", key |-> NoKey, password |-> 0]
Blob(k, p) == [version |-> "v2", key |-> k, password |-> p]
Legacy == [version |-> "v1", key |-> NoKey, password |-> 0]
Doing == {"nothing", "secret", "truncate", "write", "temporary", "replace"}

\* Is another process about to write a secret of its own, or to use one that no
\* other can find?
Holding(u) == doing[u] \in {"truncate", "write", "temporary", "replace"}

Step(u, next) == doing' = [doing EXCEPT ![u] = next]

\* load_password meets a blob of the first version: it decrypts it and stores
\* it anew. One of the second version is only read.
Migrate(u) ==
  /\ doing[u] = "nothing" /\ creds.version = "v1"
  /\ secret' = [secret EXCEPT ![u] = creds.password]
  /\ Step(u, "secret")
  /\ UNCHANGED <<key, creds, tmp, with, saves, made, clash>>

\* save_password, which the window calls once the password was checked.
SavePassword(u) ==
  /\ u \in Writers /\ doing[u] = "nothing" /\ saves < MaxSaves
  /\ saves' = saves + 1
  /\ secret' = [secret EXCEPT ![u] = saves + 1]
  /\ Step(u, "secret")
  /\ UNCHANGED <<key, creds, tmp, with, made, clash>>

ClearPassword(u) ==
  /\ u \in Writers /\ doing[u] = "nothing" /\ creds # NoFile
  /\ creds' = NoFile
  /\ UNCHANGED <<key, tmp, works, saves, made, clash>>

\* _ensure_entropy_secret: the secret there is, or a new one. A file that cannot
\* be read counts as none.
FindSecret(u) ==
  /\ doing[u] = "secret" /\ key # NoKey
  /\ with' = [with EXCEPT ![u] = key]
  /\ Step(u, "temporary")
  /\ UNCHANGED <<key, creds, tmp, secret, saves, made, clash>>

MakeSecret(u) ==
  /\ doing[u] = "secret" /\ made < MaxKeys
  /\ made' = made + 1
  /\ with' = [with EXCEPT ![u] = made + 1]
  /\ clash' = (clash \/ key # NoKey \/ \E v \in Users \ {u} : Holding(v))
  /\ Step(u, "truncate")
  /\ UNCHANGED <<key, creds, tmp, secret, saves>>

\* Mutant of Truncate, for CredentialReadable: a write of the secret that failed
\* goes unnoticed, and the blob is encrypted with what no file holds.
TruncateUnnoticed(u) ==
  /\ doing[u] = "truncate"
  /\ key' = NoKey
  /\ Step(u, "temporary")
  /\ UNCHANGED <<creds, tmp, with, secret, saves, made, clash>>

\* CREATE_ALWAYS empties the file before the secret is written to it.
Truncate(u) ==
  /\ doing[u] = "truncate"
  /\ key' = NoKey
  /\ Step(u, "write")
  /\ UNCHANGED <<creds, tmp, with, secret, saves, made, clash>>

WriteSecret(u) ==
  /\ doing[u] = "write"
  /\ key' = with[u]
  /\ Step(u, "temporary")
  /\ UNCHANGED <<creds, tmp, with, secret, saves, made, clash>>

\* _atomic_write_bytes: the blob goes to the temporary file, which then takes
\* the credential's name, whatever it holds by that time.
WriteTemporary(u) ==
  /\ doing[u] = "temporary"
  /\ tmp' = Blob(with[u], secret[u])
  /\ Step(u, "replace")
  /\ UNCHANGED <<key, creds, with, secret, saves, made, clash>>

Replace(u) ==
  /\ doing[u] = "replace"
  /\ IF tmp = NoFile
     THEN UNCHANGED <<creds, tmp>>
     ELSE creds' = tmp /\ tmp' = NoFile
  /\ Step(u, "nothing")
  /\ UNCHANGED <<key, with, secret, saves, made, clash>>

\* A step fails, or the process is killed: it is not tried again.
GiveUp(u) ==
  /\ doing[u] # "nothing"
  /\ Step(u, "nothing")
  /\ UNCHANGED <<key, creds, tmp, with, secret, saves, made, clash>>

CredInit ==
  /\ key = NoKey /\ creds \in {NoFile, Legacy} /\ tmp = NoFile
  /\ doing = [u \in Users |-> "nothing"]
  /\ with = [u \in Users |-> NoKey]
  /\ secret = [u \in Users |-> 0]
  /\ saves = 0 /\ made = 0 /\ clash = FALSE

CredNext ==
  \E u \in Users :
    \/ Migrate(u) \/ SavePassword(u) \/ ClearPassword(u)
    \/ FindSecret(u) \/ MakeSecret(u) \/ Truncate(u) \/ WriteSecret(u)
    \/ WriteTemporary(u) \/ Replace(u) \/ GiveUp(u)

CredSpec == CredInit /\ [][CredNext]_credVars

-----------------------------------------------------------------------------
(* Properties *)

CredTypeOK ==
  /\ key \in Keys /\ made \in Keys /\ saves \in Passwords
  /\ creds \in [version : {"none", "v1", "v2"}, key : Keys, password : Passwords]
  /\ tmp \in [version : {"none", "v2"}, key : Keys, password : Passwords]
  /\ doing \in [Users -> Doing] /\ with \in [Users -> Keys]
  /\ secret \in [Users -> Passwords]
  /\ clash \in BOOLEAN

\* load_password can always decrypt what is stored, whichever process was killed
\* at whichever step of a save or a migration and however they overlap, as long
\* as no two of them had to make a secret at the same time and the one on disk
\* could be read.
CredentialReadable ==
  (~clash /\ creds.version = "v2") => creds.key = key
=============================================================================
