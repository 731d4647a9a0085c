------------------------------ MODULE StateStore ------------------------------
(***************************************************************************)
(* What the git-backed Terraform state store promises to the jobs that use *)
(* it: one register per state file, exclusive sessions on a register, and  *)
(* a save that touches its own register only, in one step.  TfStateGit     *)
(* implements this specification (TfStateGitProofs has the proof).         *)
(***************************************************************************)
CONSTANTS
  Clients,  \* the jobs that open sessions
  Files,    \* the state files, one per stack and environment
  Versions, \* the contents a file may have
  Nothing   \* the content of a file before its first save

VARIABLES
  store,    \* file -> the version it holds
  phase,    \* client -> where its session is
  file,     \* client -> the file its session is about
  value     \* client -> the version it loaded or is saving

vars == <<store, phase, file, value>>

Phases == {"idle", "open", "loaded", "saving", "saved"}

TypeOK ==
  /\ store \in [Files -> Versions \cup {Nothing}]
  /\ phase \in [Clients -> Phases]
  /\ file  \in [Clients -> Files]
  /\ value \in [Clients -> Versions \cup {Nothing}]

Init ==
  /\ store = [f \in Files |-> Nothing]
  /\ phase = [c \in Clients |-> "idle"]
  /\ file  \in [Clients -> Files]
  /\ value = [c \in Clients |-> Nothing]

Open(c, f) ==
  /\ phase[c] = "idle"
  /\ \A d \in Clients : phase[d] # "idle" => file[d] # f
  /\ phase' = [phase EXCEPT ![c] = "open"]
  /\ file'  = [file EXCEPT ![c] = f]
  /\ UNCHANGED <<store, value>>

\* A load returns the register, or nothing when the store was out of reach:
\* the client cannot tell the second case from a register never written.
Load(c) ==
  /\ phase[c] = "open"
  /\ phase' = [phase EXCEPT ![c] = "loaded"]
  /\ \E v \in {store[file[c]], Nothing} : value' = [value EXCEPT ![c] = v]
  /\ UNCHANGED <<store, file>>

Compute(c) ==
  /\ phase[c] = "loaded"
  /\ phase' = [phase EXCEPT ![c] = "saving"]
  /\ \E v \in Versions : value' = [value EXCEPT ![c] = v]
  /\ UNCHANGED <<store, file>>

Save(c) ==
  /\ phase[c] = "saving"
  /\ store' = [store EXCEPT ![file[c]] = value[c]]
  /\ UNCHANGED <<phase, file, value>>

\* Success is reported only for a version the register really holds.
Acknowledge(c) ==
  /\ phase[c] = "saving"
  /\ store[file[c]] = value[c]
  /\ phase' = [phase EXCEPT ![c] = "saved"]
  /\ UNCHANGED <<store, file, value>>

\* A session ends after its save, on a reported failure, or with its client.
Close(c) ==
  /\ phase[c] # "idle"
  /\ phase' = [phase EXCEPT ![c] = "idle"]
  /\ value' = [value EXCEPT ![c] = Nothing]
  /\ UNCHANGED <<store, file>>

Next ==
  \E c \in Clients :
    \/ \E f \in Files : Open(c, f)
    \/ Load(c)
    \/ Compute(c)
    \/ Save(c)
    \/ Acknowledge(c)
    \/ Close(c)

Spec == Init /\ [][Next]_vars

===============================================================================
