------------------------- MODULE ProxyServerProofs -------------------------
(***************************************************************************)
(* What holds of main and the accept loop for all ports, any number of     *)
(* starts, kills and clients, and any number of file descriptors.          *)
(***************************************************************************)
EXTENDS ProxyServer, FiniteSetTheorems, TLAPS

(***************************************************************************)
(* The inductive invariant.  While main is on its way to WriteReadyFile    *)
(* there is no ready file, since the command line was refused otherwise;   *)
(* the file that is renamed holds the port the acceptor listens on; and    *)
(* nobody touches the ready file of a running process.                     *)
(***************************************************************************)
Starting == {"init_log", "load_rules", "init_engine", "start"}
Publishing == {"open_ready_file", "write_ready_file", "rename_ready_file"}

ReadyFileMatchesPc ==
  /\ ready_file # Partial
  /\ pc \in Publishing => ready_wanted
  /\ pc \in Starting \cup Publishing /\ ready_wanted => ready_file = Absent
  /\ pc = "rename_ready_file" => temporary_file = Whole(port)
  /\ pc = "running" /\ ready_wanted => ready_file = Whole(port)

ListeningMatchesPc ==
  /\ listening <=> pc \in Publishing \cup {"running"}
  /\ listening => port \in Ports

IInv == /\ TypeOK /\ next_session_id_ >= 1
        /\ ReadyFileMatchesPc /\ ListeningMatchesPc

-----------------------------------------------------------------------------
(***************************************************************************)
(* Facts about the files and the descriptors.                              *)
(***************************************************************************)
LEMMA FilesDiffer ==
  Absent # Partial /\ \A p : Whole(p) # Partial /\ Whole(p) # Absent
  BY DEF Absent, Partial, Whole

\* The sessions of a process are finitely many.
LEMMA SessionsFinite ==
  ASSUME TypeOK
  PROVE  /\ IsFiniteSet(running) /\ IsFiniteSet(connected)
         /\ Cardinality(running) \in Nat /\ Cardinality(connected) \in Nat
<1>1. IsFiniteSet(1 .. next_session_id_ - 1)
  BY FS_Interval DEF TypeOK
<1>2. IsFiniteSet(running)
  BY <1>1, FS_Subset DEF TypeOK
<1>3. IsFiniteSet(connected)
  BY <1>2, FS_Subset DEF TypeOK
<1> QED
  BY <1>2, <1>3, FS_CardinalityType

\* Steps that leave the sessions alone use as many descriptors as before.
LEMMA SameSessions ==
  ASSUME UNCHANGED <<running, connected>> PROVE InUse' = InUse
  BY DEF InUse

(***************************************************************************)
(* The end of the process, in whatever state it leaves the temporary file. *)
(***************************************************************************)
LEMMA ExitStep ==
  ASSUME IInv, Exit, UNCHANGED <<starts, ready_wanted, ready_file>>,
         temporary_file' \in FileContents
  PROVE  IInv'
<1>1. InUse' = 0
  BY FS_EmptySet DEF InUse, Exit
<1>2. TypeOK'
  <2>1. listening' \in BOOLEAN
    BY DEF Exit
  <2>2. /\ pc' = "down" /\ port' \in Ports \cup {0}
        /\ backlog' \in 0 .. clients' /\ clients' \in 0 .. MaxClients
        /\ next_session_id_' \in Nat /\ running' = {} /\ connected' = {}
    BY BoundsAssumption DEF Exit
  <2>3. InUse' <= Descriptors
    BY <1>1, DescriptorsAssumption
  <2>4. starts' \in 0 .. MaxStarts /\ ready_wanted' \in BOOLEAN
        /\ ready_file' \in FileContents
    BY DEF IInv, TypeOK
  <2> QED
    BY <2>1, <2>2, <2>3, <2>4 DEF TypeOK
<1>3. ReadyFileMatchesPc' /\ ListeningMatchesPc'
  BY DEF IInv, Exit, ReadyFileMatchesPc, ListeningMatchesPc, Starting, Publishing
<1> QED
  BY <1>2, <1>3 DEF IInv, Exit

-----------------------------------------------------------------------------
(***************************************************************************)
(* One lemma per step: the command line and main.                          *)
(***************************************************************************)
LEMMA InitIInv == Init => IInv
<1> SUFFICES ASSUME Init PROVE IInv
  OBVIOUS
<1>1. InUse <= Descriptors
  BY FS_EmptySet, DescriptorsAssumption DEF InUse, Init
<1>2. starts \in 0 .. MaxStarts /\ backlog \in 0 .. clients /\ clients \in 0 .. MaxClients
  BY BoundsAssumption DEF Init
<1>3. TypeOK
  BY <1>1, <1>2 DEF Init, TypeOK, FileContents
<1> QED
  BY <1>3, FilesDiffer DEF Init, IInv, ReadyFileMatchesPc,
         ListeningMatchesPc, Starting, Publishing

LEMMA ParseCommandLineStep == ASSUME IInv, ParseCommandLine PROVE IInv'
<1> USE DEF files, server
<1>1. TypeOK'
  BY SameSessions, BoundsAssumption DEF IInv, TypeOK, ParseCommandLine, FileContents
<1> QED
  BY <1>1, FilesDiffer DEF ParseCommandLine, IInv, TypeOK, ReadyFileMatchesPc,
         ListeningMatchesPc, Starting, Publishing

LEMMA InitLogStep == ASSUME IInv, InitLog PROVE IInv'
<1>1. CASE Exit
  <2>1. UNCHANGED <<starts, ready_wanted, ready_file, temporary_file>>
    BY <1>1 DEF InitLog, Exit, files
  <2>2. temporary_file' \in FileContents
    BY <2>1 DEF IInv, TypeOK
  <2> QED
    BY <1>1, <2>1, <2>2, ExitStep
<1>2. CASE ~Exit
  BY <1>2, SameSessions, FilesDiffer
     DEF InitLog, IInv, TypeOK, ReadyFileMatchesPc, ListeningMatchesPc,
         Starting, Publishing, files, server, FileContents
<1> QED
  BY <1>1, <1>2

LEMMA LoadRuleConfigStep == ASSUME IInv, LoadRuleConfig PROVE IInv'
<1>1. CASE Exit
  <2>1. UNCHANGED <<starts, ready_wanted, ready_file, temporary_file>>
    BY <1>1 DEF LoadRuleConfig, Exit, files
  <2>2. temporary_file' \in FileContents
    BY <2>1 DEF IInv, TypeOK
  <2> QED
    BY <1>1, <2>1, <2>2, ExitStep
<1>2. CASE ~Exit
  BY <1>2, SameSessions, FilesDiffer
     DEF LoadRuleConfig, IInv, TypeOK, ReadyFileMatchesPc, ListeningMatchesPc,
         Starting, Publishing, files, server, FileContents
<1> QED
  BY <1>1, <1>2

LEMMA InitRuleEngineStep == ASSUME IInv, InitRuleEngine PROVE IInv'
<1>1. CASE Exit
  <2>1. UNCHANGED <<starts, ready_wanted, ready_file, temporary_file>>
    BY <1>1 DEF InitRuleEngine, Exit, files
  <2>2. temporary_file' \in FileContents
    BY <2>1 DEF IInv, TypeOK
  <2> QED
    BY <1>1, <2>1, <2>2, ExitStep
<1>2. CASE ~Exit
  BY <1>2, SameSessions, FilesDiffer
     DEF InitRuleEngine, IInv, TypeOK, ReadyFileMatchesPc, ListeningMatchesPc,
         Starting, Publishing, files, server, FileContents
<1> QED
  BY <1>1, <1>2

LEMMA StartStep == ASSUME IInv, Start PROVE IInv'
<1>1. CASE Exit
  <2>1. UNCHANGED <<starts, ready_wanted, ready_file, temporary_file>>
    BY <1>1 DEF Start, Exit, files
  <2>2. temporary_file' \in FileContents
    BY <2>1 DEF IInv, TypeOK
  <2> QED
    BY <1>1, <2>1, <2>2, ExitStep
<1>2. CASE ~Exit
  BY <1>2, SameSessions, FilesDiffer
     DEF Start, IInv, TypeOK, ReadyFileMatchesPc, ListeningMatchesPc,
         Starting, Publishing, files, server, FileContents
<1> QED
  BY <1>1, <1>2

LEMMA OpenReadyFileStep == ASSUME IInv, OpenReadyFile PROVE IInv'
<1>1. CASE Exit
  <2>1. UNCHANGED <<starts, ready_wanted, ready_file, temporary_file>>
    BY <1>1 DEF OpenReadyFile, Exit, files
  <2>2. temporary_file' \in FileContents
    BY <2>1 DEF IInv, TypeOK
  <2> QED
    BY <1>1, <2>1, <2>2, ExitStep
<1>2. CASE ~Exit
  BY <1>2, SameSessions, FilesDiffer
     DEF OpenReadyFile, IInv, TypeOK, ReadyFileMatchesPc, ListeningMatchesPc,
         Starting, Publishing, files, server, FileContents
<1> QED
  BY <1>1, <1>2

LEMMA FlushReadyFileStep == ASSUME IInv, FlushReadyFile PROVE IInv'
<1>1. CASE Exit
  <2>1. UNCHANGED <<starts, ready_wanted, ready_file, temporary_file>>
    BY <1>1 DEF FlushReadyFile, Exit, files
  <2>2. temporary_file' \in FileContents
    BY <2>1 DEF IInv, TypeOK
  <2> QED
    BY <1>1, <2>1, <2>2, ExitStep
<1>2. CASE ~Exit
  BY <1>2, SameSessions, FilesDiffer
     DEF FlushReadyFile, IInv, TypeOK, ReadyFileMatchesPc, ListeningMatchesPc,
         Starting, Publishing, files, server, FileContents
<1> QED
  BY <1>1, <1>2

LEMMA RenameReadyFileStep == ASSUME IInv, RenameReadyFile PROVE IInv'
<1>1. CASE Exit
  <2>1. UNCHANGED <<starts, ready_wanted, ready_file, temporary_file>>
    BY <1>1 DEF RenameReadyFile, Exit, files
  <2>2. temporary_file' \in FileContents
    BY <2>1 DEF IInv, TypeOK
  <2> QED
    BY <1>1, <2>1, <2>2, ExitStep
<1>2. CASE ~Exit
  BY <1>2, SameSessions, FilesDiffer
     DEF RenameReadyFile, IInv, TypeOK, ReadyFileMatchesPc, ListeningMatchesPc,
         Starting, Publishing, files, server, FileContents
<1> QED
  BY <1>1, <1>2

LEMMA KilledStep == ASSUME IInv, Killed PROVE IInv'
<1>1. temporary_file' \in FileContents
  BY DEF Killed, IInv, TypeOK, files
<1> QED
  BY <1>1, ExitStep DEF Killed, files

LEMMA ReadyFileRemovedStep == ASSUME IInv, ReadyFileRemoved PROVE IInv'
<1> USE DEF files, server
<1>1. TypeOK'
  BY SameSessions, BoundsAssumption DEF ReadyFileRemoved, IInv, TypeOK, FileContents
<1> QED
  BY <1>1, FilesDiffer DEF ReadyFileRemoved, IInv, ReadyFileMatchesPc, ListeningMatchesPc,
                Starting, Publishing

-----------------------------------------------------------------------------
(***************************************************************************)
(* Clients and sessions.  What opens a descriptor looks whether there is   *)
(* one, and a session's id is not in use.                                  *)
(***************************************************************************)
LEMMA ClientConnectsStep == ASSUME IInv, ClientConnects PROVE IInv'
<1> USE DEF files, server
<1>1. TypeOK'
  BY SameSessions, BoundsAssumption DEF ClientConnects, IInv, TypeOK, FileContents
<1> QED
  BY <1>1, FilesDiffer DEF ClientConnects, IInv, ReadyFileMatchesPc, ListeningMatchesPc,
                Starting, Publishing

LEMMA AcceptFailsStep == ASSUME IInv, AcceptFails PROVE IInv'
<1> USE DEF files, server
<1>1. TypeOK'
  BY SameSessions, BoundsAssumption DEF AcceptFails, IInv, TypeOK, FileContents
<1> QED
  BY <1>1, FilesDiffer DEF AcceptFails, IInv, ReadyFileMatchesPc, ListeningMatchesPc,
                Starting, Publishing

LEMMA AcceptStep == ASSUME IInv, Accept PROVE IInv'
<1> USE DEF files, server
<1>1. /\ TypeOK /\ IsFiniteSet(running) /\ IsFiniteSet(connected)
      /\ Cardinality(running) \in Nat /\ Cardinality(connected) \in Nat
  BY SessionsFinite DEF IInv
<1>2. InUse' <= Descriptors
  <2>1. next_session_id_ \notin running
    BY <1>1 DEF TypeOK
  <2>2. Cardinality(running') = Cardinality(running) + 1 /\ connected' = connected
    BY <1>1, <2>1, FS_AddElement DEF Accept
  <2> QED
    BY <1>1, <2>2, DescriptorsAssumption DEF Accept, Exhausted, InUse
<1>3. /\ running' \subseteq 1 .. next_session_id_' - 1 /\ connected' \subseteq running'
      /\ next_session_id_' \in Nat
      /\ backlog' \in 0 .. clients'
  BY <1>1 DEF Accept, TypeOK, IInv
<1>4. TypeOK'
  BY <1>1, <1>2, <1>3 DEF Accept, IInv, TypeOK, FileContents
<1> QED
  BY <1>4, FilesDiffer DEF Accept, IInv, TypeOK, ReadyFileMatchesPc, ListeningMatchesPc,
                Starting, Publishing

LEMMA SessionConnectsStep == ASSUME IInv, SessionConnects PROVE IInv'
<1> USE DEF files, server
<1>1. /\ TypeOK /\ IsFiniteSet(running) /\ IsFiniteSet(connected)
      /\ Cardinality(running) \in Nat /\ Cardinality(connected) \in Nat
  BY SessionsFinite DEF IInv
<1>2. InUse' <= Descriptors
  <2>1. PICK id \in running \ connected : connected' = connected \cup {id}
    BY DEF SessionConnects
  <2>2. Cardinality(connected') = Cardinality(connected) + 1 /\ running' = running
    BY <1>1, <2>1, FS_AddElement DEF SessionConnects
  <2> QED
    BY <1>1, <2>2, DescriptorsAssumption DEF SessionConnects, Exhausted, InUse
<1>3. connected' \subseteq running'
  BY <1>1 DEF SessionConnects, TypeOK
<1>4. TypeOK'
  BY <1>1, <1>2, <1>3 DEF SessionConnects, IInv, TypeOK, FileContents
<1> QED
  BY <1>4, FilesDiffer DEF SessionConnects, IInv, TypeOK, ReadyFileMatchesPc, ListeningMatchesPc,
                Starting, Publishing

LEMMA SessionDisconnectsStep == ASSUME IInv, SessionDisconnects PROVE IInv'
<1> USE DEF files, server
<1>1. /\ TypeOK /\ IsFiniteSet(running) /\ IsFiniteSet(connected)
      /\ Cardinality(running) \in Nat /\ Cardinality(connected) \in Nat
  BY SessionsFinite DEF IInv
<1>2. InUse' <= Descriptors
  <2>1. PICK id \in connected : connected' = connected \ {id}
    BY DEF SessionDisconnects
  <2>2. Cardinality(connected') = Cardinality(connected) - 1 /\ running' = running
    BY <1>1, <2>1, FS_RemoveElement DEF SessionDisconnects
  <2> QED
    BY <1>1, <2>2, DescriptorsAssumption DEF TypeOK, InUse
<1>3. connected' \subseteq running'
  BY <1>1 DEF SessionDisconnects, TypeOK
<1>4. TypeOK'
  BY <1>1, <1>2, <1>3 DEF SessionDisconnects, IInv, TypeOK, FileContents
<1> QED
  BY <1>4, FilesDiffer DEF SessionDisconnects, IInv, TypeOK, ReadyFileMatchesPc, ListeningMatchesPc,
                Starting, Publishing

LEMMA SessionEndsStep == ASSUME IInv, SessionEnds PROVE IInv'
<1> USE DEF files, server
<1>1. /\ TypeOK /\ IsFiniteSet(running) /\ IsFiniteSet(connected)
      /\ Cardinality(running) \in Nat /\ Cardinality(connected) \in Nat
  BY SessionsFinite DEF IInv
<1>2. PICK id \in running : running' = running \ {id} /\ connected' = connected \ {id}
  BY DEF SessionEnds
<1>3. InUse' <= Descriptors
  <2>1. Cardinality(running') = Cardinality(running) - 1
    BY <1>1, <1>2, FS_RemoveElement
  <2>2. Cardinality(connected') \in {Cardinality(connected), Cardinality(connected) - 1}
    BY <1>1, <1>2, FS_RemoveElement
  <2> QED
    BY <1>1, <2>1, <2>2, DescriptorsAssumption DEF TypeOK, InUse
<1>4. /\ running' \subseteq 1 .. next_session_id_' - 1
      /\ connected' \subseteq running'
  BY <1>1, <1>2 DEF SessionEnds, TypeOK
<1>5. TypeOK'
  BY <1>1, <1>3, <1>4 DEF SessionEnds, IInv, TypeOK, FileContents
<1> QED
  BY <1>5, FilesDiffer DEF SessionEnds, IInv, TypeOK, ReadyFileMatchesPc, ListeningMatchesPc,
                Starting, Publishing

-----------------------------------------------------------------------------
LEMMA NextIInv == IInv /\ [Next]_vars => IInv'
<1>1. ASSUME IInv, Main PROVE IInv'
  BY <1>1, InitLogStep, LoadRuleConfigStep, InitRuleEngineStep, StartStep,
     OpenReadyFileStep, FlushReadyFileStep, RenameReadyFileStep DEF Main
<1>2. ASSUME IInv, UNCHANGED vars PROVE IInv'
  BY <1>2, SameSessions DEF vars, files, server, IInv, TypeOK, FileContents,
     ReadyFileMatchesPc, ListeningMatchesPc
<1> QED
  BY <1>1, <1>2, ParseCommandLineStep, KilledStep, ReadyFileRemovedStep,
     ClientConnectsStep, AcceptStep, AcceptFailsStep, SessionConnectsStep,
     SessionDisconnectsStep, SessionEndsStep DEF Next

(***************************************************************************)
(* The inductive invariant holds of every state of the process.            *)
(***************************************************************************)
THEOREM Inductive == Spec => []IInv
<1> QED
  BY InitIInv, NextIInv, PTL DEF Spec

(***************************************************************************)
(* Type correctness: in particular the sessions never hold more sockets    *)
(* than the process has descriptors, and the next id is above those of the *)
(* sessions that run.                                                      *)
(***************************************************************************)
THEOREM TypeCorrect == Spec => []TypeOK
<1>1. IInv => TypeOK
  BY DEF IInv
<1> QED
  BY <1>1, Inductive, PTL

(***************************************************************************)
(* Whoever reads the ready file finds the whole of it, and while a process *)
(* that was asked for it lives, the port this process listens on, wherever *)
(* an earlier one was killed.                                              *)
(***************************************************************************)
THEOREM ReadyFileIsWhole == Spec => []ReadyFileWhole
<1>1. IInv => ReadyFileWhole
  BY DEF IInv, TypeOK, ReadyFileWhole, ReadyFileMatchesPc, ListeningMatchesPc,
         Starting, Publishing
<1> QED
  BY <1>1, Inductive, PTL

=============================================================================
