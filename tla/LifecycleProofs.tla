--------------------------- MODULE LifecycleProofs ---------------------------
(***************************************************************************)
(* What holds of Lifecycle for any number of SIGHUPs and of replacements   *)
(* of the certificates: types, no reload without a SIGHUP, and no SIGHUP   *)
(* forgotten.                                                              *)
(***************************************************************************)
EXTENDS Lifecycle, TLAPS

\* A message that was not read yet is worth one reload more.
MessagesCount == message => reloads + 1 <= heard

\* Nobody has heard of certificates that do not exist yet.
CoveredExists == covered <= files

\* The inductive invariant.
LifeInv == TypeOK /\ OneReloadPerHup /\ MessagesCount /\ CoveredExists /\ NoHupForgotten

-----------------------------------------------------------------------------
LEMMA LifeInvInit == Init => LifeInv
<1> SUFFICES ASSUME Init PROVE LifeInv
  OBVIOUS
<1>1. hupSeen \in BOOLEAN /\ message \in BOOLEAN /\ filesOk \in BOOLEAN
  BY Zenon DEF Init
<1>2. TypeOK
  BY <1>1 DEF Init, TypeOK
<1>3. OneReloadPerHup /\ MessagesCount /\ CoveredExists /\ NoHupForgotten
  BY DEF Init, OneReloadPerHup, MessagesCount, CoveredExists, NoHupForgotten
<1> QED
  BY <1>2, <1>3 DEF LifeInv

LEMMA TypeStep ==
  ASSUME TypeOK, [Next]_vars
  PROVE  TypeOK'
<1>1. (hupSeen \in BOOLEAN /\ message \in BOOLEAN /\ filesOk \in BOOLEAN)'
  BY Zenon DEF TypeOK, Next, vars, MainTask, SetUp, SetUpFails, SubscribeTermination, StartClient,
     EndClient, RunReturns, InstallHandler, HandleHup, ReplaceFiles, CompleteFiles, SendHup, RestartProcess
<1>2. CASE MainTask
  BY <1>1, <1>2
     DEF TypeOK, MainTask, SetUp, SubscribeTermination, StartClient, EndClient, RunReturns
<1>3. CASE InstallHandler \/ HandleHup
  BY <1>1, <1>3 DEF TypeOK, InstallHandler, HandleHup
<1>4. CASE ReplaceFiles \/ CompleteFiles
  BY <1>1, <1>4 DEF TypeOK, ReplaceFiles, CompleteFiles
<1>5. CASE SendHup \/ RestartProcess \/ SetUpFails
  BY <1>1, <1>5 DEF TypeOK, SendHup, RestartProcess, SetUpFails
<1>6. CASE UNCHANGED vars
  BY <1>6 DEF TypeOK, vars
<1> QED
  BY <1>2, <1>3, <1>4, <1>5, <1>6 DEF Next

\* Only the handler puts a message in the channel, and only the end of a client
\* that has read it counts as a reload.
LEMMA ReloadStep ==
  ASSUME TypeOK, OneReloadPerHup, MessagesCount, [Next]_vars
  PROVE  OneReloadPerHup' /\ MessagesCount'
<1> USE DEF TypeOK, OneReloadPerHup, MessagesCount
<1>1. CASE EndClient
  BY <1>1 DEF EndClient
<1>2. CASE HandleHup
  BY <1>2 DEF HandleHup
<1>3. CASE SetUp \/ SubscribeTermination \/ StartClient \/ RunReturns
  BY <1>3 DEF SetUp, SubscribeTermination, StartClient, RunReturns
<1>4. CASE InstallHandler \/ ReplaceFiles \/ CompleteFiles \/ SendHup
  BY <1>4 DEF InstallHandler, ReplaceFiles, CompleteFiles, SendHup
<1>5. CASE RestartProcess \/ SetUpFails
  BY <1>5 DEF RestartProcess, SetUpFails
<1>6. CASE UNCHANGED vars
  BY <1>6 DEF vars
<1> QED
  BY <1>1, <1>2, <1>3, <1>4, <1>5, <1>6 DEF Next, MainTask

\* A client begins to serve with the files of the moment, which are no older than
\* any that a SIGHUP covered; while it serves, the handler turns a SIGHUP into
\* a message, and reading the message ends the client.
LEMMA HupStep ==
  ASSUME TypeOK, CoveredExists, NoHupForgotten, [Next]_vars
  PROVE  CoveredExists' /\ NoHupForgotten'
<1> USE DEF TypeOK, CoveredExists, NoHupForgotten
<1>1. CASE StartClient
  BY <1>1 DEF StartClient
<1>2. CASE HandleHup
  BY <1>2 DEF HandleHup
<1>3. CASE SendHup
  BY <1>3 DEF SendHup
<1>4. CASE EndClient
  BY <1>4 DEF EndClient
<1>5. CASE ReplaceFiles \/ CompleteFiles \/ InstallHandler
  BY <1>5 DEF ReplaceFiles, CompleteFiles, InstallHandler
<1>6. CASE SetUp \/ SetUpFails \/ SubscribeTermination \/ RunReturns \/ RestartProcess
  BY <1>6 DEF SetUp, SetUpFails, SubscribeTermination, RunReturns, RestartProcess
<1>7. CASE UNCHANGED vars
  BY <1>7 DEF vars
<1> QED
  BY <1>1, <1>2, <1>3, <1>4, <1>5, <1>6, <1>7 DEF Next, MainTask

LEMMA LifeInvariant == Spec => []LifeInv
<1>1. LifeInv /\ [Next]_vars => LifeInv'
  BY TypeStep, ReloadStep, HupStep DEF LifeInv
<1> QED
  BY LifeInvInit, <1>1, PTL DEF Spec

-----------------------------------------------------------------------------
\* Every variable of the lifecycle always holds a value of its type.
THEOREM LifecycleTypeCorrect == Spec => []TypeOK
<1>1. LifeInv => TypeOK
  BY DEF LifeInv
<1> QED
  BY LifeInvariant, <1>1, PTL

\* The client is ended at most once for each message of the signal handler
\* (mqtt.rs run, main.rs).
THEOREM OneReloadForEachHup == Spec => []OneReloadPerHup
<1>1. LifeInv => OneReloadPerHup
  BY DEF LifeInv
<1> QED
  BY LifeInvariant, <1>1, PTL

\* A client that serves with files older than a SIGHUP asked for has that
\* SIGHUP, or its message, still before it (main.rs, the signal handler).
THEOREM HupsNeverForgotten == Spec => []NoHupForgotten
<1>1. LifeInv => NoHupForgotten
  BY DEF LifeInv
<1> QED
  BY LifeInvariant, <1>1, PTL
=============================================================================
