------------------------------ MODULE MCStores ------------------------------
(***************************************************************************)
(* The files that the program reads and writes: session log, compaction,   *)
(* registry, memory, credentials, and those of the tools.  They share no   *)
(* state, each behaviour is one of one of them.                            *)
(***************************************************************************)
EXTENDS SessionTree, SessionLog, Registry, MemoryEngine, AuthStore, Tools, TLC

CONSTANTS t1, t2, m1, b1, f1, c1, p1, p2, d1, d2

VARIABLE focus

-----------------------------------------------------------------------------
Interrupted == <<"user">>
Steered == <<"user", "user", "assistant">>
LogShapes == {Interrupted, Steered}

Reading == {<<"read", "f">>}
PlainTurn == <<<<"user", 1, {}>>, <<"assistant", 1, {}>>>>
ToolTurn == <<<<"user", 1, {}>>, <<"assistant", 1, Reading>>, <<"toolResult", 2, {}>>,
              <<"assistant", 1, {}>>>>
CutTurn == <<<<"user", 1, {}>>, <<"assistant", 2, {}>>, <<"toolResult", 1, {}>>,
             <<"toolResult", 1, {}>>>>
CompactedShapes == {PlainTurn, ToolTurn, CutTurn}

OneConversationOf == [w \in {t1, t2, f1} |-> c1]
StartProcess == [w \in {t1, t2, f1} |-> IF w = t1 THEN p1 ELSE p2]

OneLock == [e \in {d1, d2} |-> p1]
Contents == SeqOf(Letter, 3)
Replacement(old, new) == [old |-> old, new |-> new]
Single ==
  {<<Replacement(old, new)>> : old \in {<<"a">>, <<"a", "b">>, <<"a", "a">>, <<>>}, new \in {<<>>, <<"b", "b">>}}
Double ==
  {<<Replacement(<<"a">>, new), Replacement(old, <<"a">>)>> :
     old \in {<<"b">>, <<"b", "b">>, <<"a", "b">>}, new \in {<<>>, <<"b", "b">>}}
SomeEdits == Single \cup Double

\* All workers of the memory when nothing goes wrong, any two of them when
\* something does.
Workload ==
  \/ mishaps = MaxMishaps /\ \A w \in Workers : pc[w] = "start"
  \/ mishaps < MaxMishaps /\ Cardinality({w \in Workers : pc[w] = "done"}) = 1

-----------------------------------------------------------------------------
StoresInit ==
  /\ focus \in {"log", "tree", "registry", "memory", "auth", "tools"}
  /\ LogInit /\ TreeInit /\ RegistryInit /\ MemoryInit /\ AuthInit /\ ToolsInit
  /\ focus # "tree" => keepTokens = 0
  /\ IF focus = "memory" THEN Workload ELSE mishaps = 0 /\ \A w \in Workers : pc[w] = "done"
  /\ focus # "tools" => job = "bash"

StoresNext ==
  \/ focus = "log" /\ LogNext /\ UNCHANGED <<focus, treeVars, registryVars, memoryVars, authVars, toolVars>>
  \/ focus = "tree" /\ TreeNext /\ UNCHANGED <<focus, logVars, registryVars, memoryVars, authVars, toolVars>>
  \/ focus = "registry" /\ RegistryNext /\ UNCHANGED <<focus, logVars, treeVars, memoryVars, authVars, toolVars>>
  \/ focus = "memory" /\ MemoryNext /\ UNCHANGED <<focus, logVars, treeVars, registryVars, authVars, toolVars>>
  \/ focus = "auth" /\ AuthNext /\ UNCHANGED <<focus, logVars, treeVars, registryVars, memoryVars, toolVars>>
  \/ focus = "tools" /\ ToolsNext /\ UNCHANGED <<focus, logVars, treeVars, registryVars, memoryVars, authVars>>

storesVars == <<focus, logVars, treeVars, registryVars, memoryVars, authVars, toolVars>>

StoresSpec == StoresInit /\ [][StoresNext]_storesVars

(* The store that is worked on has the shape its code expects.              *)
StoresTypeOK ==
  /\ focus = "log" => LogTypeOK
  /\ focus = "tree" => TreeTypeOK
  /\ focus = "registry" => RegistryTypeOK
  /\ focus = "memory" => MemoryTypeOK
  /\ focus = "auth" => AuthTypeOK
=============================================================================
