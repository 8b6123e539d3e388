-------------------------- MODULE LspServerProofs --------------------------
(***************************************************************************)
(* What TLAPS proves of LspServer, for any filetypes, addresses and bounds. *)
(***************************************************************************)
EXTENDS LspServer, TLAPS

USE NullAssumption, RefLangAssumption, HasCmdAssumption, RestartsAssumption,
    MaxInitsAssumption

\* The inductive invariant.  TypeOK is not inductive by itself: a launch reads
\* lsp_servers[ref_lang] and a crash lsp_servers[s->filetype], which are servers
\* only because the array is filled as a whole and a process belongs to an object
\* that is allocated; and a freed address may be handed out again, so that a slot
\* stays clear of the two lists only if freeing has cleared every trace of it.
IInv ==
    /\ TypeOK
    /\ SlotServersCurrent
    /\ FreedServersForgotten
    /\ ShutdownHasProcess

-----------------------------------------------------------------------------
(* Type correctness *)

LEMMA StaledType ==
    ASSUME TypeOK, NEW F
    PROVE  Staled(F) \subseteq KillTimer
<1> SUFFICES ASSUME NEW t \in kill_timers
             PROVE  [srv |-> t.srv, delay |-> t.delay,
                     stale |-> t.stale \/ t.srv \in F] \in KillTimer
  BY DEF Staled
<1>1. t \in KillTimer
  BY DEF TypeOK
<1>2. t.srv \in Obj /\ t.delay \in {2000, 4000} /\ t.stale \in BOOLEAN
  BY <1>1 DEF KillTimer
<1>3. (t.stale \/ t.srv \in F) \in BOOLEAN
  OBVIOUS
<1> QED
  BY <1>2, <1>3 DEF KillTimer

LEMMA ArmedType ==
    ASSUME NEW S \in SUBSET Obj, NEW d \in {2000, 4000}
    PROVE  Armed(S, d) \subseteq KillTimer
<1> SUFFICES ASSUME NEW s \in S
             PROVE  [srv |-> s, delay |-> d, stale |-> FALSE] \in KillTimer
  BY DEF Armed
<1>1. s \in Obj /\ d \in {2000, 4000} /\ FALSE \in BOOLEAN
  OBVIOUS
<1> QED
  BY <1>1 DEF KillTimer

LEMMA OrphanedType ==
    ASSUME TypeOK, NEW F \in SUBSET Obj
    PROVE  Orphaned(F) \subseteq Obj \X {"initialize", "shutdown"}
BY DEF TypeOK, Orphaned

LEMMA KillServerType ==
    ASSUME TypeOK, NEW s \in Obj
    PROVE  KillServer(s, pid) \in [Obj -> Process]
BY DEF TypeOK, KillServer, Process

LEMMA StopAllType ==
    ASSUME TypeOK, NEW slots \in SUBSET Obj, StopAll(slots)
    PROVE  /\ servers_in_shutdown' \subseteq Obj
           /\ startup_shutdown' \in [Obj -> BOOLEAN]
           /\ pending' \in [Obj -> SUBSET Method]
           /\ orphans' \subseteq Obj \X {"initialize", "shutdown"}
           /\ kill_timers' \subseteq KillTimer
           /\ heap' \subseteq Obj
           /\ restarts' \in [Obj -> 0 .. GiveUp]
           /\ referenced' \in [Obj -> Obj \cup {NULL}]
           /\ pid' = pid /\ free_timers' = free_timers /\ fault' = fault
<1>1. Slotted \subseteq Obj
  BY DEF TypeOK, Slotted
<1>2. Stopped \in SUBSET Obj /\ Freed \in SUBSET Obj
  BY <1>1 DEF Stopped, Freed
<1>3. /\ kill_timers' = Staled(Freed) \cup Armed(Stopped, 4000)
      /\ orphans' = Orphaned(Freed)
      /\ pid' = pid /\ free_timers' = free_timers /\ fault' = fault
  BY DEF StopAll
<1>4. kill_timers' \subseteq KillTimer
  <2>1. Staled(Freed) \subseteq KillTimer
    BY StaledType
  <2>2. Armed(Stopped, 4000) \subseteq KillTimer
    BY <1>2, ArmedType
  <2> QED
    BY <1>3, <2>1, <2>2
<1>5. orphans' \subseteq Obj \X {"initialize", "shutdown"}
  <2> QED
    BY <1>2, <1>3, OrphanedType
<1>6. servers_in_shutdown' \subseteq Obj /\ heap' \subseteq Obj
  BY <1>2 DEF TypeOK, StopAll
<1>7. startup_shutdown' \in [Obj -> BOOLEAN]
  BY DEF TypeOK, StopAll, With
<1>8. pending' \in [Obj -> SUBSET Method]
  BY DEF TypeOK, StopAll, Method
<1>9. restarts' \in [Obj -> 0 .. GiveUp]
  BY DEF TypeOK, StopAll, With
<1>10. referenced' \in [Obj -> Obj \cup {NULL}]
  BY DEF TypeOK, StopAll, With
<1> QED
  BY <1>3, <1>4, <1>5, <1>6, <1>7, <1>8, <1>9, <1>10

LEMMA InitIInv == Init => IInv
<1> SUFFICES ASSUME Init PROVE IInv
  OBVIOUS
<1>1. TypeOK
  <2>1. 0 \in 0 .. GiveUp /\ 0 \in 0 .. MaxInits
    OBVIOUS
  <2>2. orphans = {} /\ kill_timers = {}
    BY DEF Init
  <2> QED
    BY <2>1, <2>2 DEF Init, TypeOK, Method, Process
<1> QED
  BY <1>1 DEF IInv, Init, SlotServersCurrent, FreedServersForgotten, ShutdownHasProcess

\* What a launch starts is a server that is allocated, and not being shut down.
LEMMA LaunchTarget ==
    ASSUME IInv, fault = "none", NEW ft \in Ft, lsp_servers[ft] # NULL,
           NEW s, s = Lookup(ft), s \in heap,
           NEW t, t = IF RefLang[filetype[s]] = NULL THEN s
                      ELSE lsp_servers[RefLang[filetype[s]]]
    PROVE  s \in Obj /\ t \in Obj /\ t \in heap
<1>1. s \in Obj /\ filetype[s] \in Ft
  BY DEF IInv, TypeOK, FreedServersForgotten
<1>2. CASE RefLang[filetype[s]] = NULL
  BY <1>1, <1>2
<1>3. CASE RefLang[filetype[s]] # NULL
  <2>1. RefLang[filetype[s]] \in Ft
    BY <1>1, <1>3
  <2>2. lsp_servers[RefLang[filetype[s]]] # NULL
    BY <2>1 DEF IInv, SlotServersCurrent
  <2> QED
    BY <1>1, <1>3, <2>1, <2>2 DEF IInv, SlotServersCurrent, TypeOK
<1> QED
  BY <1>2, <1>3

LEMMA TypeStep ==
    ASSUME IInv, Next
    PROVE  TypeOK'
<1> TypeOK /\ fault = "none"
  BY DEF IInv, Next
<1>1. CASE StopAndInitAll
  <2>1. PICK slot \in [Ft -> Obj] :
           /\ StopAll({slot[ft] : ft \in Ft})
           /\ lsp_servers' = slot
           /\ filetype' = [o \in Obj |->
                 IF o \in {slot[ft] : ft \in Ft} THEN CHOOSE ft \in Ft : slot[ft] = o
                 ELSE IF o \in Freed THEN NULL
                 ELSE filetype[o]]
    BY <1>1, Zenon DEF StopAndInitAll
  <2>2. {slot[ft] : ft \in Ft} \in SUBSET Obj
    OBVIOUS
  <2>3. filetype' \in [Obj -> Ft \cup {NULL}]
    BY <2>1 DEF TypeOK
  <2>4. inits < MaxInits /\ inits' = inits + 1 /\ unloading' = FALSE
    BY <1>1, Zenon DEF StopAndInitAll
  <2>5. inits \in 0 .. MaxInits
    BY DEF TypeOK
  <2>6. inits' \in 0 .. MaxInits
    BY <2>4, <2>5
  <2>7. unloading' \in BOOLEAN
    BY <2>4
  <2> QED
    BY <2>1, <2>2, <2>3, <2>6, <2>7, StopAllType DEF TypeOK
<1>2. CASE TerminateAll
  <2>1. filetype' \in [Obj -> Ft \cup {NULL}]
    BY <1>2 DEF TerminateAll, TypeOK, With
  <2>2. lsp_servers' \in [Ft -> Obj \cup {NULL}]
    BY <1>2 DEF TerminateAll
  <2> QED
    BY <1>2, <2>1, <2>2, StopAllType DEF TerminateAll, TypeOK
<1>3. ASSUME NEW ft \in Ft, GetRunning(ft) PROVE TypeOK'
  BY <1>3 DEF GetRunning, TypeOK, Method, calls, objects, timers, Lookup
<1>4. ASSUME NEW ft \in Ft, NEW ok \in BOOLEAN, GetLaunch(ft, ok) PROVE TypeOK'
  <2> DEFINE s == Lookup(ft)
             t == IF RefLang[filetype[s]] = NULL THEN s
                  ELSE lsp_servers[RefLang[filetype[s]]]
  <2>1. s \in Obj /\ t \in Obj
    BY <1>4, LaunchTarget DEF GetLaunch, Launchable
  <2>2. /\ referenced' = IF RefLang[filetype[s]] = NULL THEN referenced
                         ELSE [referenced EXCEPT ![s] = t]
        /\ \/ /\ pending' = [pending EXCEPT ![t] = @ \cup {"request"}]
              /\ UNCHANGED <<pid, startup_shutdown, restarts>>
           \/ /\ StartServer(t, ok)
              /\ pid' = IF ok THEN [pid EXCEPT ![t] = "running"] ELSE pid
              /\ restarts' = IF ok THEN restarts ELSE [restarts EXCEPT ![t] = GiveUp]
        /\ UNCHANGED <<lsp_servers, servers_in_shutdown, heap, filetype, orphans,
                       kill_timers, free_timers, unloading, inits, fault>>
    BY <1>4 DEF GetLaunch, Launchable, timers
  <2> HIDE DEF s, t
  <2>3. referenced' \in [Obj -> Obj \cup {NULL}]
    BY <2>1, <2>2 DEF TypeOK
  <2>4. pid' \in [Obj -> Process]
    BY <2>1, <2>2 DEF TypeOK, Process
  <2>5. restarts' \in [Obj -> 0 .. GiveUp]
    <3>1. GiveUp \in 0 .. GiveUp
      OBVIOUS
    <3> QED
      BY <2>1, <2>2, <3>1 DEF TypeOK
  <2>6. startup_shutdown' \in [Obj -> BOOLEAN]
    BY <2>1, <2>2 DEF TypeOK, StartServer
  <2>7. pending' \in [Obj -> SUBSET Method]
    BY <2>1, <2>2 DEF TypeOK, StartServer, Method
  <2> QED
    BY <2>2, <2>3, <2>4, <2>5, <2>6, <2>7 DEF TypeOK
<1>5. ASSUME NEW ft \in Ft, GetDangling(ft) PROVE TypeOK'
  BY <1>5 DEF GetDangling, TypeOK, calls, objects, timers
<1>6. ASSUME NEW s \in Obj, ProcessExits(s) PROVE TypeOK'
  BY <1>6 DEF ProcessExits, TypeOK, Process, calls, timers
<1>7. ASSUME NEW s \in Obj, ProcessStoppedNormally(s) PROVE TypeOK'
  <2>1. orphans' \subseteq Obj \X {"initialize", "shutdown"}
    BY <1>7, OrphanedType DEF ProcessStoppedNormally, FreeServer
  <2>2. kill_timers' \subseteq KillTimer
    BY <1>7, StaledType DEF ProcessStoppedNormally, FreeServer
  <2>3. restarts' \in [Obj -> 0 .. GiveUp]
    <3>1. 0 \in 0 .. GiveUp
      OBVIOUS
    <3> QED
      BY <1>7, <3>1 DEF ProcessStoppedNormally, FreeServer, TypeOK
  <2> QED
    BY <1>7, <2>1, <2>2, <2>3 DEF ProcessStoppedNormally, FreeServer, TypeOK, Process, Method
<1>8. ASSUME NEW s \in Obj, ProcessCrashed(s) PROVE TypeOK'
  <2>1. /\ free_timers' \subseteq Obj
        /\ fault' \in {"none", "process_stopped"}
        /\ UNCHANGED <<servers_in_shutdown, referenced, orphans, kill_timers,
                       unloading, inits>>
    BY <1>8 DEF ProcessCrashed, TypeOK
  <2>2. CASE lsp_servers[filetype[s]] = NULL
    BY <1>8, <2>1, <2>2 DEF ProcessCrashed, TypeOK, Process
  <2>3. CASE lsp_servers[filetype[s]] # NULL
    <3>1. PICK n \in Obj \ heap, ok \in BOOLEAN :
             LET count == Restarted(s)
                 dead  == count >= DeadRestarts
                 run   == ok /\ ~dead
             IN /\ lsp_servers' = [lsp_servers EXCEPT ![filetype[s]] = n]
                /\ heap' = heap \cup {n}
                /\ filetype' = [filetype EXCEPT ![n] = filetype[s]]
                /\ restarts' = [restarts EXCEPT ![n] =
                                   IF dead \/ ok THEN count ELSE GiveUp]
                /\ pid' = [pid EXCEPT ![s] = "none",
                                      ![n] = IF run THEN "running" ELSE "none"]
                /\ StartServer(n, run)
      BY <1>8, <2>3 DEF ProcessCrashed
    <3>2. Restarted(s) \in 0 .. GiveUp /\ GiveUp \in 0 .. GiveUp
      BY DEF TypeOK, Restarted
    <3>3. restarts' \in [Obj -> 0 .. GiveUp]
      BY <3>1, <3>2 DEF TypeOK
    <3>4. filetype' \in [Obj -> Ft \cup {NULL}] /\ heap' \subseteq Obj
      BY <3>1 DEF TypeOK
    <3>5. lsp_servers' \in [Ft -> Obj \cup {NULL}]
      BY <3>1 DEF TypeOK
    <3>6. pid' \in [Obj -> Process]
      BY <3>1 DEF TypeOK, Process
    <3>7. startup_shutdown' \in [Obj -> BOOLEAN] /\ pending' \in [Obj -> SUBSET Method]
      BY <3>1 DEF TypeOK, Method, StartServer
    <3> QED
      BY <2>1, <3>3, <3>4, <3>5, <3>6, <3>7 DEF TypeOK
  <2> QED
    BY <2>2, <2>3
<1>9. ASSUME NEW s \in Obj, FreeServerAfterDelay(s) PROVE TypeOK'
  <2>1. orphans' \subseteq Obj \X {"initialize", "shutdown"}
    BY <1>9, OrphanedType DEF FreeServerAfterDelay, FreeServer
  <2>2. kill_timers' \subseteq KillTimer
    BY <1>9, StaledType DEF FreeServerAfterDelay, FreeServer
  <2>3. restarts' \in [Obj -> 0 .. GiveUp]
    <3>1. 0 \in 0 .. GiveUp
      OBVIOUS
    <3> QED
      BY <1>9, <3>1 DEF FreeServerAfterDelay, FreeServer, TypeOK
  <2> QED
    BY <1>9, <2>1, <2>2, <2>3 DEF FreeServerAfterDelay, FreeServer, TypeOK, Method
<1>10. ASSUME NEW s \in Obj, InitializeDone(s) PROVE TypeOK'
  BY <1>10 DEF InitializeDone, TypeOK, Method, timers
<1>11. ASSUME NEW s \in Obj, InitializeFailed(s) PROVE TypeOK'
  BY <1>11 DEF InitializeFailed, TypeOK, Method, Process, KillServer, timers
<1>12. ASSUME NEW s \in Obj, NEW ok \in BOOLEAN, ShutdownAnswered(s, ok) PROVE TypeOK'
  <2>1. pid' \in [Obj -> Process]
    BY <1>12, KillServerType DEF ShutdownAnswered, TypeOK
  <2>2. kill_timers' \subseteq KillTimer
    <3>1. Armed({s}, 2000) \subseteq KillTimer
      BY ArmedType
    <3>2. kill_timers' \subseteq kill_timers \cup Armed({s}, 2000)
      BY <1>12, SMTT(30) DEF ShutdownAnswered
    <3> HIDE DEF TypeOK
    <3>3. kill_timers \subseteq KillTimer
      BY DEF TypeOK
    <3> QED
      BY <3>1, <3>2, <3>3
  <2> QED
    BY <1>12, <2>1, <2>2 DEF ShutdownAnswered, TypeOK, Method
<1>13. ASSUME NEW s \in Obj, RequestAnswered(s) PROVE TypeOK'
  BY <1>13 DEF RequestAnswered, TypeOK, Method, objects, timers
<1>14. ASSUME NEW c \in orphans, OrphanFailed(c) PROVE TypeOK'
  <2>1. c[1] \in Obj
    BY DEF TypeOK
  <2>2. pid' \in [Obj -> Process]
    BY <1>14, <2>1, KillServerType DEF OrphanFailed, TypeOK
  <2>3. kill_timers' \subseteq KillTimer
    <3>1. Armed({c[1]}, 2000) \subseteq KillTimer
      BY <2>1, ArmedType
    <3>2. kill_timers' \subseteq kill_timers \cup Armed({c[1]}, 2000)
      BY <1>14 DEF OrphanFailed
    <3> HIDE DEF TypeOK
    <3>3. kill_timers \subseteq KillTimer
      BY DEF TypeOK
    <3> QED
      BY <3>1, <3>2, <3>3
  <2>4. orphans' \subseteq orphans /\ fault' \in {"none", "initialize_cb"}
    BY <1>14 DEF OrphanFailed
  <2> QED
    BY <1>14, <2>2, <2>3, <2>4 DEF OrphanFailed, TypeOK
<1>15. ASSUME NEW t \in kill_timers, KillTimeout(t) PROVE TypeOK'
  BY <1>15 DEF KillTimeout, TypeOK, Process, KillServer, calls
<1> QED
  BY <1>1, <1>2, <1>3, <1>4, <1>5, <1>6, <1>7, <1>8, <1>9, <1>10, <1>11,
     <1>12, <1>13, <1>14, <1>15 DEF Next

-----------------------------------------------------------------------------
(* The slots, the two lists and the objects *)

\* A step that moves no server between the slots, the lists and the heap, and
\* takes no process away, preserves the rest of the invariant.
LEMMA QuietStep ==
    ASSUME IInv, fault = "none",
           UNCHANGED <<lsp_servers, servers_in_shutdown, heap, filetype, restarts,
                       referenced, free_timers>>,
           \A s \in Obj : (pid'[s] = "none") <=> (pid[s] = "none"),
           \A s \in Obj \ heap : ~startup_shutdown'[s] /\ pending'[s] = {}
    PROVE  SlotServersCurrent' /\ FreedServersForgotten' /\ ShutdownHasProcess'
<1>1. SlotServersCurrent'
  BY DEF IInv, SlotServersCurrent
<1>2. FreedServersForgotten'
  BY DEF IInv, FreedServersForgotten
<1>3. ShutdownHasProcess'
  BY DEF IInv, TypeOK, ShutdownHasProcess
<1> QED
  BY <1>1, <1>2, <1>3

\* lsp_server_stop_all() and the allocation of the new servers.
LEMMA StopAllStep ==
    ASSUME IInv, fault = "none", NEW slot \in [Ft -> Obj \cup {NULL}],
           NEW new, new = {slot[ft] : ft \in Ft} \ {NULL},
           StopAll(new), new \cap (heap \ Freed) = {},
           lsp_servers' = slot, filetype' \in [Obj -> Ft \cup {NULL}],
           \A ft1, ft2 \in Ft : slot[ft1] = NULL => slot[ft2] = NULL,
           \A ft \in Ft : slot[ft] # NULL => filetype'[slot[ft]] = ft,
           \A o \in Obj \ new : filetype'[o] = IF o \in Freed THEN NULL ELSE filetype[o]
    PROVE  SlotServersCurrent' /\ FreedServersForgotten' /\ ShutdownHasProcess'
<1>1. /\ Slotted \subseteq heap
      /\ Slotted \cap servers_in_shutdown = {}
      /\ Slotted \cap free_timers = {}
      /\ Slotted \subseteq Obj
      /\ Stopped \subseteq Slotted \ Freed
      /\ Freed \subseteq Slotted
  BY DEF IInv, SlotServersCurrent, Slotted, TypeOK, Stopped, Freed
<1>2. /\ servers_in_shutdown' = servers_in_shutdown \cup Stopped
      /\ heap' = (heap \ Freed) \cup new
      /\ UNCHANGED <<pid, free_timers, fault>>
  BY DEF StopAll
<1>3. \A s \in Obj \ heap' :
         /\ ~startup_shutdown'[s]
         /\ restarts'[s] = 0
         /\ referenced'[s] = NULL
         /\ pending'[s] = {}
         /\ pid'[s] = "none"
  <2> SUFFICES ASSUME NEW s \in Obj \ heap'
               PROVE  /\ ~startup_shutdown'[s]
                      /\ restarts'[s] = 0
                      /\ referenced'[s] = NULL
                      /\ pending'[s] = {}
                      /\ pid'[s] = "none"
    OBVIOUS
  <2>1. CASE s \in Freed
    <3>1. s \notin Stopped /\ pid[s] = "none"
      BY <1>1, <2>1 DEF Freed
    <3> QED
      BY <1>2, <2>1, <3>1 DEF StopAll, With
  <2>2. CASE s \notin Freed
    <3>1. s \notin heap /\ s \notin Stopped
      BY <1>1, <1>2, <2>2
    <3> QED
      BY <1>2, <2>2, <3>1 DEF StopAll, With, IInv, FreedServersForgotten
  <2> QED
    BY <2>1, <2>2
<1>4. SlotServersCurrent'
  <2> SUFFICES ASSUME NEW ft \in Ft, slot[ft] # NULL
               PROVE  /\ slot[ft] \in heap'
                      /\ filetype'[slot[ft]] = ft
                      /\ slot[ft] \notin servers_in_shutdown'
                      /\ slot[ft] \notin free_timers'
    BY DEF SlotServersCurrent
  <2>1. slot[ft] \in new
    OBVIOUS
  <2>2. slot[ft] \notin heap \/ slot[ft] \in Freed
    BY <2>1
  <2>3. /\ servers_in_shutdown \subseteq heap \ Freed
        /\ free_timers \subseteq heap \ Freed
        /\ Stopped \subseteq heap \ Freed
    BY <1>1 DEF IInv, FreedServersForgotten
  <2> QED
    BY <1>2, <2>1, <2>2, <2>3
<1>5. FreedServersForgotten'
  <2>1. servers_in_shutdown' \subseteq heap' /\ free_timers' \subseteq heap'
    BY <1>1, <1>2 DEF IInv, FreedServersForgotten
  <2>2. servers_in_shutdown' \cap free_timers' = {}
    BY <1>1, <1>2 DEF IInv, FreedServersForgotten
  <2>3. \A s \in heap' : filetype'[s] \in Ft
    <3> SUFFICES ASSUME NEW s \in heap' PROVE filetype'[s] \in Ft
      OBVIOUS
    <3>1. CASE s \in new
      BY <3>1
    <3>2. CASE s \notin new
      BY <1>2, <3>2 DEF IInv, FreedServersForgotten, TypeOK
    <3> QED
      BY <3>1, <3>2
  <2> QED
    BY <1>3, <2>1, <2>2, <2>3 DEF FreedServersForgotten
<1>6. ShutdownHasProcess'
  BY <1>1, <1>2 DEF IInv, ShutdownHasProcess, Stopped
<1> QED
  BY <1>4, <1>5, <1>6

LEMMA SafeStep ==
    ASSUME IInv, Next, TypeOK'
    PROVE  SlotServersCurrent' /\ FreedServersForgotten' /\ ShutdownHasProcess'
<1> TypeOK /\ fault = "none"
  BY DEF IInv, Next
<1> DEFINE Goal == SlotServersCurrent' /\ FreedServersForgotten' /\ ShutdownHasProcess'
<1>1. CASE StopAndInitAll
  <2>1. PICK slot \in [Ft -> Obj] :
           /\ \A ft1, ft2 \in Ft : slot[ft1] = slot[ft2] => ft1 = ft2
           /\ {slot[ft] : ft \in Ft} \cap
                 (heap \ Freed) = {}
           /\ StopAll({slot[ft] : ft \in Ft})
           /\ lsp_servers' = slot
           /\ filetype' = [o \in Obj |->
                 IF o \in {slot[ft] : ft \in Ft} THEN CHOOSE ft \in Ft : slot[ft] = o
                 ELSE IF o \in Freed THEN NULL
                 ELSE filetype[o]]
    BY <1>1, Zenon DEF StopAndInitAll
  <2>2. {slot[ft] : ft \in Ft} = {slot[ft] : ft \in Ft} \ {NULL}
    OBVIOUS
  <2>3. \A ft \in Ft : slot[ft] # NULL /\ filetype'[slot[ft]] = ft
    BY <2>1
  <2>4. slot \in [Ft -> Obj \cup {NULL}]
    OBVIOUS
  <2>5. \A o \in Obj \ {slot[ft] : ft \in Ft} :
           filetype'[o] = IF o \in Freed THEN NULL
                          ELSE filetype[o]
    BY <2>1
  <2>6. filetype' \in [Obj -> Ft \cup {NULL}]
    BY DEF TypeOK
  <2> QED
    BY <2>1, <2>2, <2>3, <2>4, <2>5, <2>6, StopAllStep
<1>2. CASE TerminateAll
  <2> DEFINE slot == [ft \in Ft |-> NULL]
  <2>1. slot \in [Ft -> Obj \cup {NULL}] /\ {} = {slot[ft] : ft \in Ft} \ {NULL}
    OBVIOUS
  <2>2. /\ lsp_servers' = slot /\ StopAll({})
        /\ filetype' = With(filetype, Freed, NULL)
    BY <1>2 DEF TerminateAll
  <2>3. \A o \in Obj \ {} : filetype'[o] = IF o \in Freed
                                           THEN NULL ELSE filetype[o]
    BY <2>2 DEF With
  <2>4. /\ \A ft1, ft2 \in Ft : slot[ft1] = NULL => slot[ft2] = NULL
        /\ \A ft \in Ft : slot[ft] # NULL => filetype'[slot[ft]] = ft
        /\ {} \cap (heap \ Freed) = {}
    OBVIOUS
  <2>5. filetype' \in [Obj -> Ft \cup {NULL}]
    BY DEF TypeOK
  <2> HIDE DEF slot
  <2> QED
    BY <2>1, <2>2, <2>3, <2>4, <2>5, StopAllStep
<1>3. ASSUME NEW ft \in Ft, GetRunning(ft) PROVE Goal
  BY <1>3, QuietStep DEF GetRunning, IInv, TypeOK, FreedServersForgotten,
                         objects, timers
<1>4. ASSUME NEW ft \in Ft, NEW ok \in BOOLEAN, GetLaunch(ft, ok) PROVE Goal
  <2> DEFINE s == Lookup(ft)
             t == IF RefLang[filetype[s]] = NULL THEN s
                  ELSE lsp_servers[RefLang[filetype[s]]]
  <2>1. s \in Obj /\ t \in Obj /\ s \in heap /\ t \in heap
    BY <1>4, LaunchTarget DEF GetLaunch, Launchable
  <2>2. /\ referenced' = IF RefLang[filetype[s]] = NULL THEN referenced
                         ELSE [referenced EXCEPT ![s] = t]
        /\ \/ /\ pending' = [pending EXCEPT ![t] = @ \cup {"request"}]
              /\ UNCHANGED <<pid, startup_shutdown, restarts>>
           \/ /\ StartServer(t, ok)
              /\ pid' = IF ok THEN [pid EXCEPT ![t] = "running"] ELSE pid
              /\ restarts' = IF ok THEN restarts ELSE [restarts EXCEPT ![t] = GiveUp]
        /\ UNCHANGED <<lsp_servers, servers_in_shutdown, heap, filetype, orphans,
                       kill_timers, free_timers, unloading, inits, fault>>
    BY <1>4 DEF GetLaunch, Launchable, timers
  <2> HIDE DEF s, t
  <2>3. SlotServersCurrent'
    BY <2>2 DEF IInv, SlotServersCurrent
  <2>4. \A o \in Obj \ heap :
           /\ ~startup_shutdown'[o]
           /\ restarts'[o] = 0
           /\ referenced'[o] = NULL
           /\ pending'[o] = {}
           /\ pid'[o] = "none"
    BY <2>1, <2>2 DEF IInv, TypeOK, FreedServersForgotten, StartServer
  <2>5. FreedServersForgotten'
    BY <2>2, <2>4 DEF IInv, FreedServersForgotten
  <2>6. ShutdownHasProcess'
    BY <2>1, <2>2 DEF IInv, TypeOK, ShutdownHasProcess
  <2> QED
    BY <2>3, <2>5, <2>6
<1>5. ASSUME NEW ft \in Ft, GetDangling(ft) PROVE Goal
  BY <1>5, QuietStep DEF GetDangling, IInv, FreedServersForgotten, objects, calls, timers
<1>6. ASSUME NEW s \in Obj, ProcessExits(s) PROVE Goal
  BY <1>6, QuietStep DEF ProcessExits, IInv, TypeOK, FreedServersForgotten, calls, timers
<1>7. ASSUME NEW s \in Obj, ProcessStoppedNormally(s) PROVE Goal
  <2>1. \A ft \in Ft : lsp_servers[ft] # s
    BY <1>7 DEF ProcessStoppedNormally, FreeServer, IInv, SlotServersCurrent
  <2>2. SlotServersCurrent'
    BY <1>7, <2>1 DEF ProcessStoppedNormally, FreeServer, IInv, TypeOK, SlotServersCurrent
  <2>3. FreedServersForgotten'
    BY <1>7 DEF ProcessStoppedNormally, FreeServer, IInv, TypeOK, FreedServersForgotten
  <2>4. ShutdownHasProcess'
    BY <1>7 DEF ProcessStoppedNormally, FreeServer, IInv, TypeOK, ShutdownHasProcess
  <2> QED
    BY <2>2, <2>3, <2>4
<1>8. ASSUME NEW s \in Obj, ProcessCrashed(s) PROVE Goal
  <2>1. /\ s \in heap /\ filetype[s] \in Ft
        /\ s \notin servers_in_shutdown
        /\ free_timers' = free_timers \cup {s}
        /\ UNCHANGED <<servers_in_shutdown, referenced>>
    BY <1>8 DEF ProcessCrashed, IInv, FreedServersForgotten
  <2>2. CASE lsp_servers[filetype[s]] = NULL
    <3>1. /\ pid' = [pid EXCEPT ![s] = "none"]
          /\ UNCHANGED <<lsp_servers, heap, filetype, startup_shutdown, restarts, pending>>
      BY <1>8, <2>2 DEF ProcessCrashed
    <3>2. \A ft \in Ft : lsp_servers[ft] = NULL
      BY <2>1, <2>2 DEF IInv, SlotServersCurrent
    <3>3. SlotServersCurrent'
      BY <3>1, <3>2 DEF SlotServersCurrent
    <3>4. FreedServersForgotten'
      BY <2>1, <3>1 DEF IInv, TypeOK, FreedServersForgotten
    <3>5. ShutdownHasProcess'
      BY <2>1, <3>1 DEF IInv, TypeOK, ShutdownHasProcess
    <3> QED
      BY <3>3, <3>4, <3>5
  <2>3. CASE lsp_servers[filetype[s]] # NULL
    <3>1. PICK n \in Obj \ heap, run \in BOOLEAN :
             /\ lsp_servers' = [lsp_servers EXCEPT ![filetype[s]] = n]
             /\ heap' = heap \cup {n}
             /\ filetype' = [filetype EXCEPT ![n] = filetype[s]]
             /\ \A o \in Obj : o # n => restarts'[o] = restarts[o]
             /\ pid' = [pid EXCEPT ![s] = "none",
                                   ![n] = IF run THEN "running" ELSE "none"]
             /\ StartServer(n, run)
      <4>1. PICK n \in Obj \ heap, ok \in BOOLEAN :
               LET count == Restarted(s)
                   dead  == count >= DeadRestarts
                   run   == ok /\ ~dead
               IN /\ lsp_servers' = [lsp_servers EXCEPT ![filetype[s]] = n]
                  /\ heap' = heap \cup {n}
                  /\ filetype' = [filetype EXCEPT ![n] = filetype[s]]
                  /\ restarts' = [restarts EXCEPT ![n] =
                                     IF dead \/ ok THEN count ELSE GiveUp]
                  /\ pid' = [pid EXCEPT ![s] = "none",
                                        ![n] = IF run THEN "running" ELSE "none"]
                  /\ StartServer(n, run)
        BY <1>8, <2>3 DEF ProcessCrashed
      <4>2. \A o \in Obj : o # n => restarts'[o] = restarts[o]
        BY <4>1 DEF TypeOK
      <4> QED
        BY <4>1, <4>2
    <3>2. n # s /\ n \notin servers_in_shutdown /\ n \notin free_timers
      BY <2>1 DEF IInv, FreedServersForgotten
    <3>3. SlotServersCurrent'
      <4> SUFFICES ASSUME NEW ft \in Ft
                   PROVE  /\ lsp_servers'[ft] # NULL
                          /\ lsp_servers'[ft] \in heap'
                          /\ filetype'[lsp_servers'[ft]] = ft
                          /\ lsp_servers'[ft] \notin servers_in_shutdown'
                          /\ lsp_servers'[ft] \notin free_timers'
        BY DEF SlotServersCurrent
      <4>1. lsp_servers[ft] # NULL
        BY <2>1, <2>3 DEF IInv, SlotServersCurrent
      <4>2. CASE ft = filetype[s]
        BY <2>1, <3>1, <3>2, <4>2 DEF TypeOK
      <4>3. CASE ft # filetype[s]
        <5>1. lsp_servers'[ft] = lsp_servers[ft]
          BY <3>1, <4>3 DEF TypeOK
        <5>2. /\ lsp_servers[ft] \in heap /\ lsp_servers[ft] \in Obj
              /\ filetype[lsp_servers[ft]] = ft
              /\ lsp_servers[ft] \notin servers_in_shutdown
              /\ lsp_servers[ft] \notin free_timers
          BY <4>1 DEF IInv, TypeOK, SlotServersCurrent
        <5>3. lsp_servers[ft] # s /\ lsp_servers[ft] # n
          BY <4>3, <5>2
        <5> QED
          BY <2>1, <3>1, <4>1, <5>1, <5>2, <5>3 DEF TypeOK
      <4> QED
        BY <4>2, <4>3
    <3>4. \A o \in Obj \ heap' :
             /\ ~startup_shutdown'[o]
             /\ restarts'[o] = 0
             /\ referenced'[o] = NULL
             /\ pending'[o] = {}
             /\ pid'[o] = "none"
      BY <2>1, <3>1 DEF IInv, TypeOK, FreedServersForgotten, StartServer
    <3>5. FreedServersForgotten'
      BY <2>1, <3>1, <3>2, <3>4 DEF IInv, TypeOK, FreedServersForgotten
    <3>6. ShutdownHasProcess'
      BY <2>1, <3>1, <3>2 DEF IInv, TypeOK, ShutdownHasProcess
    <3> QED
      BY <3>3, <3>5, <3>6
  <2> QED
    BY <2>2, <2>3
<1>9. ASSUME NEW s \in Obj, FreeServerAfterDelay(s) PROVE Goal
  <2>1. \A ft \in Ft : lsp_servers[ft] # s
    BY <1>9 DEF FreeServerAfterDelay, FreeServer, IInv, SlotServersCurrent
  <2>2. SlotServersCurrent'
    BY <1>9, <2>1 DEF FreeServerAfterDelay, FreeServer, IInv, TypeOK, SlotServersCurrent
  <2>3. FreedServersForgotten'
    BY <1>9 DEF FreeServerAfterDelay, FreeServer, IInv, TypeOK, FreedServersForgotten
  <2>4. ShutdownHasProcess'
    BY <1>9 DEF FreeServerAfterDelay, FreeServer, IInv, TypeOK, ShutdownHasProcess,
                FreedServersForgotten
  <2> QED
    BY <2>2, <2>3, <2>4
<1>10. ASSUME NEW s \in Obj, InitializeDone(s) PROVE Goal
  BY <1>10, QuietStep DEF InitializeDone, IInv, TypeOK, FreedServersForgotten, timers
<1>11. ASSUME NEW s \in Obj, InitializeFailed(s) PROVE Goal
  BY <1>11, QuietStep DEF InitializeFailed, IInv, TypeOK, FreedServersForgotten,
                          KillServer, timers
<1>12. ASSUME NEW s \in Obj, NEW ok \in BOOLEAN, ShutdownAnswered(s, ok) PROVE Goal
  BY <1>12, QuietStep DEF ShutdownAnswered, IInv, TypeOK, FreedServersForgotten,
                          KillServer
<1>13. ASSUME NEW s \in Obj, RequestAnswered(s) PROVE Goal
  BY <1>13, QuietStep DEF RequestAnswered, IInv, TypeOK, FreedServersForgotten,
                          objects, timers
<1>14. ASSUME NEW c \in orphans, OrphanFailed(c) PROVE Goal
  <2>1. c[1] \in Obj
    BY DEF TypeOK
  <2> QED
    BY <1>14, <2>1, QuietStep DEF OrphanFailed, IInv, TypeOK, FreedServersForgotten,
                                  KillServer
<1>15. ASSUME NEW t \in kill_timers, KillTimeout(t) PROVE Goal
  BY <1>15, QuietStep DEF KillTimeout, IInv, TypeOK, FreedServersForgotten,
                          KillServer, calls
<1> QED
  BY <1>1, <1>2, <1>3, <1>4, <1>5, <1>6, <1>7, <1>8, <1>9, <1>10, <1>11,
     <1>12, <1>13, <1>14, <1>15 DEF Next

LEMMA Invariance == Spec => []IInv
<1>1. IInv /\ [Next]_vars => IInv'
  <2> SUFFICES ASSUME IInv, [Next]_vars PROVE IInv'
    OBVIOUS
  <2>1. CASE Next
    BY <2>1, TypeStep, SafeStep DEF IInv
  <2>2. CASE UNCHANGED vars
    BY <2>2 DEF vars, objects, calls, timers, IInv, TypeOK, SlotServersCurrent,
                FreedServersForgotten, ShutdownHasProcess
  <2> QED
    BY <2>1, <2>2
<1> QED
  BY InitIInv, <1>1, PTL DEF Spec

\* Every variable has its type, for all the constants.
THEOREM TypeCorrect == Spec => []TypeOK
<1>1. IInv => TypeOK
  BY DEF IInv
<1> QED
  BY <1>1, Invariance, PTL

\* The slots always hold usable servers, in every configuration: whatever order
\* crashes, restarts, unloads and reuses of an address come in.
THEOREM SlotsCurrent == Spec => []SlotServersCurrent
<1>1. IInv => SlotServersCurrent
  BY DEF IInv
<1> QED
  BY <1>1, Invariance, PTL

\* An address is handed out again only when no list and no call knows it.
THEOREM FreedForgotten == Spec => []FreedServersForgotten
<1>1. IInv => FreedServersForgotten
  BY DEF IInv
<1> QED
  BY <1>1, Invariance, PTL

\* A server in shutdown has a process whose end will take it out of the array.
THEOREM ShutdownWaitsForProcess == Spec => []ShutdownHasProcess
<1>1. IInv => ShutdownHasProcess
  BY DEF IInv
<1> QED
  BY <1>1, Invariance, PTL

-----------------------------------------------------------------------------
(* No deaf server outlives its shutdown *)

\* A step that stops no server and whose processes only go on to their end.
LEMMA KilledQuiet ==
    ASSUME IInv, ShutdownWillBeKilled, TypeOK',
           servers_in_shutdown' \subseteq servers_in_shutdown,
           \A s \in servers_in_shutdown' :
              pid'[s] = pid[s] \/ pid'[s] \in {"killed", "exited"},
           \A t \in kill_timers : t.srv \in servers_in_shutdown' /\ ~t.stale =>
              \/ \E u \in kill_timers' : u.srv = t.srv /\ ~u.stale
              \/ pid'[t.srv] \in {"killed", "exited"}
    PROVE  ShutdownWillBeKilled'
BY DEF ShutdownWillBeKilled

\* The timeouts of the servers that are not freed stay what they are.
LEMMA StaledKeeps ==
    ASSUME NEW F, NEW t \in kill_timers, t.srv \notin F, t \in KillTimer
    PROVE  t \in Staled(F)
<1>1. t = [srv |-> t.srv, delay |-> t.delay, stale |-> t.stale \/ t.srv \in F]
  BY DEF KillTimer
<1> QED
  BY <1>1 DEF Staled

LEMMA ArmedHas ==
    ASSUME NEW S, NEW s \in S, NEW d
    PROVE  \E t \in Armed(S, d) : t.srv = s /\ ~t.stale
<1> DEFINE t == [srv |-> s, delay |-> d, stale |-> FALSE]
<1>1. t \in Armed(S, d)
  BY DEF Armed
<1>2. t.srv = s /\ ~t.stale
  OBVIOUS
<1> QED
  BY <1>1, <1>2

LEMMA StopAllKilled ==
    ASSUME IInv, ShutdownWillBeKilled, TypeOK', NEW slots, StopAll(slots)
    PROVE  ShutdownWillBeKilled'
<1>1. /\ servers_in_shutdown' = servers_in_shutdown \cup Stopped
      /\ kill_timers' = Staled(Freed) \cup Armed(Stopped, 4000)
      /\ pid' = pid
  BY DEF StopAll
<1>2. Freed \cap servers_in_shutdown = {}
  BY DEF IInv, SlotServersCurrent, Slotted, Freed
<1> SUFFICES ASSUME NEW s \in servers_in_shutdown'
             PROVE  \/ \E t \in kill_timers' : t.srv = s /\ ~t.stale
                    \/ pid'[s] \in {"killed", "exited"}
  BY DEF ShutdownWillBeKilled
<1>3. CASE s \in Stopped
  <2>1. \E t \in Armed(Stopped, 4000) : t.srv = s /\ ~t.stale
    BY <1>3, ArmedHas
  <2> QED
    BY <1>1, <2>1
<1>4. CASE s \in servers_in_shutdown
  <2>1. CASE pid[s] \in {"killed", "exited"}
    BY <1>1, <2>1
  <2>2. CASE \E t \in kill_timers : t.srv = s /\ ~t.stale
    <3>1. PICK t \in kill_timers : t.srv = s /\ ~t.stale
      BY <2>2
    <3>2. t \in KillTimer
      BY DEF IInv, TypeOK
    <3>3. t \in Staled(Freed)
      BY <1>2, <1>4, <3>1, <3>2, StaledKeeps
    <3> QED
      BY <1>1, <3>1, <3>3
  <2> QED
    BY <1>4, <2>1, <2>2 DEF ShutdownWillBeKilled
<1> QED
  BY <1>1, <1>3, <1>4

\* free_server() of one object leaves the timeouts of the others.
LEMMA FreeKilled ==
    ASSUME IInv, ShutdownWillBeKilled, TypeOK', NEW f \in Obj,
           f \notin servers_in_shutdown',
           servers_in_shutdown' \subseteq servers_in_shutdown,
           \A s \in Obj : s # f => pid'[s] = pid[s],
           kill_timers' = Staled({f})
    PROVE  ShutdownWillBeKilled'
<1>1. \A s \in servers_in_shutdown' : pid'[s] = pid[s]
  BY DEF TypeOK
<1>2. ASSUME NEW t \in kill_timers, t.srv \in servers_in_shutdown', ~t.stale
      PROVE  \E u \in kill_timers' : u.srv = t.srv /\ ~u.stale
  <2>1. t \in KillTimer /\ t.srv \notin {f}
    BY <1>2 DEF IInv, TypeOK
  <2>2. t \in Staled({f})
    BY <2>1, StaledKeeps
  <2> QED
    BY <1>2, <2>2
<1> QED
  BY <1>1, <1>2, KilledQuiet

LEMMA KilledStep ==
    ASSUME IInv, IInv', ShutdownWillBeKilled, Next
    PROVE  ShutdownWillBeKilled'
<1> TypeOK /\ TypeOK'
  BY DEF IInv
<1> \A s \in servers_in_shutdown : s \in Obj /\ pid[s] # "none"
  BY DEF IInv, ShutdownHasProcess, TypeOK
<1>1. CASE StopAndInitAll
  <2>1. \E slots : StopAll(slots)
    BY <1>1, Zenon DEF StopAndInitAll
  <2> QED
    BY <2>1, StopAllKilled
<1>2. CASE TerminateAll
  BY <1>2, StopAllKilled DEF TerminateAll
<1>3. ASSUME NEW ft \in Ft, GetRunning(ft) PROVE ShutdownWillBeKilled'
  BY <1>3, KilledQuiet DEF GetRunning, objects, timers
<1>4. ASSUME NEW ft \in Ft, NEW ok \in BOOLEAN, GetLaunch(ft, ok)
      PROVE  ShutdownWillBeKilled'
  <2> DEFINE s == Lookup(ft)
             t == IF RefLang[filetype[s]] = NULL THEN s
                  ELSE lsp_servers[RefLang[filetype[s]]]
  <2>1. t \in Obj
    BY <1>4, LaunchTarget DEF GetLaunch, Launchable, Next
  <2>2. /\ pid' = pid \/ (pid[t] = "none" /\ pid' = [pid EXCEPT ![t] = "running"])
        /\ UNCHANGED <<servers_in_shutdown, kill_timers>>
    BY <1>4 DEF GetLaunch, Launchable, timers
  <2> HIDE DEF s, t
  <2>3. \A o \in servers_in_shutdown : pid'[o] = pid[o]
    BY <2>1, <2>2 DEF TypeOK
  <2> QED
    BY <2>2, <2>3, KilledQuiet
<1>5. ASSUME NEW ft \in Ft, GetDangling(ft) PROVE ShutdownWillBeKilled'
  BY <1>5, KilledQuiet DEF GetDangling, objects, timers
<1>6. ASSUME NEW s \in Obj, ProcessExits(s) PROVE ShutdownWillBeKilled'
  BY <1>6, KilledQuiet DEF ProcessExits, TypeOK, timers
<1>7. ASSUME NEW s \in Obj, ProcessStoppedNormally(s) PROVE ShutdownWillBeKilled'
  BY <1>7, FreeKilled DEF ProcessStoppedNormally, FreeServer, TypeOK
<1>8. ASSUME NEW s \in Obj, ProcessCrashed(s) PROVE ShutdownWillBeKilled'
  <2>1. UNCHANGED <<servers_in_shutdown, kill_timers>>
    BY <1>8 DEF ProcessCrashed
  <2>2. \A o \in servers_in_shutdown : o # s /\ o \in heap
    BY <1>8 DEF ProcessCrashed, IInv, FreedServersForgotten
  <2>3. \A o \in servers_in_shutdown : pid'[o] = pid[o]
    BY <1>8, <2>2 DEF ProcessCrashed, TypeOK
  <2> QED
    BY <2>1, <2>3, KilledQuiet
<1>9. ASSUME NEW s \in Obj, FreeServerAfterDelay(s) PROVE ShutdownWillBeKilled'
  <2>1. s \notin servers_in_shutdown
    BY <1>9 DEF FreeServerAfterDelay, FreeServer, IInv, FreedServersForgotten
  <2> QED
    BY <1>9, <2>1, FreeKilled DEF FreeServerAfterDelay, FreeServer
<1>10. ASSUME NEW s \in Obj, InitializeDone(s) PROVE ShutdownWillBeKilled'
  BY <1>10, KilledQuiet DEF InitializeDone, timers
<1>11. ASSUME NEW s \in Obj, InitializeFailed(s) PROVE ShutdownWillBeKilled'
  BY <1>11, KilledQuiet DEF InitializeFailed, KillServer, TypeOK, timers
<1>12. ASSUME NEW s \in Obj, NEW ok \in BOOLEAN, ShutdownAnswered(s, ok)
       PROVE  ShutdownWillBeKilled'
  BY <1>12, KilledQuiet DEF ShutdownAnswered, KillServer, TypeOK
<1>13. ASSUME NEW s \in Obj, RequestAnswered(s) PROVE ShutdownWillBeKilled'
  BY <1>13, KilledQuiet DEF RequestAnswered, objects, timers
<1>14. ASSUME NEW c \in orphans, OrphanFailed(c) PROVE ShutdownWillBeKilled'
  <2>1. /\ pid' \in {pid, KillServer(c[1], pid)}
        /\ kill_timers \subseteq kill_timers'
        /\ UNCHANGED servers_in_shutdown
    BY <1>14 DEF OrphanFailed
  <2>2. c[1] \in Obj
    BY DEF TypeOK
  <2>3. \A s \in Obj : pid'[s] = pid[s] \/ pid'[s] \in {"killed", "exited"}
    BY <2>1, <2>2 DEF KillServer, TypeOK
  <2> QED
    BY <2>1, <2>3, KilledQuiet
<1>15. ASSUME NEW t \in kill_timers, KillTimeout(t) PROVE ShutdownWillBeKilled'
  <2>1. t.srv \in Obj
    BY DEF TypeOK, KillTimer
  <2>2. /\ kill_timers' = kill_timers \ {t}
        /\ pid' = IF t.srv \in servers_in_shutdown THEN KillServer(t.srv, pid) ELSE pid
        /\ UNCHANGED servers_in_shutdown
    BY <1>15 DEF KillTimeout
  <2>3. \A s \in servers_in_shutdown :
           pid'[s] = pid[s] \/ pid'[s] \in {"killed", "exited"}
    BY <2>1, <2>2 DEF KillServer, TypeOK
  <2>4. t.srv \in servers_in_shutdown => pid'[t.srv] \in {"killed", "exited"}
    BY <2>1, <2>2 DEF KillServer, TypeOK, Process
  <2>5. ASSUME NEW u \in kill_timers, u.srv \in servers_in_shutdown', ~u.stale
        PROVE  \/ \E v \in kill_timers' : v.srv = u.srv /\ ~v.stale
               \/ pid'[u.srv] \in {"killed", "exited"}
    BY <2>2, <2>4, <2>5
  <2> QED
    BY <2>2, <2>3, <2>5, KilledQuiet
<1> QED
  BY <1>1, <1>2, <1>3, <1>4, <1>5, <1>6, <1>7, <1>8, <1>9, <1>10, <1>11,
     <1>12, <1>13, <1>14, <1>15 DEF Next

\* The timeout or the signal: a server in servers_in_shutdown is never left with
\* neither, for all the constants.
THEOREM ShutdownKilled == Spec => []ShutdownWillBeKilled
<1>1. Init => ShutdownWillBeKilled
  BY DEF Init, ShutdownWillBeKilled
<1>2. IInv /\ IInv' /\ ShutdownWillBeKilled /\ [Next]_vars => ShutdownWillBeKilled'
  <2>1. UNCHANGED vars /\ ShutdownWillBeKilled => ShutdownWillBeKilled'
    BY DEF vars, objects, timers, ShutdownWillBeKilled
  <2> QED
    BY KilledStep, <2>1
<1> QED
  BY <1>1, <1>2, Invariance, PTL DEF Spec

-----------------------------------------------------------------------------
(* No process is lost where each filetype has a server of its own *)

\* s->referenced is never set without a ref_lang.
NoReference == \A s \in Obj : referenced[s] = NULL

OwnInv == NoReference /\ NoStrayProcess /\ CrashedServerOutOfReach

\* A step that takes no server out of a slot or a list and starts no process.
LEMMA OwnQuiet ==
    ASSUME IInv, OwnInv,
           UNCHANGED <<lsp_servers, servers_in_shutdown, heap, referenced, free_timers>>,
           \A s \in Obj : (pid'[s] = "none") <=> (pid[s] = "none")
    PROVE  OwnInv'
<1>1. Slotted' = Slotted
  BY DEF Slotted
<1>2. NoReference' /\ NoStrayProcess'
  BY <1>1 DEF OwnInv, NoReference, NoStrayProcess
<1>3. CrashedServerOutOfReach'
  BY DEF IInv, TypeOK, OwnInv, CrashedServerOutOfReach
<1> QED
  BY <1>2, <1>3 DEF OwnInv

LEMMA OwnStopAll ==
    ASSUME IInv, IInv', OwnInv, NEW slots, StopAll(slots)
    PROVE  OwnInv'
<1>1. /\ servers_in_shutdown' =
            servers_in_shutdown \cup
              ({s \in Slotted : pid[s] # "none"} \ servers_in_shutdown)
      /\ UNCHANGED <<pid, free_timers>>
      /\ \A s \in Obj : referenced'[s] = NULL
  BY DEF StopAll, Stopped, With, OwnInv, NoReference
<1>2. NoStrayProcess'
  BY <1>1 DEF OwnInv, NoStrayProcess
<1>3. CrashedServerOutOfReach'
  BY <1>1 DEF OwnInv, CrashedServerOutOfReach, IInv, FreedServersForgotten
<1> QED
  BY <1>1, <1>2, <1>3 DEF OwnInv, NoReference

LEMMA OwnStep ==
    ASSUME \A ft \in Ft : RefLang[ft] = NULL, IInv, IInv', OwnInv, Next
    PROVE  OwnInv'
<1> TypeOK /\ TypeOK' /\ fault = "none"
  BY DEF IInv, Next
<1> \A s \in heap : s \in Obj /\ filetype[s] \in Ft
  BY DEF IInv, TypeOK, FreedServersForgotten
<1>1. CASE StopAndInitAll
  <2>1. \E slots : StopAll(slots)
    BY <1>1, Zenon DEF StopAndInitAll
  <2> QED
    BY <2>1, OwnStopAll
<1>2. CASE TerminateAll
  BY <1>2, OwnStopAll DEF TerminateAll
<1>3. ASSUME NEW ft \in Ft, GetRunning(ft) PROVE OwnInv'
  BY <1>3, OwnQuiet DEF GetRunning, objects, timers
<1>4. ASSUME NEW ft \in Ft, NEW ok \in BOOLEAN, GetLaunch(ft, ok) PROVE OwnInv'
  <2> DEFINE s == lsp_servers[ft]
  <2>1. s \in Obj /\ s \in Slotted /\ Lookup(ft) = s
    BY <1>4, ZenonT(30) DEF GetLaunch, Launchable, Slotted, TypeOK, Lookup, OwnInv, NoReference
  <2>2. RefLang[filetype[s]] = NULL
    BY <1>4, <2>1 DEF GetLaunch, Launchable
  <2>3. s \notin free_timers
    BY <1>4 DEF GetLaunch, Launchable, IInv, SlotServersCurrent
  <2>4. /\ referenced' = referenced
        /\ pid' \in {pid, [pid EXCEPT ![s] = "running"]}
        /\ UNCHANGED <<lsp_servers, servers_in_shutdown, heap, free_timers>>
    BY <1>4, <2>1, <2>2 DEF GetLaunch, Launchable, timers
  <2>5. Slotted' = Slotted
    BY <2>4 DEF Slotted
  <2> HIDE DEF s
  <2>6. NoStrayProcess'
    BY <2>1, <2>4, <2>5 DEF OwnInv, NoStrayProcess, TypeOK
  <2>7. CrashedServerOutOfReach'
    BY <2>1, <2>3, <2>4 DEF OwnInv, CrashedServerOutOfReach, TypeOK
  <2> QED
    BY <2>4, <2>6, <2>7 DEF OwnInv, NoReference
<1>5. ASSUME NEW ft \in Ft, GetDangling(ft) PROVE OwnInv'
  BY <1>5, OwnQuiet DEF GetDangling, objects, timers
<1>6. ASSUME NEW s \in Obj, ProcessExits(s) PROVE OwnInv'
  BY <1>6, OwnQuiet DEF ProcessExits, TypeOK, timers
<1>7. ASSUME NEW s \in Obj, ProcessStoppedNormally(s) PROVE OwnInv'
  <2>1. /\ servers_in_shutdown' = servers_in_shutdown \ {s}
        /\ heap' = heap \ {s}
        /\ pid' = [pid EXCEPT ![s] = "none"]
        /\ referenced' = [referenced EXCEPT ![s] = NULL]
        /\ UNCHANGED <<lsp_servers, free_timers>>
    BY <1>7 DEF ProcessStoppedNormally, FreeServer
  <2>2. Slotted' = Slotted
    BY <2>1 DEF Slotted
  <2>3. NoStrayProcess'
    BY <2>1, <2>2 DEF OwnInv, NoStrayProcess, TypeOK
  <2>4. s \notin free_timers
    BY <1>7 DEF ProcessStoppedNormally, FreeServer, IInv, FreedServersForgotten
  <2>5. CrashedServerOutOfReach'
    BY <2>1, <2>4 DEF OwnInv, CrashedServerOutOfReach, TypeOK
  <2>6. NoReference'
    BY <2>1 DEF OwnInv, NoReference, TypeOK
  <2> QED
    BY <2>3, <2>5, <2>6 DEF OwnInv
<1>8. ASSUME NEW s \in Obj, ProcessCrashed(s) PROVE OwnInv'
  <2>1. /\ pid[s] = "exited" /\ s \notin servers_in_shutdown /\ s \in heap
        /\ free_timers' = free_timers \cup {s}
        /\ UNCHANGED <<servers_in_shutdown, referenced>>
    BY <1>8 DEF ProcessCrashed, IInv, FreedServersForgotten
  <2>2. PICK ft \in Ft : lsp_servers[ft] = s
    BY <2>1 DEF OwnInv, NoStrayProcess, Slotted
  <2>3. ft = filetype[s] /\ lsp_servers[filetype[s]] # NULL
    BY <2>1, <2>2 DEF IInv, SlotServersCurrent
  <2>4. PICK n \in Obj \ heap, v \in Process :
           /\ lsp_servers' = [lsp_servers EXCEPT ![ft] = n]
           /\ heap' = heap \cup {n}
           /\ pid' = [pid EXCEPT ![s] = "none", ![n] = v]
    BY <1>8, <2>3 DEF ProcessCrashed, Process
  <2>5. Slotted' = (Slotted \ {s}) \cup {n}
    <3>1. \A ft2 \in Ft : ft2 # ft => lsp_servers[ft2] # s
      BY <2>1, <2>3 DEF IInv, SlotServersCurrent
    <3>2. \A ft2 \in Ft : lsp_servers'[ft2] = IF ft2 = ft THEN n ELSE lsp_servers[ft2]
      BY <2>4 DEF TypeOK
    <3> QED
      BY <2>2, <3>1, <3>2 DEF Slotted
  <2>6. NoStrayProcess'
    BY <2>1, <2>4, <2>5 DEF OwnInv, NoStrayProcess, TypeOK
  <2>7. n # s /\ n \notin free_timers
    BY <2>1 DEF OwnInv, CrashedServerOutOfReach
  <2>8. CrashedServerOutOfReach'
    BY <2>1, <2>4, <2>7 DEF OwnInv, CrashedServerOutOfReach, TypeOK
  <2>9. NoReference'
    BY <2>1 DEF OwnInv, NoReference
  <2> QED
    BY <2>6, <2>8, <2>9 DEF OwnInv
<1>9. ASSUME NEW s \in Obj, FreeServerAfterDelay(s) PROVE OwnInv'
  <2>1. /\ free_timers' = free_timers \ {s}
        /\ heap' = heap \ {s}
        /\ referenced' = [referenced EXCEPT ![s] = NULL]
        /\ UNCHANGED <<lsp_servers, servers_in_shutdown, pid>>
    BY <1>9 DEF FreeServerAfterDelay, FreeServer
  <2>2. Slotted' = Slotted
    BY <2>1 DEF Slotted
  <2>3. NoStrayProcess'
    BY <2>1, <2>2 DEF OwnInv, NoStrayProcess
  <2>4. CrashedServerOutOfReach' /\ NoReference'
    BY <2>1 DEF OwnInv, CrashedServerOutOfReach, NoReference, TypeOK
  <2> QED
    BY <2>3, <2>4 DEF OwnInv
<1>10. ASSUME NEW s \in Obj, InitializeDone(s) PROVE OwnInv'
  BY <1>10, OwnQuiet DEF InitializeDone, timers
<1>11. ASSUME NEW s \in Obj, InitializeFailed(s) PROVE OwnInv'
  BY <1>11, OwnQuiet DEF InitializeFailed, KillServer, TypeOK, timers
<1>12. ASSUME NEW s \in Obj, NEW ok \in BOOLEAN, ShutdownAnswered(s, ok) PROVE OwnInv'
  BY <1>12, OwnQuiet DEF ShutdownAnswered, KillServer, TypeOK
<1>13. ASSUME NEW s \in Obj, RequestAnswered(s) PROVE OwnInv'
  BY <1>13, OwnQuiet DEF RequestAnswered, objects, timers
<1>14. ASSUME NEW c \in orphans, OrphanFailed(c) PROVE OwnInv'
  <2>1. c[1] \in Obj
    BY DEF TypeOK
  <2> QED
    BY <1>14, <2>1, OwnQuiet DEF OrphanFailed, KillServer, TypeOK
<1>15. ASSUME NEW t \in kill_timers, KillTimeout(t) PROVE OwnInv'
  BY <1>15, OwnQuiet DEF KillTimeout, KillServer, TypeOK
<1> QED
  BY <1>1, <1>2, <1>3, <1>4, <1>5, <1>6, <1>7, <1>8, <1>9, <1>10, <1>11,
     <1>12, <1>13, <1>14, <1>15 DEF Next

LEMMA OwnInvariance ==
    ASSUME \A ft \in Ft : RefLang[ft] = NULL
    PROVE  Spec => []OwnInv
<1>1. Init => OwnInv
  BY DEF Init, OwnInv, NoReference, NoStrayProcess, CrashedServerOutOfReach
<1>2. IInv /\ IInv' /\ OwnInv /\ [Next]_vars => OwnInv'
  <2>1. UNCHANGED vars /\ OwnInv => OwnInv'
    BY DEF vars, objects, timers, OwnInv, NoReference, NoStrayProcess,
           CrashedServerOutOfReach, Slotted
  <2> QED
    BY OwnStep, <2>1
<1> QED
  BY <1>1, <1>2, Invariance, PTL DEF Spec

\* Crashes and restarts lose track of no process: every one belongs to a slot or
\* is being shut down, if no filetype uses the server of another.
THEOREM NoStray ==
    ASSUME \A ft \in Ft : RefLang[ft] = NULL
    PROVE  Spec => []NoStrayProcess
<1>1. OwnInv => NoStrayProcess
  BY DEF OwnInv
<1> QED
  BY <1>1, OwnInvariance, PTL

\* free_server_after_delay() frees a server that nothing reaches any more, under
\* the same condition.
THEOREM CrashedOutOfReach ==
    ASSUME \A ft \in Ft : RefLang[ft] = NULL
    PROVE  Spec => []CrashedServerOutOfReach
<1>1. OwnInv => CrashedServerOutOfReach
  BY DEF OwnInv
<1> QED
  BY <1>1, OwnInvariance, PTL

\* The one step that puts a server into the slot of another: a crash.
LEMMA SlotStep ==
    ASSUME IInv, OwnInv, Next, ~StopAndInitAll, ~TerminateAll,
           NEW ft \in Ft, lsp_servers[ft] # lsp_servers'[ft]
    PROVE  /\ pid[lsp_servers[ft]] = "exited"
           /\ lsp_servers[ft] # NULL
           /\ \/ restarts'[lsp_servers'[ft]] > restarts[lsp_servers[ft]]
              \/ restarts'[lsp_servers'[ft]] = GiveUp
<1> TypeOK /\ fault = "none"
  BY DEF IInv, Next
<1>1. PICK s \in Obj : ProcessCrashed(s)
  BY DEF Next, GetRunning, GetLaunch, GetDangling, ProcessExits,
         ProcessStoppedNormally, FreeServerAfterDelay, InitializeDone,
         InitializeFailed, ShutdownAnswered, RequestAnswered, OrphanFailed, KillTimeout
<1>2. pid[s] = "exited" /\ s \notin servers_in_shutdown /\ s \in heap
  BY <1>1 DEF ProcessCrashed, IInv, FreedServersForgotten
<1>3. PICK ft2 \in Ft : lsp_servers[ft2] = s
  BY <1>2 DEF OwnInv, NoStrayProcess, Slotted
<1>4. ft2 = filetype[s] /\ lsp_servers[filetype[s]] # NULL
  BY <1>2, <1>3 DEF IInv, SlotServersCurrent
<1>5. PICK n \in Obj \ heap :
         /\ lsp_servers' = [lsp_servers EXCEPT ![ft2] = n]
         /\ \/ restarts' = [restarts EXCEPT ![n] = Restarted(s)]
            \/ restarts' = [restarts EXCEPT ![n] = GiveUp]
  BY <1>1, <1>4 DEF ProcessCrashed
<1>6. ft = ft2 /\ lsp_servers'[ft] = n
  BY <1>5 DEF TypeOK
<1>7. restarts'[n] \in {Restarted(s), GiveUp}
  BY <1>5 DEF TypeOK
<1>8. Restarted(s) > restarts[s] \/ Restarted(s) = GiveUp
  BY DEF TypeOK, Restarted
<1> QED
  BY <1>2, <1>3, <1>4, <1>6, <1>7, <1>8

\* A crash loop is finite: each replacement carries one restart more, for all the
\* constants, where each filetype has a server of its own.
THEOREM CrashesCounted ==
    ASSUME \A ft \in Ft : RefLang[ft] = NULL
    PROVE  Spec => CrashesAreCounted
<1> DEFINE Counted == \A ft \in Ft :
             (lsp_servers[ft] # lsp_servers'[ft] /\ lsp_servers'[ft] # NULL)
                 => \/ restarts'[lsp_servers'[ft]] > restarts[lsp_servers[ft]]
                    \/ restarts'[lsp_servers'[ft]] = GiveUp
<1>1. IInv /\ OwnInv /\ [Next]_vars => [StopAndInitAll \/ Counted]_vars
  <2> SUFFICES ASSUME IInv, OwnInv, Next, ~StopAndInitAll PROVE Counted
    BY DEF Next
  <2>1. CASE TerminateAll
    BY <2>1 DEF TerminateAll
  <2>2. CASE ~TerminateAll
    BY <2>2, SlotStep
  <2> QED
    BY <2>1, <2>2
<1> QED
  BY <1>1, Invariance, OwnInvariance, PTL DEF Spec, CrashesAreCounted

\* A dead server in a slot is touched by no step but a restart of all servers.
LEMMA DeadStep ==
    ASSUME \A ft \in Ft : RefLang[ft] = NULL,
           IInv, OwnInv, Next, ~StopAndInitAll, ~TerminateAll,
           NEW d \in Obj, d \in Slotted, is_dead(d), pid[d] = "none"
    PROVE  restarts'[d] = restarts[d] /\ pid'[d] = "none"
<1> TypeOK /\ fault = "none"
  BY DEF IInv, Next
<1> d \in heap /\ d \notin servers_in_shutdown /\ d \notin free_timers
  BY DEF IInv, SlotServersCurrent, Slotted
<1> DEFINE Goal == restarts'[d] = restarts[d] /\ pid'[d] = "none"
<1>1. ASSUME NEW ft \in Ft, GetRunning(ft) PROVE Goal
  BY <1>1 DEF GetRunning, objects
<1>2. ASSUME NEW ft \in Ft, NEW ok \in BOOLEAN, GetLaunch(ft, ok) PROVE Goal
  <2> DEFINE s == lsp_servers[ft]
  <2>1. s \in Obj /\ s \in heap /\ Lookup(ft) = s
    BY <1>2 DEF GetLaunch, TypeOK, Lookup, OwnInv, NoReference, IInv,
                SlotServersCurrent
  <2>2. RefLang[filetype[s]] = NULL
    BY <2>1 DEF IInv, FreedServersForgotten
  <2>3. s # d
    BY <1>2, <2>1 DEF GetLaunch, Launchable
  <2>4. /\ restarts' \in {restarts, [restarts EXCEPT ![s] = GiveUp]}
        /\ pid' \in {pid, [pid EXCEPT ![s] = "running"]}
    BY <1>2, <2>1, <2>2 DEF GetLaunch
  <2> QED
    BY <2>3, <2>4 DEF TypeOK
<1>3. ASSUME NEW ft \in Ft, GetDangling(ft) PROVE Goal
  BY <1>3 DEF GetDangling, objects
<1>4. ASSUME NEW s \in Obj, ProcessExits(s) PROVE Goal
  BY <1>4 DEF ProcessExits, TypeOK
<1>5. ASSUME NEW s \in Obj, ProcessStoppedNormally(s) PROVE Goal
  BY <1>5 DEF ProcessStoppedNormally, FreeServer, TypeOK
<1>6. ASSUME NEW s \in Obj, ProcessCrashed(s) PROVE Goal
  BY <1>6 DEF ProcessCrashed, TypeOK
<1>7. ASSUME NEW s \in Obj, FreeServerAfterDelay(s) PROVE Goal
  BY <1>7 DEF FreeServerAfterDelay, FreeServer, TypeOK
<1>8. ASSUME NEW s \in Obj, InitializeDone(s) PROVE Goal
  BY <1>8 DEF InitializeDone
<1>9. ASSUME NEW s \in Obj, InitializeFailed(s) PROVE Goal
  BY <1>9 DEF InitializeFailed, KillServer, TypeOK
<1>10. ASSUME NEW s \in Obj, NEW ok \in BOOLEAN, ShutdownAnswered(s, ok) PROVE Goal
  BY <1>10 DEF ShutdownAnswered, KillServer, TypeOK
<1>11. ASSUME NEW s \in Obj, RequestAnswered(s) PROVE Goal
  BY <1>11 DEF RequestAnswered, objects
<1>12. ASSUME NEW c \in orphans, OrphanFailed(c) PROVE Goal
  BY <1>12 DEF OrphanFailed, KillServer, TypeOK
<1>13. ASSUME NEW t \in kill_timers, KillTimeout(t) PROVE Goal
  BY <1>13 DEF KillTimeout, KillServer, TypeOK
<1> QED
  BY <1>1, <1>2, <1>3, <1>4, <1>5, <1>6, <1>7, <1>8, <1>9, <1>10, <1>11, <1>12,
     <1>13 DEF Next

\* "Giving up" is final until the user restarts the servers, for all the constants,
\* where each filetype has a server of its own.
THEOREM GivenUpStays ==
    ASSUME \A ft \in Ft : RefLang[ft] = NULL
    PROVE  Spec => GivenUpStaysDown
<1> DEFINE Down == \A ft \in Ft :
             LET s == lsp_servers[ft]
             IN (s # NULL /\ is_dead(s) /\ pid[s] = "none" /\ ~unloading')
                   => (lsp_servers'[ft] = s /\ is_dead(s)' /\ pid'[s] = "none")
<1>1. IInv /\ OwnInv /\ [Next]_vars => [StopAndInitAll \/ Down]_vars
  <2> SUFFICES ASSUME IInv, OwnInv, Next, ~StopAndInitAll,
                      NEW ft \in Ft, NEW s, s = lsp_servers[ft],
                      s # NULL, is_dead(s), pid[s] = "none", ~unloading'
               PROVE  lsp_servers'[ft] = s /\ is_dead(s)' /\ pid'[s] = "none"
    BY DEF Next
  <2>1. ~TerminateAll
    BY DEF TerminateAll
  <2>2. s \in Obj /\ s \in Slotted
    BY DEF IInv, TypeOK, Slotted
  <2>3. lsp_servers'[ft] = s
    BY <2>1, SlotStep
  <2>4. restarts'[s] = restarts[s] /\ pid'[s] = "none"
    BY <2>1, <2>2, DeadStep
  <2> QED
    BY <2>3, <2>4 DEF is_dead
<1> QED
  BY <1>1, Invariance, OwnInvariance, PTL DEF Spec, GivenUpStaysDown

-----------------------------------------------------------------------------
(* The slots implement ServerSlots *)

\* A server with a process has not crashed too often: counting the next crash does not
\* overflow GiveUp.
LiveInv == \A s \in Slotted : pid[s] # "none" => ~is_dead(s)

\* A step that is not seen in the slots.
LEMMA SlotQuiet ==
    ASSUME LiveInv, UNCHANGED lsp_servers,
           \A s \in Slotted : /\ restarts'[s] = restarts[s]
                              /\ startup_shutdown'[s] = startup_shutdown[s]
                              /\ (pid'[s] = "none") <=> (pid[s] = "none")
    PROVE  UNCHANGED slotState /\ LiveInv'
<1>1. Slotted' = Slotted
  BY DEF Slotted
<1>2. ASSUME NEW ft \in Ft PROVE SlotOf(ft)' = SlotOf(ft)
  <2>1. CASE lsp_servers[ft] = NULL
    BY <2>1 DEF SlotOf
  <2>2. CASE lsp_servers[ft] # NULL
    BY <2>2 DEF SlotOf, Slotted, is_dead
  <2> QED
    BY <2>1, <2>2
<1> QED
  BY <1>1, <1>2 DEF slotState, LiveInv, is_dead

\* A step that changes the one slot ft to e.
LEMMA SlotChanged ==
    ASSUME NEW ft \in Ft, NEW e, SlotOf(ft)' = e,
           \A other \in Ft \ {ft} : SlotOf(other)' = SlotOf(other)
    PROVE  slotState' = [slotState EXCEPT ![ft] = e]
BY DEF slotState

\* New servers for all filetypes are down and have not restarted.
LEMMA SlotProvide ==
    ASSUME IInv, fault = "none", StopAndInitAll
    PROVE  Abstract!Provide /\ LiveInv'
<1> TypeOK
  BY DEF IInv
<1>1. PICK slot \in [Ft -> Obj] :
         /\ {slot[ft] : ft \in Ft} \cap (heap \ Freed) = {}
         /\ lsp_servers' = slot
         /\ StopAll({slot[ft] : ft \in Ft})
  BY Zenon DEF StopAndInitAll
<1>2. ASSUME NEW ft \in Ft
      PROVE  /\ lsp_servers'[ft] \in Obj
             /\ restarts'[lsp_servers'[ft]] = 0
             /\ pid'[lsp_servers'[ft]] = "none"
  <2>0. restarts' = With(restarts, Freed, 0) /\ pid' = pid
    BY <1>1 DEF StopAll
  <2>1. lsp_servers'[ft] \in Obj /\ lsp_servers'[ft] \notin heap \ Freed
    BY <1>1
  <2>2. CASE lsp_servers'[ft] \in Freed
    BY <2>0, <2>1, <2>2 DEF Freed, With
  <2>3. CASE lsp_servers'[ft] \notin heap
    BY <2>0, <2>1, <2>3 DEF IInv, FreedServersForgotten, With
  <2> QED
    BY <2>1, <2>2, <2>3
<1>3. ASSUME NEW ft \in Ft PROVE SlotOf(ft)' = [state |-> "down", count |-> 0]
  <2>1. lsp_servers'[ft] # NULL /\ ~(restarts'[lsp_servers'[ft]] >= DeadRestarts)
    BY <1>2
  <2> QED
    BY <1>2, <2>1 DEF SlotOf, is_dead
<1>4. LiveInv'
  BY <1>2 DEF LiveInv, Slotted
<1> QED
  BY <1>3, <1>4 DEF slotState, Abstract!Provide, Abstract!Down, Abstract!Slot

\* A launch takes a server that is down, and starts it or gives it up.
LEMMA SlotLaunch ==
    ASSUME \A ft \in Ft : RefLang[ft] = NULL, IInv, OwnInv, LiveInv,
           NEW ft \in Ft, NEW ok \in BOOLEAN, GetLaunch(ft, ok)
    PROVE  Abstract!Launch(ft) /\ LiveInv'
<1> TypeOK
  BY DEF IInv
<1> DEFINE s == lsp_servers[ft]
<1>1. s \in Obj /\ s \in heap /\ Lookup(ft) = s /\ s # NULL
  BY DEF GetLaunch, TypeOK, Lookup, OwnInv, NoReference, IInv, SlotServersCurrent
<1>2. RefLang[filetype[s]] = NULL
  BY <1>1 DEF IInv, FreedServersForgotten
<1>3. /\ pid[s] = "none" /\ ~is_dead(s)
      /\ UNCHANGED lsp_servers
      /\ startup_shutdown' = [startup_shutdown EXCEPT ![s] = @ \/ ok]
      /\ pid' = IF ok THEN [pid EXCEPT ![s] = "running"] ELSE pid
      /\ restarts' = IF ok THEN restarts ELSE [restarts EXCEPT ![s] = GiveUp]
  BY <1>1, <1>2 DEF GetLaunch, Launchable, StartServer
<1>4. ASSUME NEW other \in Ft \ {ft} PROVE SlotOf(other)' = SlotOf(other)
  <2>1. lsp_servers[other] # s
    BY <1>1 DEF IInv, SlotServersCurrent
  <2>2. CASE lsp_servers[other] = NULL
    BY <1>3, <2>2 DEF SlotOf
  <2>3. CASE lsp_servers[other] # NULL
    <3>1. lsp_servers[other] \in Obj
      BY <2>3 DEF TypeOK
    <3>2. /\ restarts'[lsp_servers[other]] = restarts[lsp_servers[other]]
          /\ startup_shutdown'[lsp_servers[other]] = startup_shutdown[lsp_servers[other]]
          /\ pid'[lsp_servers[other]] = pid[lsp_servers[other]]
      BY <1>1, <1>3, <2>1, <3>1 DEF TypeOK
    <3> QED
      BY <1>3, <2>3, <3>2 DEF SlotOf, is_dead
  <2> QED
    BY <2>2, <2>3
<1>5. /\ slotState[ft].state = "down" /\ slotState[ft].count = restarts[s]
      /\ restarts[s] < DeadRestarts
  BY <1>1, <1>3 DEF slotState, SlotOf, is_dead, TypeOK
<1>6. CASE ok
  <2>1. pid'[s] = "running" /\ startup_shutdown'[s] /\ restarts' = restarts
    BY <1>1, <1>3, <1>6 DEF TypeOK
  <2>2. SlotOf(ft)' = [state |-> "starting", count |-> restarts[s]]
    BY <1>1, <1>3, <2>1 DEF SlotOf
  <2>3. slotState' = [slotState EXCEPT ![ft] = Abstract!Slot("starting", restarts[s])]
    BY <1>4, <2>2, SlotChanged DEF Abstract!Slot
  <2>4. Abstract!Slot("starting", restarts[s]) \in Abstract!Started(restarts[s])
    BY <1>5 DEF Abstract!Started
  <2>5. LiveInv'
    BY <1>1, <1>3, <2>1 DEF LiveInv, Slotted, is_dead, TypeOK
  <2> QED
    BY <1>5, <2>3, <2>4, <2>5, Zenon DEF Abstract!Launch
<1>7. CASE ~ok
  <2>1. pid' = pid /\ restarts'[s] = GiveUp
    BY <1>1, <1>3, <1>7 DEF TypeOK
  <2>2. SlotOf(ft)' = [state |-> "given up", count |-> GiveUp]
    BY <1>1, <1>3, <2>1 DEF SlotOf, is_dead
  <2>3. slotState' = [slotState EXCEPT ![ft] = Abstract!Slot("given up", GiveUp)]
    BY <1>4, <2>2, SlotChanged DEF Abstract!Slot
  <2>4. Abstract!Slot("given up", GiveUp) \in Abstract!Started(restarts[s])
    BY DEF Abstract!Started
  <2>5. LiveInv'
    BY <1>1, <1>3, <1>7, <2>1 DEF LiveInv, Slotted, is_dead, TypeOK
  <2> QED
    BY <1>5, <2>3, <2>4, <2>5, Zenon DEF Abstract!Launch
<1> QED
  BY <1>6, <1>7

\* A crash replaces the server in its slot by one that counts one restart more and runs,
\* or is given up.
LEMMA SlotCrash ==
    ASSUME IInv, IInv', OwnInv, LiveInv, fault = "none", NEW s \in Obj, ProcessCrashed(s)
    PROVE  (\E ft \in Ft : Abstract!Crash(ft)) /\ LiveInv'
<1> TypeOK /\ TypeOK'
  BY DEF IInv
<1>1. pid[s] = "exited" /\ s \notin servers_in_shutdown /\ s \in heap
  BY DEF ProcessCrashed, IInv, FreedServersForgotten
<1>2. PICK ft \in Ft : lsp_servers[ft] = s
  BY <1>1 DEF OwnInv, NoStrayProcess, Slotted
<1>3. ft = filetype[s] /\ s # NULL
  BY <1>1, <1>2 DEF IInv, SlotServersCurrent
<1>4. /\ s \in Slotted /\ restarts[s] \in Nat /\ restarts[s] < DeadRestarts
      /\ Restarted(s) = restarts[s] + 1
  BY <1>1, <1>2, <1>3 DEF LiveInv, Slotted, is_dead, Restarted, TypeOK
<1> DEFINE count == restarts[s] + 1
<1>5. PICK n \in Obj \ heap, ok \in BOOLEAN :
         LET dead == count >= DeadRestarts
             run  == ok /\ ~dead
         IN /\ lsp_servers' = [lsp_servers EXCEPT ![ft] = n]
            /\ restarts' = [restarts EXCEPT ![n] = IF dead \/ ok THEN count ELSE GiveUp]
            /\ pid' = [pid EXCEPT ![s] = "none", ![n] = IF run THEN "running" ELSE "none"]
            /\ StartServer(n, run)
  BY <1>2, <1>3, <1>4 DEF ProcessCrashed
<1> DEFINE dead == count >= DeadRestarts
           run == ok /\ ~dead
<1>6. n # s /\ lsp_servers'[ft] = n /\ n # NULL
  BY <1>1, <1>5 DEF TypeOK
<1>7. /\ restarts'[n] = IF dead \/ ok THEN count ELSE GiveUp
      /\ pid'[n] = IF run THEN "running" ELSE "none"
      /\ startup_shutdown'[n] = run
  <2>1. ~startup_shutdown[n] /\ startup_shutdown' = [startup_shutdown EXCEPT ![n] = @ \/ run]
    BY <1>5 DEF StartServer, IInv, FreedServersForgotten
  <2>2. startup_shutdown'[n] = run
    BY <2>1 DEF TypeOK
  <2> QED
    BY <1>5, <1>6, <2>2 DEF TypeOK
<1>8. ASSUME NEW other \in Ft \ {ft}, NEW o, o = lsp_servers[other]
      PROVE  /\ lsp_servers'[other] = o
             /\ o # NULL => /\ o \in Obj
                            /\ restarts'[o] = restarts[o]
                            /\ pid'[o] = pid[o]
                            /\ startup_shutdown'[o] = startup_shutdown[o]
  <2>1. lsp_servers'[other] = o
    BY <1>5, <1>8 DEF TypeOK
  <2>2. o # NULL => o \in heap /\ o # s /\ o \in Obj
    BY <1>3, <1>8 DEF IInv, SlotServersCurrent, TypeOK
  <2> QED
    BY <1>5, <2>1, <2>2 DEF StartServer, TypeOK
<1>9. \A other \in Ft \ {ft} : SlotOf(other)' = SlotOf(other)
  <2> SUFFICES ASSUME NEW other \in Ft \ {ft} PROVE SlotOf(other)' = SlotOf(other)
    OBVIOUS
  <2>1. CASE lsp_servers[other] = NULL
    BY <1>8, <2>1 DEF SlotOf
  <2>2. CASE lsp_servers[other] # NULL
    <3>1. PICK o \in Obj :
             /\ o = lsp_servers[other] /\ o = lsp_servers'[other]
             /\ restarts'[o] = restarts[o]
             /\ pid'[o] = pid[o]
             /\ startup_shutdown'[o] = startup_shutdown[o]
      BY <1>8, <2>2
    <3> QED
      BY <2>2, <3>1 DEF SlotOf, is_dead
  <2> QED
    BY <2>1, <2>2
<1>10. \E e \in Abstract!Started(count) : SlotOf(ft)' = e
  <2>1. CASE run
    <3>1. SlotOf(ft)' = [state |-> "starting", count |-> count]
      BY <1>6, <1>7, <2>1 DEF SlotOf
    <3>2. Abstract!Slot("starting", count) \in Abstract!Started(count)
      <4>1. (IF count < DeadRestarts THEN "starting" ELSE "given up") = "starting"
        BY <1>4, <2>1
      <4> QED
        BY <4>1, Zenon DEF Abstract!Started
    <3> QED
      BY <3>1, <3>2 DEF Abstract!Slot
  <2>2. CASE dead
    <3>1. SlotOf(ft)' = [state |-> "given up", count |-> count]
      BY <1>6, <1>7, <2>2 DEF SlotOf, is_dead
    <3>2. Abstract!Slot("given up", count) \in Abstract!Started(count)
      <4>1. (IF count < DeadRestarts THEN "starting" ELSE "given up") = "given up"
        BY <1>4, <2>2
      <4> QED
        BY <4>1, Zenon DEF Abstract!Started
    <3> QED
      BY <3>1, <3>2 DEF Abstract!Slot
  <2>3. CASE ~dead /\ ~ok
    <3>1. SlotOf(ft)' = [state |-> "given up", count |-> GiveUp]
      BY <1>6, <1>7, <2>3 DEF SlotOf, is_dead
    <3>2. Abstract!Slot("given up", GiveUp) \in Abstract!Started(count)
      BY DEF Abstract!Started
    <3> QED
      BY <3>1, <3>2 DEF Abstract!Slot
  <2> QED
    BY <2>1, <2>2, <2>3
<1>11. SlotOf(ft).state \in {"starting", "ready"} /\ SlotOf(ft).count + 1 = count
  BY <1>1, <1>2, <1>3 DEF SlotOf
<1>12. slotState[ft] = SlotOf(ft)
  BY DEF slotState
<1>13. Abstract!Crash(ft)
  BY <1>9, <1>10, <1>11, <1>12, SlotChanged DEF Abstract!Crash
<1>14. LiveInv'
  <2> SUFFICES ASSUME NEW other \in Ft, lsp_servers'[other] # NULL,
                      pid'[lsp_servers'[other]] # "none"
               PROVE  restarts'[lsp_servers'[other]] < DeadRestarts
    BY DEF LiveInv, Slotted, is_dead, TypeOK
  <2>1. CASE other = ft
    BY <1>4, <1>6, <1>7, <2>1 DEF TypeOK
  <2>2. CASE other # ft
    <3>1. /\ lsp_servers[other] # NULL /\ pid[lsp_servers[other]] # "none"
          /\ restarts'[lsp_servers'[other]] = restarts[lsp_servers[other]]
          /\ lsp_servers[other] \in Obj
      BY <1>8, <2>2
    <3> QED
      BY <3>1 DEF LiveInv, Slotted, is_dead, TypeOK
  <2> QED
    BY <2>1, <2>2
<1> QED
  BY <1>13, <1>14

\* Only the answer to initialize makes a server ready.
LEMMA SlotReady ==
    ASSUME IInv, LiveInv, NEW s \in Obj, InitializeDone(s)
    PROVE  (UNCHANGED slotState \/ \E ft \in Ft : Abstract!Handshake(ft)) /\ LiveInv'
<1> TypeOK
  BY DEF IInv
<1>1. /\ UNCHANGED <<lsp_servers, pid, restarts>>
      /\ startup_shutdown' = [startup_shutdown EXCEPT ![s] = FALSE]
  BY DEF InitializeDone
<1>2. LiveInv'
  BY <1>1 DEF LiveInv, Slotted, is_dead
<1>3. CASE \E ft \in Ft : lsp_servers[ft] = s /\ pid[s] # "none" /\ startup_shutdown[s]
  <2>1. PICK ft \in Ft : lsp_servers[ft] = s /\ pid[s] # "none" /\ startup_shutdown[s]
    BY <1>3
  <2>2. s # NULL
    OBVIOUS
  <2>3. SlotOf(ft) = [state |-> "starting", count |-> restarts[s]]
    BY <2>1, <2>2 DEF SlotOf
  <2>4. SlotOf(ft)' = [state |-> "ready", count |-> restarts[s]]
    BY <1>1, <2>1, <2>2 DEF SlotOf, TypeOK
  <2>5. \A other \in Ft \ {ft} : lsp_servers[other] # s
    BY <2>1 DEF IInv, SlotServersCurrent
  <2>6. \A other \in Ft \ {ft} : SlotOf(other)' = SlotOf(other)
    BY <1>1, <2>5 DEF SlotOf, is_dead, TypeOK
  <2>7. slotState' = [slotState EXCEPT ![ft] = [state |-> "ready", count |-> restarts[s]]]
    BY <2>4, <2>6, SlotChanged
  <2>8. slotState[ft] = [state |-> "starting", count |-> restarts[s]]
    BY <2>3 DEF slotState
  <2>9. slotState' = [slotState EXCEPT ![ft].state = "ready"]
    <3>1. [slotState[ft] EXCEPT !.state = "ready"] = [state |-> "ready", count |-> restarts[s]]
      BY <2>8
    <3> QED
      BY <2>7, <3>1, Zenon
  <2>10. Abstract!Handshake(ft)
    BY <2>8, <2>9 DEF Abstract!Handshake
  <2> QED
    BY <1>2, <2>10
<1>4. CASE ~ \E ft \in Ft : lsp_servers[ft] = s /\ pid[s] # "none" /\ startup_shutdown[s]
  <2>1. ASSUME NEW ft \in Ft PROVE SlotOf(ft)' = SlotOf(ft)
    <3>1. CASE lsp_servers[ft] = s
      <4>1. pid[s] = "none" \/ startup_shutdown'[s] = startup_shutdown[s]
        BY <1>1, <1>4, <3>1 DEF TypeOK
      <4> QED
        BY <1>1, <3>1, <4>1 DEF SlotOf, is_dead
    <3>2. CASE lsp_servers[ft] # s
      BY <1>1, <3>2 DEF SlotOf, is_dead, TypeOK
    <3> QED
      BY <3>1, <3>2
  <2> QED
    BY <1>2, <2>1 DEF slotState
<1> QED
  BY <1>3, <1>4

LEMMA SlotsStep ==
    ASSUME \A ft \in Ft : RefLang[ft] = NULL, IInv, IInv', OwnInv, LiveInv, Next
    PROVE  [Abstract!Next]_slotState /\ LiveInv'
<1> TypeOK /\ fault = "none"
  BY DEF IInv, Next
<1> DEFINE Goal == [Abstract!Next]_slotState /\ LiveInv'
<1>s. \A s \in Slotted : s \in Obj /\ s \notin servers_in_shutdown /\ s \notin free_timers
  BY DEF IInv, SlotServersCurrent, Slotted, TypeOK
<1>1. CASE StopAndInitAll
  BY <1>1, SlotProvide DEF Abstract!Next
<1>2. CASE TerminateAll
  <2>1. \A ft \in Ft : lsp_servers'[ft] = NULL
    BY <1>2 DEF TerminateAll
  <2>2. Abstract!Withdraw /\ LiveInv'
    BY <2>1 DEF slotState, SlotOf, LiveInv, Slotted, Abstract!Withdraw, Abstract!Empty,
                Abstract!Slot
  <2> QED
    BY <2>2 DEF Abstract!Next
<1>3. ASSUME NEW ft \in Ft, GetRunning(ft) PROVE Goal
  BY <1>3, SlotQuiet DEF GetRunning, objects
<1>4. ASSUME NEW ft \in Ft, NEW ok \in BOOLEAN, GetLaunch(ft, ok) PROVE Goal
  BY <1>4, SlotLaunch DEF Abstract!Next
<1>5. ASSUME NEW ft \in Ft, GetDangling(ft) PROVE Goal
  BY <1>5, SlotQuiet DEF GetDangling, objects
<1>6. ASSUME NEW s \in Obj, ProcessExits(s) PROVE Goal
  <2>1. \A o \in Obj : (pid'[o] = "none") <=> (pid[o] = "none")
    BY <1>6 DEF ProcessExits, TypeOK
  <2> QED
    BY <1>s, <1>6, <2>1, SlotQuiet DEF ProcessExits
<1>7. ASSUME NEW s \in Obj, ProcessStoppedNormally(s) PROVE Goal
  <2>1. \A o \in Obj \ {s} : /\ pid'[o] = pid[o]
                             /\ restarts'[o] = restarts[o]
                             /\ startup_shutdown'[o] = startup_shutdown[o]
    BY <1>7 DEF ProcessStoppedNormally, FreeServer, TypeOK
  <2>2. s \notin Slotted /\ UNCHANGED lsp_servers
    BY <1>s, <1>7 DEF ProcessStoppedNormally
  <2> QED
    BY <1>s, <2>1, <2>2, SlotQuiet
<1>8. ASSUME NEW s \in Obj, ProcessCrashed(s) PROVE Goal
  BY <1>8, SlotCrash DEF Abstract!Next
<1>9. ASSUME NEW s \in Obj, FreeServerAfterDelay(s) PROVE Goal
  <2>1. \A o \in Obj \ {s} : /\ pid'[o] = pid[o]
                             /\ restarts'[o] = restarts[o]
                             /\ startup_shutdown'[o] = startup_shutdown[o]
    BY <1>9 DEF FreeServerAfterDelay, FreeServer, TypeOK
  <2>2. s \notin Slotted /\ UNCHANGED lsp_servers
    BY <1>s, <1>9 DEF FreeServerAfterDelay
  <2> QED
    BY <1>s, <2>1, <2>2, SlotQuiet
<1>10. ASSUME NEW s \in Obj, InitializeDone(s) PROVE Goal
  BY <1>10, SlotReady DEF Abstract!Next
<1>11. ASSUME NEW s \in Obj, InitializeFailed(s) PROVE Goal
  <2>1. \A o \in Obj : (pid'[o] = "none") <=> (pid[o] = "none")
    BY <1>11 DEF InitializeFailed, KillServer, TypeOK
  <2> QED
    BY <1>s, <1>11, <2>1, SlotQuiet DEF InitializeFailed
<1>12. ASSUME NEW s \in Obj, NEW ok \in BOOLEAN, ShutdownAnswered(s, ok) PROVE Goal
  <2>1. \A o \in Obj : (pid'[o] = "none") <=> (pid[o] = "none")
    BY <1>12 DEF ShutdownAnswered, KillServer, TypeOK
  <2> QED
    BY <1>s, <1>12, <2>1, SlotQuiet DEF ShutdownAnswered
<1>13. ASSUME NEW s \in Obj, RequestAnswered(s) PROVE Goal
  BY <1>13, SlotQuiet DEF RequestAnswered, objects
<1>14. ASSUME NEW c \in orphans, OrphanFailed(c) PROVE Goal
  <2>1. \A o \in Obj : (pid'[o] = "none") <=> (pid[o] = "none")
    BY <1>14 DEF OrphanFailed, KillServer, TypeOK
  <2> QED
    BY <1>s, <1>14, <2>1, SlotQuiet DEF OrphanFailed
<1>15. ASSUME NEW t \in kill_timers, KillTimeout(t) PROVE Goal
  <2>1. \A o \in Obj : (pid'[o] = "none") <=> (pid[o] = "none")
    BY <1>15 DEF KillTimeout, KillServer, TypeOK
  <2> QED
    BY <1>s, <1>15, <2>1, SlotQuiet DEF KillTimeout
<1> QED
  BY <1>1, <1>2, <1>3, <1>4, <1>5, <1>6, <1>7, <1>8, <1>9, <1>10, <1>11,
     <1>12, <1>13, <1>14, <1>15 DEF Next

\* The slots implement ServerSlots: handed out after a handshake, replaced with a count
\* when they crash, given up for good; for all the constants, where each filetype has a
\* server of its own.
THEOREM Implements ==
    ASSUME \A ft \in Ft : RefLang[ft] = NULL
    PROVE  Spec => ImplementsServerSlots
<1>1. Init => Abstract!Init /\ LiveInv
  <2> SUFFICES ASSUME Init PROVE Abstract!Init /\ LiveInv
    OBVIOUS
  <2>1. \A ft \in Ft : lsp_servers[ft] = NULL
    BY DEF Init
  <2> QED
    BY <2>1 DEF slotState, SlotOf, LiveInv, Slotted, Abstract!Init, Abstract!Empty,
                Abstract!Slot
<1>2. IInv /\ IInv' /\ OwnInv /\ LiveInv /\ [Next]_vars
         => [Abstract!Next]_slotState /\ LiveInv'
  <2>1. UNCHANGED vars /\ LiveInv => UNCHANGED slotState /\ LiveInv'
    BY SlotQuiet DEF vars, objects
  <2> QED
    BY SlotsStep, <2>1
<1> QED
  BY <1>1, <1>2, Invariance, OwnInvariance, PTL DEF Spec, ImplementsServerSlots, Abstract!Spec

=============================================================================
