----------------------------- MODULE LspServer -----------------------------
(***************************************************************************)
(* The life of the language servers (src/lsp/src/lsp-server.c, and the     *)
(* part of lsp-rpc.c that decides which callback of a server still runs).  *)
(*                                                                         *)
(* Each filetype has a slot of the array lsp_servers that points to an     *)
(* LspServer.  A server is started lazily, goes through the initialize     *)
(* handshake, may crash and be replaced, and leaves through                *)
(* servers_in_shutdown: shutdown request, exit notification, SIGTERM after *)
(* a timeout, and finally free_server() once its process is gone.          *)
(*                                                                         *)
(* Servers are heap objects, so Obj is a set of addresses: an address that *)
(* was freed may be handed out again while a timer or an unanswered call   *)
(* still holds it.                                                         *)
(*                                                                         *)
(* Everything runs in one GLib main loop: an action is one callback.       *)
(* Time is not modelled: an armed timer may fire at any later moment.      *)
(***************************************************************************)
EXTENDS Naturals, FiniteSets

CONSTANTS
    Ft,           \* the filetypes, the indices of lsp_servers
    Obj,          \* the addresses g_new0() may return for an LspServer
    NULL,         \* the C NULL pointer
    RefLang,      \* config.ref_lang: the filetype whose server is used, or NULL
    HasCmd,       \* the filetypes whose config.cmd is not empty
    DeadRestarts, \* is_dead(): so many restarts and the server is given up
    GiveUp,       \* the value restarts gets when the process cannot be spawned
    MaxInits      \* bound: how often the servers are (re)initialized

ASSUME NullAssumption == NULL \notin Obj /\ NULL \notin Ft
ASSUME RefLangAssumption == RefLang \in [Ft -> Ft \cup {NULL}]
ASSUME HasCmdAssumption == HasCmd \subseteq Ft
ASSUME RestartsAssumption ==
    DeadRestarts \in Nat \ {0} /\ GiveUp \in Nat /\ GiveUp >= DeadRestarts
ASSUME MaxInitsAssumption == MaxInits \in Nat

VARIABLES
    lsp_servers,         \* slot of each filetype; all NULL: the array is NULL
    servers_in_shutdown, \* servers whose process was asked to stop
    heap,                \* the allocated LspServer objects
    filetype,            \* s->filetype
    pid,                 \* s->pid and the state of the process behind it
    startup_shutdown,    \* s->startup_shutdown
    restarts,            \* s->restarts
    referenced,          \* s->referenced
    pending,             \* unanswered calls on the client of a live server
    orphans,             \* calls whose client lsp_rpc_destroy() closed
    kill_timers,         \* armed kill_cb timeouts
    free_timers,         \* servers with an armed free_server_after_delay
    unloading,           \* terminate_all() was called
    inits,               \* how often the servers were (re)initialized
    fault                \* the freed memory an action has touched, "none" before

objects == <<heap, filetype, pid, startup_shutdown, restarts, referenced>>
calls   == <<pending, orphans>>
timers  == <<kill_timers, free_timers>>
vars    == <<lsp_servers, servers_in_shutdown, objects, calls, timers,
             unloading, inits, fault>>

-----------------------------------------------------------------------------
Method == {"initialize", "shutdown", "request"}

\* "killed" is a process that was sent SIGTERM, "exited" one that is gone and
\* whose child watch has not run yet; s->pid is 0 exactly in "none".
Process == {"none", "running", "killed", "exited"}

\* stale is a history field: the server the timer was armed for is freed.
KillTimer == [srv : Obj, delay : {2000, 4000}, stale : BOOLEAN]

\* One outstanding "request" stands for any number of ordinary calls.
TypeOK ==
    /\ lsp_servers \in [Ft -> Obj \cup {NULL}]
    /\ servers_in_shutdown \subseteq Obj
    /\ heap \subseteq Obj
    /\ filetype \in [Obj -> Ft \cup {NULL}]
    /\ pid \in [Obj -> Process]
    /\ startup_shutdown \in [Obj -> BOOLEAN]
    /\ restarts \in [Obj -> 0 .. GiveUp]
    /\ referenced \in [Obj -> Obj \cup {NULL}]
    /\ pending \in [Obj -> SUBSET Method]
    /\ orphans \subseteq Obj \X {"initialize", "shutdown"}
    /\ kill_timers \subseteq KillTimer
    /\ free_timers \subseteq Obj
    /\ unloading \in BOOLEAN
    /\ inits \in 0 .. MaxInits
    /\ fault \in {"none", "initialize_cb", "referenced", "process_stopped"}

Init ==
    /\ lsp_servers = [ft \in Ft |-> NULL]
    /\ servers_in_shutdown = {}
    /\ heap = {}
    /\ filetype = [o \in Obj |-> NULL]
    /\ pid = [o \in Obj |-> "none"]
    /\ startup_shutdown = [o \in Obj |-> FALSE]
    /\ restarts = [o \in Obj |-> 0]
    /\ referenced = [o \in Obj |-> NULL]
    /\ pending = [o \in Obj |-> {}]
    /\ orphans = {}
    /\ kill_timers = {}
    /\ free_timers = {}
    /\ unloading = FALSE
    /\ inits = 0
    /\ fault = "none"

-----------------------------------------------------------------------------
Slotted == {lsp_servers[ft] : ft \in Ft} \ {NULL}

is_dead(s) == restarts[s] >= DeadRestarts

\* f with the value v at every element of S.
With(f, S, v) == [o \in Obj |-> IF o \in S THEN v ELSE f[o]]

\* Mutant: the server that replaces a crashed one starts counting afresh.
RestartedSame(s) == restarts[s]

\* The restarts of the server that replaces a crashed s; GiveUp bounds the count.
Restarted(s) == IF restarts[s] < GiveUp THEN restarts[s] + 1 ELSE GiveUp

\* Mutant: kill_server() does not look whether there is a process.
KillServerAny(s, p) == [p EXCEPT ![s] = "killed"]

\* kill_server(): SIGTERM to a running process (pid > 0).
KillServer(s, p) == [p EXCEPT ![s] = IF @ = "running" THEN "killed" ELSE @]

\* Mutant: stop_process() and shutdown_cb() arm no kill_cb.
ArmedNever(S, d) == {}

\* The kill_cb timeouts armed for the servers S.
Armed(S, d) == {[srv |-> s, delay |-> d, stale |-> FALSE] : s \in S}

\* What free_server() makes of the calls and timers that hold the addresses F:
\* the calls of a destroyed client are still completed, with an error, from an
\* idle callback, and no timeout is removed.  call_cb() does not find the client
\* in client_table, takes is_startup_shutdown for TRUE and runs the callbacks of
\* initialize and shutdown only: an ordinary call is forgotten at once.
Orphaned(F) ==
    orphans \cup {c \in F \X {"initialize", "shutdown"} : c[2] \in pending[c[1]]}
Staled(F) == {[srv |-> t.srv, delay |-> t.delay, stale |-> t.stale \/ t.srv \in F] :
                  t \in kill_timers}

\* free_server() of one server.
FreeServer(s) ==
    /\ heap' = heap \ {s}
    /\ filetype' = [filetype EXCEPT ![s] = NULL]
    /\ startup_shutdown' = [startup_shutdown EXCEPT ![s] = FALSE]
    /\ restarts' = [restarts EXCEPT ![s] = 0]
    /\ referenced' = [referenced EXCEPT ![s] = NULL]
    /\ pending' = [pending EXCEPT ![s] = {}]
    /\ orphans' = Orphaned({s})
    /\ kill_timers' = Staled({s})

-----------------------------------------------------------------------------
(* Starting and replacing servers *)

\* Mutants: a server without a process is asked to stop; one with a process is
\* freed at once.
StoppedAll == Slotted \ servers_in_shutdown
FreedAll   == Slotted

\* stop_and_free_server(): a server with a process is asked to stop, one without
\* is freed at once.
Stopped == {s \in Slotted : pid[s] # "none"} \ servers_in_shutdown
Freed   == {s \in Slotted : pid[s] = "none"}

\* lsp_server_stop_all(): the array is freed with stop_and_free_server() as
\* its element destructor; lsp_servers is already NULL then, so stop_process()
\* puts no replacement into the slot.
StopAll(slots) ==
    /\ servers_in_shutdown' = servers_in_shutdown \cup Stopped
    /\ startup_shutdown' = With(With(startup_shutdown, Stopped, TRUE), Freed, FALSE)
    /\ pending' = [o \in Obj |->
                      IF o \in Freed THEN {}
                      ELSE IF o \in Stopped THEN pending[o] \cup {"shutdown"}
                      ELSE pending[o]]
    /\ orphans' = Orphaned(Freed)
    /\ kill_timers' = Staled(Freed) \cup Armed(Stopped, 4000)
    /\ heap' = (heap \ Freed) \cup slots
    /\ restarts' = With(restarts, Freed, 0)
    /\ referenced' = With(referenced, Freed, NULL)
    /\ UNCHANGED <<pid, free_timers, fault>>

\* stop_and_init_all_servers(): plugin start, project open or close, a saved
\* configuration file, the "restart all servers" command.  lsp_server_init_all()
\* allocates one server per filetype.
StopAndInitAll ==
    /\ unloading => servers_in_shutdown = {}
    /\ inits < MaxInits
    /\ inits' = inits + 1
    /\ \E slot \in [Ft -> Obj] :
          LET new == {slot[ft] : ft \in Ft}
          IN /\ \A ft1, ft2 \in Ft : slot[ft1] = slot[ft2] => ft1 = ft2
             /\ new \cap (heap \ Freed) = {}
             /\ lsp_servers' = slot
             /\ StopAll(new)
             /\ filetype' = [o \in Obj |->
                                IF o \in new THEN CHOOSE ft \in Ft : slot[ft] = o
                                ELSE IF o \in Freed THEN NULL ELSE filetype[o]]
    /\ unloading' = FALSE

\* Mutant: lsp_servers still points to the servers that were stopped.
TerminateAllKeeping ==
    /\ ~unloading
    /\ StopAll({})
    /\ filetype' = With(filetype, Freed, NULL)
    /\ unloading' = TRUE
    /\ UNCHANGED <<lsp_servers, inits>>

\* terminate_all(): the plugin is unloaded or Geany quits.  The caller then
\* iterates the main loop until servers_in_shutdown is empty.
TerminateAll ==
    /\ ~unloading
    /\ lsp_servers' = [ft \in Ft |-> NULL]
    /\ StopAll({})
    /\ filetype' = With(filetype, Freed, NULL)
    /\ unloading' = TRUE
    /\ UNCHANGED inits

\* Mutant: startup_shutdown is left alone until the server is stopped.
StartServerOpen(s, ok) ==
    /\ UNCHANGED startup_shutdown
    /\ pending' = [pending EXCEPT ![s] = IF ok THEN @ \cup {"initialize"} ELSE @]

\* start_lsp_server() and perform_initialize(): when the process was spawned, the
\* initialize request is sent (pid and restarts are set where it is called).
StartServer(s, ok) ==
    /\ startup_shutdown' = [startup_shutdown EXCEPT ![s] = @ \/ ok]
    /\ pending' = [pending EXCEPT ![s] = IF ok THEN @ \cup {"initialize"} ELSE @]

\* The server server_get_or_start_for_ft() looks at first.
Lookup(ft) == LET s == lsp_servers[ft]
              IN IF referenced[s] # NULL THEN referenced[s] ELSE s

\* Mutant: a server that was given up is launched again.
LaunchableDead(s) == s \in heap /\ ~startup_shutdown[s] /\ pid[s] = "none"

\* The conditions under which it goes on to launch a process.
Launchable(s) ==
    /\ s \in heap
    /\ ~startup_shutdown[s]
    /\ pid[s] = "none"
    /\ ~is_dead(s)

\* server_get_or_start_for_ft() returns a server with a process; the caller
\* sends it a request.
GetRunning(ft) ==
    /\ lsp_servers[ft] # NULL
    /\ LET s == Lookup(ft)
       IN /\ s \in heap
          /\ ~startup_shutdown[s]
          /\ pid[s] # "none"
          /\ pending' = [pending EXCEPT ![s] = @ \cup {"request"}]
    /\ UNCHANGED <<lsp_servers, servers_in_shutdown, objects, orphans, timers,
                   unloading, inits, fault>>

\* server_get_or_start_for_ft() with launch_server: no process yet.  The server
\* of config.ref_lang is remembered in s->referenced and returned when it has
\* a process; otherwise it, or s itself, is started and NULL is returned.
GetLaunch(ft, ok) ==
    /\ lsp_servers[ft] # NULL
    /\ LET s   == Lookup(ft)
           ref == RefLang[filetype[s]]
           t   == IF ref = NULL THEN s ELSE lsp_servers[ref]
       IN /\ Launchable(s)
          /\ referenced' = IF ref = NULL THEN referenced
                           ELSE [referenced EXCEPT ![s] = t]
          /\ \/ /\ pid[t] # "none"
                /\ pending' = [pending EXCEPT ![t] = @ \cup {"request"}]
                /\ UNCHANGED <<pid, startup_shutdown, restarts>>
             \/ /\ pid[t] = "none"
                /\ filetype[t] \in HasCmd
                /\ StartServer(t, ok)
                /\ pid' = IF ok THEN [pid EXCEPT ![t] = "running"] ELSE pid
                /\ restarts' = IF ok THEN restarts ELSE [restarts EXCEPT ![t] = GiveUp]
    /\ UNCHANGED <<lsp_servers, servers_in_shutdown, heap, filetype, orphans,
                   timers, unloading, inits, fault>>

\* The same call when s->referenced points to a server that was freed: the code
\* reads it.
GetDangling(ft) ==
    /\ lsp_servers[ft] # NULL
    /\ Lookup(ft) \notin heap
    /\ fault' = "referenced"
    /\ UNCHANGED <<lsp_servers, servers_in_shutdown, objects, calls, timers,
                   unloading, inits>>

-----------------------------------------------------------------------------
(* The process behind a server *)

\* The operating system: a process ends, asked to or not.
ProcessExits(s) ==
    /\ pid[s] \in {"running", "killed"}
    /\ pid' = [pid EXCEPT ![s] = "exited"]
    /\ UNCHANGED <<lsp_servers, servers_in_shutdown, heap, filetype,
                   startup_shutdown, restarts, referenced, calls, timers,
                   unloading, inits, fault>>

\* process_stopped() of a server in shutdown: g_ptr_array_remove_fast() frees it.
ProcessStoppedNormally(s) ==
    /\ pid[s] = "exited"
    /\ s \in servers_in_shutdown
    /\ servers_in_shutdown' = servers_in_shutdown \ {s}
    /\ pid' = [pid EXCEPT ![s] = "none"]
    /\ FreeServer(s)
    /\ UNCHANGED <<lsp_servers, free_timers, unloading, inits, fault>>

\* process_stopped() of any other server: a crash.  The old server is freed 300
\* ms later; when the array still exists a new server takes the slot, counts
\* one restart more and is started unless it is given up.
ProcessCrashed(s) ==
    /\ pid[s] = "exited"
    /\ s \notin servers_in_shutdown
    /\ fault' = IF s \in free_timers THEN "process_stopped" ELSE fault
    /\ free_timers' = free_timers \cup {s}
    /\ LET ft == filetype[s]
       IN IF lsp_servers[ft] = NULL
          THEN /\ pid' = [pid EXCEPT ![s] = "none"]
               /\ UNCHANGED <<lsp_servers, heap, filetype, startup_shutdown,
                              restarts, pending>>
          ELSE \E n \in Obj \ heap, ok \in BOOLEAN :
                  LET count == Restarted(s)
                      dead  == count >= DeadRestarts
                      run   == ok /\ ~dead
                  IN /\ lsp_servers' = [lsp_servers EXCEPT ![ft] = n]
                     /\ heap' = heap \cup {n}
                     /\ filetype' = [filetype EXCEPT ![n] = ft]
                     /\ restarts' = [restarts EXCEPT ![n] =
                                        IF dead \/ ok THEN count ELSE GiveUp]
                     /\ pid' = [pid EXCEPT ![s] = "none",
                                           ![n] = IF run THEN "running" ELSE "none"]
                     /\ StartServer(n, run)
    /\ UNCHANGED <<servers_in_shutdown, referenced, orphans, kill_timers, unloading, inits>>

\* free_server_after_delay(): 300 ms after a crash.  A process started on this
\* object in the meantime keeps a child watch that holds the freed address.
FreeServerAfterDelay(s) ==
    /\ s \in free_timers
    /\ fault' = IF pid[s] = "none" THEN fault ELSE "process_stopped"
    /\ free_timers' = free_timers \ {s}
    /\ FreeServer(s)
    /\ UNCHANGED <<lsp_servers, servers_in_shutdown, pid, unloading, inits>>

-----------------------------------------------------------------------------
(* Answers, delivered by call_cb() of lsp-rpc.c *)

\* initialize_cb() with a result: the handshake is over.
InitializeDone(s) ==
    /\ "initialize" \in pending[s]
    /\ pending' = [pending EXCEPT ![s] = @ \ {"initialize"}]
    /\ startup_shutdown' = [startup_shutdown EXCEPT ![s] = FALSE]
    /\ UNCHANGED <<lsp_servers, servers_in_shutdown, heap, filetype, pid, restarts,
                   referenced, orphans, timers, unloading, inits, fault>>

\* initialize_cb() with an error: the process is killed.
InitializeFailed(s) ==
    /\ "initialize" \in pending[s]
    /\ pending' = [pending EXCEPT ![s] = @ \ {"initialize"}]
    /\ pid' = KillServer(s, pid)
    /\ UNCHANGED <<lsp_servers, servers_in_shutdown, heap, filetype,
                   startup_shutdown, restarts, referenced, orphans, timers,
                   unloading, inits, fault>>

\* shutdown_cb(): the exit notification is sent, or the process killed, and
\* one more kill_cb armed.
ShutdownAnswered(s, ok) ==
    /\ "shutdown" \in pending[s]
    /\ pending' = [pending EXCEPT ![s] = @ \ {"shutdown"}]
    /\ IF s \in servers_in_shutdown
       THEN /\ pid' = IF ok THEN pid ELSE KillServer(s, pid)
            /\ kill_timers' = kill_timers \cup Armed({s}, 2000)
       ELSE UNCHANGED <<pid, kill_timers>>
    /\ UNCHANGED <<lsp_servers, servers_in_shutdown, heap, filetype,
                   startup_shutdown, restarts, referenced, orphans, free_timers,
                   unloading, inits, fault>>

\* Any other answer; its callback runs unless startup_shutdown is set.
RequestAnswered(s) ==
    /\ "request" \in pending[s]
    /\ pending' = [pending EXCEPT ![s] = @ \ {"request"}]
    /\ UNCHANGED <<lsp_servers, servers_in_shutdown, objects, orphans, timers,
                   unloading, inits, fault>>

\* The error of an initialize or shutdown call whose client is closed, with the
\* old address as user_data.
OrphanFailed(c) ==
    /\ c \in orphans
    /\ orphans' = orphans \ {c}
    /\ \/ /\ c[2] = "initialize"   \* initialize_cb(): reads and kills the server
          /\ fault' = IF c[1] \in heap THEN fault ELSE "initialize_cb"
          /\ pid' = IF c[1] \in heap THEN KillServer(c[1], pid) ELSE pid
          /\ UNCHANGED kill_timers
       \/ /\ c[2] = "shutdown"     \* shutdown_cb(): looks for the address first
          /\ IF c[1] \in servers_in_shutdown
             THEN /\ pid' = KillServer(c[1], pid)
                  /\ kill_timers' = kill_timers \cup Armed({c[1]}, 2000)
             ELSE UNCHANGED <<pid, kill_timers>>
          /\ UNCHANGED fault
    /\ UNCHANGED <<lsp_servers, servers_in_shutdown, heap, filetype,
                   startup_shutdown, restarts, referenced, pending, free_timers,
                   unloading, inits>>

\* kill_cb(): SIGTERM if the address is found among the servers in shutdown.
KillTimeout(t) ==
    /\ t \in kill_timers
    /\ kill_timers' = kill_timers \ {t}
    /\ pid' = IF t.srv \in servers_in_shutdown THEN KillServer(t.srv, pid) ELSE pid
    /\ UNCHANGED <<lsp_servers, servers_in_shutdown, heap, filetype,
                   startup_shutdown, restarts, referenced, calls, free_timers,
                   unloading, inits, fault>>

-----------------------------------------------------------------------------
\* Touching freed memory ends a behaviour: nothing is said of what follows.
Next ==
    /\ fault = "none"
    /\ \/ StopAndInitAll
       \/ TerminateAll
       \/ \E ft \in Ft :
             \/ GetRunning(ft)
             \/ \E ok \in BOOLEAN : GetLaunch(ft, ok)
             \/ GetDangling(ft)
       \/ \E s \in Obj :
             \/ ProcessExits(s)
             \/ ProcessStoppedNormally(s)
             \/ ProcessCrashed(s)
             \/ FreeServerAfterDelay(s)
             \/ InitializeDone(s)
             \/ InitializeFailed(s)
             \/ \E ok \in BOOLEAN : ShutdownAnswered(s, ok)
             \/ RequestAnswered(s)
       \/ \E c \in orphans : OrphanFailed(c)
       \/ \E t \in kill_timers : KillTimeout(t)

Spec == Init /\ [][Next]_vars

\* The main loop dispatches a due timer and the watch of a dead child, and the
\* operating system ends a process that got SIGTERM.  Nothing else is owed: a
\* server may never answer and never exit on its own.
Fairness ==
    /\ \A s \in Obj :
          /\ WF_vars(fault = "none" /\ ProcessStoppedNormally(s))
          /\ WF_vars(fault = "none" /\ pid[s] = "killed" /\ ProcessExits(s))
    /\ \A t \in KillTimer : WF_vars(fault = "none" /\ KillTimeout(t))

FairSpec == Spec /\ Fairness

-----------------------------------------------------------------------------
(* Properties *)

\* lsp_servers holds, for all filetypes or for none, a live server of that
\* filetype that is neither being shut down nor waiting to be freed after a
\* crash: process_stopped() and lsp_server_stop_all() always leave usable slots.
SlotServersCurrent ==
    /\ \A ft1, ft2 \in Ft : lsp_servers[ft1] = NULL => lsp_servers[ft2] = NULL
    /\ \A ft \in Ft :
          lsp_servers[ft] # NULL =>
              /\ lsp_servers[ft] \in heap
              /\ filetype[lsp_servers[ft]] = ft
              /\ lsp_servers[ft] \notin servers_in_shutdown
              /\ lsp_servers[ft] \notin free_timers

\* free_server() leaves nothing behind that an address handed out again would
\* inherit: a freed server is in neither list, owns no process and no call, and a
\* server is never in servers_in_shutdown and waiting to be freed at once.
FreedServersForgotten ==
    /\ servers_in_shutdown \subseteq heap
    /\ free_timers \subseteq heap
    /\ servers_in_shutdown \cap free_timers = {}
    /\ \A s \in heap : filetype[s] \in Ft
    /\ \A s \in Obj \ heap :
          /\ ~startup_shutdown[s]
          /\ restarts[s] = 0
          /\ referenced[s] = NULL
          /\ pending[s] = {}
          /\ fault = "none" => pid[s] = "none"

\* A server in servers_in_shutdown is allocated and still has a process, so the
\* child watch that takes it out of the array is still to come: the wait of
\* lsp_server_stop_all() is never left with an entry nobody removes.
ShutdownHasProcess ==
    \A s \in servers_in_shutdown : s \in heap /\ pid[s] # "none"

\* Every server in shutdown either has its own kill timeout still armed or its
\* process was signalled or is gone: no sequence of answers, crashes and address
\* reuse leaves a deaf server running (stop_process(), shutdown_cb(), kill_cb()).
ShutdownWillBeKilled ==
    \A s \in servers_in_shutdown :
        \/ \E t \in kill_timers : t.srv = s /\ ~t.stale
        \/ pid[s] \in {"killed", "exited"}

\* Every process belongs to the current server of a filetype or to a server in
\* shutdown: crashes and restarts lose track of none (checked and proved for
\* configurations in which no filetype uses the server of another).
NoStrayProcess ==
    \A s \in Obj :
        pid[s] # "none" => s \in Slotted \/ s \in servers_in_shutdown

\* A crashed server waiting for free_server_after_delay() is out of reach: it has
\* no process, is in neither array, and is still allocated (no double free).
CrashedServerOutOfReach ==
    \A s \in free_timers :
        /\ s \in heap
        /\ pid[s] = "none"
        /\ s \notin servers_in_shutdown

\* A server that was given up stays in its slot without a process until the user
\* restarts the servers ("LSP server %s terminated %d times, giving up").
GivenUpStaysDown ==
    [][\/ StopAndInitAll
       \/ \A ft \in Ft :
             LET s == lsp_servers[ft]
             IN (s # NULL /\ is_dead(s) /\ pid[s] = "none" /\ ~unloading')
                   => (lsp_servers'[ft] = s /\ is_dead(s)' /\ pid'[s] = "none")]_vars

\* Crashes in a row are counted: the server that replaces a crashed one carries
\* one restart more, or the mark of a failed start, so a crash loop is finite.
CrashesAreCounted ==
    [][\/ StopAndInitAll
       \/ \A ft \in Ft :
             (lsp_servers[ft] # lsp_servers'[ft] /\ lsp_servers'[ft] # NULL)
                 => \/ restarts'[lsp_servers'[ft]] > restarts[lsp_servers[ft]]
                    \/ restarts'[lsp_servers'[ft]] = GiveUp]_vars

\* The slot of a filetype as the rest of the plugin sees it.
SlotOf(ft) ==
    LET s == lsp_servers[ft]
    IN IF s = NULL THEN [state |-> "none", count |-> 0]
       ELSE [state |-> IF pid[s] = "none" THEN IF is_dead(s) THEN "given up" ELSE "down"
                       ELSE IF startup_shutdown[s] THEN "starting" ELSE "ready",
             count |-> restarts[s]]

slotState == [ft \in Ft |-> SlotOf(ft)]

Abstract == INSTANCE ServerSlots WITH Limit <- DeadRestarts, Most <- GiveUp, slot <- slotState

\* Whatever becomes of objects, processes, timers and answers, the servers in the slots go
\* through a handshake before they are ready, crash and restart with a count, and stay down
\* once they are given up (configurations in which no filetype uses the server of another).
ImplementsServerSlots == Abstract!Spec

\* Nothing but initialize is sent before the handshake is over: a server that is
\* starting or stopping is never handed out (server_get_or_start_for_ft()).
HandshakeFirst ==
    [][\A s \in Obj :
          "request" \in pending'[s] \ pending[s] => ~startup_shutdown[s]]_vars

\* initialize_cb() never gets a server that was freed: the calls of a stopped
\* process are performed before the server they carry goes away.
CallbackServerAlive == fault # "initialize_cb"

\* terminate_all() returns: its wait for servers_in_shutdown to become empty ends
\* even when no server ever answers or exits on its own.
UnloadReturns == unloading ~> (servers_in_shutdown = {} \/ fault # "none")

=============================================================================
